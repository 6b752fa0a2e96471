------------------------------ MODULE Bindings ------------------------------
(***************************************************************************)
(* The calls of virt_wrap: what each binding makes of libvirt's answer.    *)
(* Ownership's variables hold the handles; the strings, structures and     *)
(* arrays that libvirt allocates for an answer are blocks here, item i of  *)
(* the answer being block i.  Other clients of libvirt add and remove      *)
(* items between the steps of a call.                                      *)
(*                                                                         *)
(* The methods are listed by the shape of their translation; methods of    *)
(* one shape differ by the libvirt function they call.                     *)
(***************************************************************************)
EXTENDS Ownership, Sequences, FiniteSetsExt

CONSTANTS N,           \* bound on the items of an answer
          CpusPerByte, \* the CPUs of a byte of a map: libvirt's 8
          Garbage      \* an uninitialised pointer

ASSUME BindingsAssumption ==
  /\ N \in Nat \ {0} /\ 1 .. N \subseteq Objects /\ 1 .. N \subseteq Vars
  /\ CpusPerByte \in Nat \ {0}
  /\ Garbage \notin Objects \cup {Null}

VARIABLES
  phase,  \* of the call: "idle", "count", "fill", "call", "return", "hold", "done"
  call,   \* the method: its class, its shape and its name
  have,   \* the items that libvirt has to list
  others, \* the number of active domains, when those defined are listed
  asked,  \* the count that the buffer was sized with
  told,   \* what libvirt returned: a status, or the number of items; -1 of a failed count
  answer, \* what the binding returned, and the items the caller reads in it
  slots,  \* the pointers in the container that the caller holds
  blocks, \* the blocks that nobody freed yet
  array,  \* the array of the answer is allocated
  fault   \* what went wrong with memory, or "none"

callVars == <<phase, call, have, others, asked, told, answer, slots, blocks, array, fault>>
vars == <<ownVars, callVars>>

-----------------------------------------------------------------------------
(* The methods, class by class in the order of the source *)

Of(class, shapes) ==
  UNION {{[class |-> class, shape |-> s, name |-> n] : n \in shapes[s]} : s \in DOMAIN shapes}

DomainActs == Of("Domain", [
  handle |-> {"createXML"},
  zero |-> {"abortJob", "addIOThread", "attachDevice", "create", "coreDump", "delIOThread",
            "destroy", "detachDevice", "detachDeviceAlias", "fsTrim"},
  nonneg |-> {"blockCommit", "blockCopy", "blockJobAbort", "blockJobSetSpeed", "blockPeek",
              "blockPull", "blockRebase", "blockResize"},
  plainStatic |-> {"blockStats"}, fillParams |-> {"blockStatsFlags"},
  raw |-> {"fsFreeze", "fsThaw"}, blind |-> {"getAutostart"}])

DomainReads == Of("Domain", [
  fillParams |-> {"getBlkioParameters", "getBlockIoTune", "getTotalCPUStats", "getCPUStats"},
  setParams |-> {"getJobStats", "getGuestVcpus"},
  nonneg |-> {"getBlockInfo", "getBlockJobInfo"}, zero |-> {"getControlInfo"},
  auto |-> {"getDiskErrors"}, heavyAuto |-> {"extractDiskErrors"},
  strided |-> {"getFSInfo", "getIOThreadInfo"}, copiedFreed |-> {"extractFSInfo"},
  copiedKept |-> {"extractIOThreadInfo"},
  string |-> {"getHostname"}, copied |-> {"extractHostname"}])

DomainFacts == Of("Domain", [
  blind |-> {"getInfo"},
  fillParams |-> {"getInterfaceParameters", "getMemoryParameters", "getNumaParameters"},
  setParams |-> {"getLaunchSecurityInfo"}, zero |-> {"getJobInfo", "getSecurityLabel", "getState"},
  raw |-> {"getMaxVcpus", "getID", "getNumVcpus"}, view |-> {"getName"},
  string |-> {"getMetadata", "getSchedulerType"}, converted |-> {"extractMetadata"},
  plainSet |-> {"getSecurityLabelList"}, copiedFreed |-> {"extractSecurityLabelList"}])

DomainTimes == Of("Domain", [
  zero |-> {"getTime", "getUUIDString", "extractUUIDString", "injectNMI"},
  nonneg |-> {"getVcpus"}, throwing |-> {"getUUID"}, raw |-> {"getMaxMemory"},
  string |-> {"getOSType", "getXMLDesc"}, setParams |-> {"getPerfEvents"},
  countParams |-> {"getSchedulerParameters"}, cpuMaps |-> {"getVcpuPinInfo"},
  tfe |-> {"hasManagedSaveImage", "isPersistent", "isUpdated"},
  strided |-> {"interfaceAddressesView"}, copiedKept |-> {"interfaceAddresses"},
  nonzero |-> {"interfaceStats"}])

DomainMoves == Of("Domain", [
  zero |-> {"PMSuspendForDuration", "PMWakeup", "managedSave", "managedSaveDefineXML",
            "managedSaveRemove", "memoryPeek", "migrateGetCompressionCache",
            "migrateGetMaxDowntime", "migrateGetMaxSpeed", "migrateSetCompressionCache",
            "migrateSetMaxDowntime", "migrateSetMaxSpeed", "migrateStartPostCopy"},
  string |-> {"managedSaveGetXMLDesc"}, converted |-> {"managedSaveExtractXMLDesc"},
  plainAuto |-> {"memoryStats"}, handle |-> {"migrate"},
  nonneg |-> {"migrateToURI", "openChannel", "openConsole", "openGraphics"},
  raw |-> {"openGraphicsFD"}])

DomainSettings == Of("Domain", [
  nonneg |-> {"pinEmulator", "pinIOThread", "pinVcpu", "pinVcpuFlags", "sendKey",
              "sendProcessSignal", "setMemoryStatsPeriod", "setBlkioParameters",
              "setBlockIoTune", "setBlockThreshold", "setGuestVcpus", "setIOThreadParams",
              "setInterfaceParameters", "setLifecycleAction", "setMemoryFlags",
              "setMemoryParameters", "setNumaParameters", "setPerfEvents",
              "setSchedulerParameters", "setMetadata", "setVcpu", "updateDeviceFlags"},
  zero |-> {"setMaxMemory", "setMemory", "reboot", "rename", "reset", "resume", "save",
            "setAutoStart", "setVcpus", "shutdown", "suspend", "undefine"},
  question |-> {"isActive"}, nonzero |-> {"setTime", "setUserPassword"},
  string |-> {"screenshot"}])

ConnectionFacts == Of("Connection", [
  kept |-> {"findStoragePoolSources", "getStoragePoolCapabilities", "getCapabilities",
            "getHostname", "getSysInfo", "getURI"},
  view |-> {"getType"}, throwing |-> {"getLibVersion"},
  raw |-> {"getMaxVcpus", "numOfDomains", "numOfDefinedDomains"},
  positive |-> {"isAlive", "isEncrypted", "isSecure"}, ints |-> {"listDomains"}])

ConnectionDomains == Of("Connection", [
  definedNames |-> {"listDefinedDomains<zstring>"},
  definedStrings |-> {"listDefinedDomains<string>"}, heavySet |-> {"listAllDomains"},
  stats |-> {"getAllDomainStats"}, nonneg |-> {"domainSaveImageDefineXML"},
  handle |-> {"domainLookupByID", "domainLookupByName", "domainLookupByUUID",
              "domainLookupByUUIDString", "networkLookupByUUID", "networkLookupByName",
              "networkLookupByUUIDString"},
  string |-> {"domainSaveImageGetXMLDesc"}, blind |-> {"nodeGetInfo"},
  raw |-> {"nodeGetFreeMemory"}, cells |-> {"nodeGetCellsFreeMemory"}])

ConnectionLists == Of("Connection", [
  inPlace |-> {"listAllNetworks", "listAllStoragePools"},
  freeable |-> {"listDefinedNetworksNames", "listNetworksNames", "listDevicesNames",
                "listDefinedStoragePoolsNames", "listStoragePoolsNames"},
  heavyFreeable |-> {"extractDefinedNetworksNames", "extractNetworksNames",
                     "extractDevicesNames"},
  heavySet |-> {"extractAllNetworks", "extractAllDevices", "extractAllStoragePools"},
  nullTerminated |-> {"listAllDevices"},
  handle |-> {"deviceLookupByName", "deviceLookupSCSIHostByWWN", "storagePoolLookupByName",
              "storagePoolLookupByTargetPath", "storagePoolLookupByUUID",
              "storagePoolLookupByUUIDString", "storageVolLookupByKey",
              "storageVolLookupByPath"},
  raw |-> {"numOfDefinedStoragePools", "numOfStoragePools"}, zero |-> {"restore"}])

Networks == Of("Network", [
  string |-> {"getBridgeName", "getXMLDesc"}, converted |-> {"extractXMLDesc", "extractName"},
  view |-> {"getName"},
  zero |-> {"getUUID", "getUUIDString", "extractUUIDString", "setAutostart", "create",
            "destroy", "undefine"},
  tfe |-> {"isActive", "isPersistent", "getAutostart"}, leases |-> {"getDHCPLeases"},
  copiedLeases |-> {"extractDHCPLeases"}, handle |-> {"createXML", "defineXML"}])

StoragePools == Of("StoragePool", [
  zero |-> {"build", "create", "delete_", "destroy", "getInfo", "getUUID", "getUUIDString",
            "refresh", "setAutostart", "undefine"},
  tfe |-> {"getAutostart", "isActive", "isPersistent"}, view |-> {"getName"},
  kept |-> {"getXMLDesc"}, inPlace |-> {"listAllVolumes"},
  heavySet |-> {"extractAllVolumes"}, freeable |-> {"listVolumesNames"},
  raw |-> {"numOfVolumes"}, handle |-> {"createXML", "defineXML", "volLookupByName"}])

StorageVols == Of("StorageVol", [
  zero |-> {"delete_", "getInfo", "resize", "upload", "wipe", "wipePattern"},
  nonzero |-> {"download"}, view |-> {"getKey", "getName"},
  string |-> {"getPath", "getXMLDesc"},
  handle |-> {"getPool", "createXML", "createXMLFrom"}])

NodeDevices == Of("NodeDevice", [
  zero |-> {"destroy", "detach", "reAttach", "reset"}, view |-> {"getName", "getParent"},
  kept |-> {"getXMLDesc"}, copied |-> {"extractXMLDesc"}, static |-> {"listCaps"},
  heavyStatic |-> {"extractCaps"}, handle |-> {"createXML"}])

Streams == Of("Stream", [
  nonneg |-> {"abort", "finish", "recvHole", "sendHole"}, raw |-> {"recv", "send"}])

Methods ==
  UNION {DomainActs, DomainReads, DomainFacts, DomainTimes, DomainMoves, DomainSettings,
         ConnectionFacts, ConnectionDomains, ConnectionLists, Networks, StoragePools,
         StorageVols, NodeDevices, Streams}

\* The class of the handles that a list is made of.
Elements == [listAllDomains |-> "Domain", getAllDomainStats |-> "Domain",
             extractAllNetworks |-> "Network", extractAllDevices |-> "NodeDevice",
             extractAllStoragePools |-> "StoragePool", extractAllVolumes |-> "StorageVol"]

-----------------------------------------------------------------------------
(* Families of shapes *)

Statuses == {"zero", "nonneg", "positive", "nonzero", "question", "tfe", "raw", "blind",
             "throwing"}
Strings  == {"string", "converted", "copied", "kept", "view"}
Filled   == {"static", "plainStatic", "freeable", "auto", "plainAuto", "cpuMaps", "heavyStatic",
             "heavyFreeable", "heavyAuto", "ints", "cells", "definedNames", "definedStrings"}
Params   == {"fillParams", "countParams", "setParams"}
Sets     == {"inPlace", "strided", "nullTerminated", "heavySet", "copiedFreed", "copiedKept",
             "plainSet", "stats", "leases", "copiedLeases"}

\* Answers whose items are plain values, in the caller's own memory.
Plain == {"plainStatic", "plainAuto", "cpuMaps", "ints", "cells", "view"}
Shape == call.shape

NoCall   == [class |-> "none", shape |-> "none", name |-> "none"]
Items(k) == [i \in 1 .. k |-> i]
\* An answer: the items that can be read in it are copies, or the blocks.
Answer(tag, items, copied) == [tag |-> tag, items |-> items, copied |-> copied]
Nothing(tag) == Answer(tag, <<>>, TRUE)

Init ==
  /\ OwnInit
  /\ phase = "idle" /\ call = NoCall
  /\ have = 0 /\ others = 0 /\ asked = 0 /\ told = 0
  /\ answer = Nothing("none") /\ slots = <<>>
  /\ blocks = {} /\ array = FALSE
  /\ fault = "none"

\* The program holds nothing and calls a method, on any number of items.  What
\* looks one object up, or makes one, is Ownership's Obtain.
Begin(m) ==
  /\ phase = "idle" /\ slip = "none"
  /\ \A v \in Vars : ptr[v] = Unborn
  /\ \A o \in Objects : refs[o] = 0
  /\ m.shape # "handle"
  /\ m.name \in DOMAIN Elements => cls = Elements[m.name]
  /\ call' = m
  /\ phase' = IF m.shape \in Filled \cup {"fillParams", "countParams"} THEN "count" ELSE "call"
  /\ have' \in 0 .. N /\ others' \in 0 .. N
  /\ UNCHANGED <<ownVars, asked, told, answer, slots, blocks, array, fault>>

\* Other clients of libvirt, between the two calls of a method.
OthersAct ==
  /\ phase = "fill"
  /\ have' \in 0 .. N \ {have}
  /\ UNCHANGED <<ownVars, phase, call, others, asked, told, answer, slots, blocks, array, fault>>

-----------------------------------------------------------------------------
(* Answers of one value *)

Outcomes(shape) ==
  IF shape \in {"positive", "question", "tfe"} THEN {-1, 0, 1} ELSE {-1, 0}

\* How a method reads what libvirt returned.
Says(how, r) ==
  \/ how = "zero" /\ r = 0
  \/ how = "nonneg" /\ r >= 0
  \/ how = "positive" /\ r > 0
  \/ how \in {"nonzero", "question"} /\ r # 0

\* Slips: 0 is taken for an error; TFE's values shifted by one.
Reading_Shifted(how, r) ==
  IF how = "tfe" THEN (IF r = -1 THEN "no" ELSE "yes")
  ELSE IF r > 0 THEN "yes" ELSE "no"

\* TFE keeps the three values apart; a blind method does not look at the
\* status, and returns what its variable held when the call failed.
Reading(how, r) ==
  IF how = "tfe" THEN (IF r = 1 THEN "yes" ELSE IF r = 0 THEN "no" ELSE "error")
  ELSE IF how = "raw" THEN "number"
  ELSE IF how = "blind" THEN (IF r = 0 THEN "yes" ELSE "unknown")
  ELSE IF how = "throwing" THEN (IF r = 0 THEN "yes" ELSE "thrown")
  ELSE IF Says(how, r) THEN "yes" ELSE "no"

Ask ==
  /\ phase = "call" /\ Shape \in Statuses
  /\ told' \in Outcomes(Shape)
  /\ answer' = Nothing(Reading(Shape, told'))
  /\ phase' = "done"
  /\ UNCHANGED <<ownVars, call, have, others, asked, slots, blocks, array, fault>>

\* A UniqueZstring owns libvirt's string.  A std::string is a copy of it,
\* from a UniqueZstring ("converted") or from the bare pointer ("copied"), and
\* cannot be made from a null one.  A bare pointer is nobody's ("kept"),
\* unless libvirt keeps the string itself ("view").
\* The methods that make one are noexcept, but for extractMetadata().
\* Slip: the string is copied from the bare pointer in every case.
ReadString_Bare ==
  /\ phase = "call" /\ Shape \in Strings
  /\ told' = 1 /\ blocks' = {1}
  /\ answer' = Answer("list", <<1>>, TRUE)
  /\ phase' = "done"
  /\ UNCHANGED <<ownVars, call, have, others, asked, slots, array, fault>>

ReadString ==
  /\ phase = "call" /\ Shape \in Strings
  /\ told' \in {-1, 1}
  /\ IF told' = 1
       THEN /\ answer' = Answer("list", <<1>>, Shape \notin {"string", "kept"})
            /\ blocks' = IF Shape \in {"string", "copied", "kept"} THEN {1} ELSE {}
            /\ slots' = IF Shape = "string" THEN <<1>> ELSE <<>>
            /\ phase' = "hold"
       ELSE /\ answer' = Nothing(IF Shape \notin {"converted", "copied"} THEN "none"
                                 ELSE IF call.name = "extractMetadata" THEN "thrown"
                                 ELSE "terminated")
            /\ phase' = "done"
            /\ UNCHANGED <<blocks, slots>>
  /\ UNCHANGED <<ownVars, call, have, others, asked, array, fault>>

-----------------------------------------------------------------------------
(* Vectors: a count sizes the buffer, a second call fills it *)

Light == {"static", "plainStatic", "freeable", "auto", "plainAuto", "cpuMaps"}
\* The container frees the pointers it holds.
Owning == {"freeable", "heavyFreeable", "auto", "heavyAuto", "definedNames", "definedStrings"}
Converting == {"heavyStatic", "heavyFreeable", "definedStrings"}

Accepts(shape) ==
  CASE shape \in {"static", "plainStatic"} -> "positive"
    [] shape \in {"ints", "cells", "definedNames", "definedStrings"} -> "nonneg"
    [] OTHER -> "zero"

\* NoallocWFree leaves the elements of its vector uninitialised.
Blank(shape) == IF shape \in {"freeable", "heavyFreeable"} THEN Garbage ELSE Null

\* What sizes the buffer: the count of the same list, that of the active
\* domains for the names of those defined, or a number of the caller's, or of
\* a getInfo() that may have failed.
Sizes ==
  CASE Shape = "definedNames" -> {others, -1}
    [] Shape \in {"plainStatic", "plainAuto", "cpuMaps", "cells"} -> 0 .. N
    [] OTHER -> {have, -1}

\* A count of -1 is a size that no vector has: the exception ends a noexcept
\* method, and with it the program.  wrap_oparm_fill_tp() returns nullopt, and
\* for a count function that returns 0, as that of getSchedulerParameters()
\* does, whatever the count.
Uncounted(c) ==
  /\ c = -1 \/ Shape = "countParams"
  /\ answer' = Nothing(CASE Shape \in Params -> "none" [] Shape \in Light -> "terminated"
                         [] OTHER -> "thrown")
  /\ phase' = "done"
  /\ told' = -1
  /\ UNCHANGED <<asked, array>>

\* The light wrappers leave an empty buffer as it is.
Sized(c) ==
  /\ c # -1 /\ Shape # "countParams"
  /\ asked' = c
  /\ array' = (Shape = "fillParams")
  /\ IF c = 0 /\ Shape \in Light
       THEN phase' = "return" /\ told' = 0
       ELSE phase' = "fill" /\ UNCHANGED told
  /\ UNCHANGED answer

Count ==
  /\ phase = "count"
  /\ \E c \in Sizes : Uncounted(c) \/ Sized(c)
  /\ UNCHANGED <<ownVars, call, have, others, slots, blocks, fault>>

\* VIR_CPU_MAPLEN(n): the bytes of one map of n CPUs.  getVcpuPinInfo() has n bytes
\* for n maps, and tells libvirt that each of them has that length.
MapLen(n)         == (n + CpusPerByte - 1) \div CpusPerByte
MapsTooLong(k, n) == k > 0 /\ k * MapLen(n) > n

\* What libvirt writes beyond the buffer: k of n maps that have no room, or the
\* parameters of all the CPUs that getCPUStats() asks for in the place of one's.
Overflow(k, n) ==
  IF Shape = "cpuMaps" /\ MapsTooLong(k, n) THEN {"wrote past the buffer"}
  ELSE IF Shape = "fillParams" /\ call.name = "getCPUStats" /\ k = 0 /\ n > 0
    THEN {"wrote past the buffer", "none"}
  ELSE {"none"}

\* libvirt fills as much of the buffer as it can, and says how much; a block
\* statistics or a set of parameters is one structure, with a status.
Fill ==
  /\ phase = "fill"
  /\ told' \in {-1, IF Shape \in {"plainStatic", "fillParams"} THEN 0 ELSE Min({have, asked})}
  /\ blocks' = IF told' = -1 \/ Shape \in Plain THEN {}
               ELSE 1 .. IF Shape = "fillParams" THEN asked ELSE told'
  /\ fault' \in Overflow(told', asked)
  /\ phase' = "return"
  /\ UNCHANGED <<ownVars, call, have, others, asked, answer, slots, array>>

Buffer ==
  [i \in 1 .. IF Shape = "ints" /\ told >= 0 THEN told ELSE asked |->
     IF i <= told THEN i ELSE Blank(Shape)]
Has(seq, p) == p \in Range(seq)

\* The buffer is destroyed; what it owns is freed.
FreeBuffer ==
  /\ blocks' = IF Shape \in Owning THEN {} ELSE blocks
  /\ fault' = IF Shape \in Owning /\ Has(Buffer, Garbage) THEN "freed garbage" ELSE fault
  /\ UNCHANGED slots

\* Slip: libvirt's count of the items is accepted for what it is.
Accepted_Count == told >= 0
Accepted == (Shape \in Light /\ asked = 0) \/ Says(Accepts(Shape), told)

RefuseBuffer ==
  /\ ~Accepted
  /\ answer' = Nothing(IF Shape \in Light THEN "none" ELSE "thrown")
  /\ phase' = "done"
  /\ FreeBuffer

\* Every pointer becomes a std::string, which cannot be made from a null one.
ConvertBuffer ==
  /\ Accepted /\ Shape \in Converting
  /\ answer' = IF Has(Buffer, Null) THEN Nothing("thrown") ELSE Answer("list", Buffer, TRUE)
  /\ phase' = "done"
  /\ FreeBuffer

GiveBuffer ==
  /\ Accepted /\ Shape \notin Converting
  /\ answer' = Answer("list", Buffer, Shape \in Plain)
  /\ slots' = IF Shape \in Owning THEN Buffer ELSE <<>>
  /\ phase' = "hold"
  /\ UNCHANGED <<blocks, fault>>

ReturnBuffer ==
  /\ phase = "return" /\ Shape \in Filled
  /\ RefuseBuffer \/ ConvertBuffer \/ GiveBuffer
  /\ UNCHANGED <<ownVars, call, have, others, asked, told, array>>

-----------------------------------------------------------------------------
(* Arrays that libvirt allocates *)

\* No leases, and no parameters, come without an array.
FetchArray ==
  /\ phase = "call" /\ Shape \in Sets \cup {"setParams"}
  /\ told' \in {-1, IF Shape = "setParams" THEN 0 ELSE have}
  /\ array' = (told' # -1 /\ (have > 0 \/ Shape \notin {"leases", "setParams"}))
  /\ blocks' = IF told' = -1 THEN {} ELSE 1 .. have
  /\ phase' = "return"
  /\ UNCHANGED <<ownVars, call, have, others, asked, answer, slots, fault>>

\* The span of a failed call is null, and its end() lies before its begin():
\* the caller tests it before it iterates.
NoArray ==
  /\ told = -1
  /\ answer' = Nothing(IF Shape \in {"heavySet", "copiedFreed", "copiedKept", "stats"} THEN "thrown"
                       ELSE "none")
  /\ phase' = "done"
  /\ UNCHANGED <<ownVars, slots, blocks, array, fault>>

\* The caller gets the array.  The wrapper classes of structures lie over an
\* array of pointers: what is read through them is not what libvirt wrote.
GiveArray ==
  /\ told >= 0 /\ Shape \in {"inPlace", "strided", "nullTerminated", "plainSet", "leases"}
  /\ slots' = IF Shape = "strided" THEN [i \in 1 .. told |-> Garbage] ELSE Items(told)
  /\ answer' = Answer("list", slots', FALSE)
  /\ phase' = "hold"
  /\ UNCHANGED <<ownVars, blocks, array, fault>>

\* Each handle goes to an object of its class, and the array is freed.
AdoptArray ==
  /\ told >= 0 /\ Shape = "heavySet"
  /\ refs' = [o \in Objects |-> IF o \in 1 .. told THEN 1 ELSE 0]
  /\ ptr' = [v \in Vars |-> IF v \in 1 .. told THEN v ELSE Unborn]
  /\ answer' = Answer("list", Items(told), TRUE)
  /\ blocks' = {} /\ array' = FALSE
  /\ phase' = "done"
  /\ UNCHANGED <<cls, lent, slip, slots, fault>>

\* The structures are copied, those of extractFSInfo() freed by the copy, and
\* the leases freed with the strings that the copies still point to.
\* Slip: the structures are freed first.
CopyArray_FreesFirst ==
  /\ told >= 0 /\ Shape \in {"copiedFreed", "copiedKept", "copiedLeases"}
  /\ answer' = Answer("list", Items(told), FALSE)
  /\ blocks' = {} /\ array' = FALSE
  /\ phase' = "hold"
  /\ UNCHANGED <<ownVars, slots, fault>>

CopyArray ==
  /\ told >= 0 /\ Shape \in {"copiedFreed", "copiedKept", "copiedLeases"}
  /\ answer' = Answer("list", Items(told), Shape # "copiedLeases")
  /\ blocks' = IF Shape = "copiedKept" THEN blocks ELSE {}
  /\ array' = FALSE
  /\ phase' = "hold"
  /\ UNCHANGED <<ownVars, slots, fault>>

\* getAllDomainStats() takes the records for one array, though each has a
\* block of its own, and makes an owner of a domain that libvirt then frees
\* with the record.
AdoptStats ==
  /\ told >= 0 /\ Shape = "stats"
  /\ fault' = IF told > 1 THEN "read past the record" ELSE fault
  /\ IF told = 1
       THEN /\ ptr' = [ptr EXCEPT ![1] = 1]
            /\ slip' = "domain of a freed record"
       ELSE UNCHANGED <<ptr, slip>>
  /\ answer' = Answer("list", Items(told), TRUE)
  /\ blocks' = {} /\ array' = FALSE
  /\ phase' = "done"
  /\ UNCHANGED <<cls, refs, lent, slots>>

ReturnArray ==
  /\ phase = "return" /\ Shape \in Sets
  /\ NoArray \/ GiveArray \/ AdoptArray \/ CopyArray \/ AdoptStats
  /\ UNCHANGED <<call, have, others, asked, told>>

\* The TypedParams that is returned has the pointer and the flags of the
\* local one, which deletes the array of wrap_oparm_fill_tp() when it goes;
\* that of wrap_oparm_set_tp() has neither flag set.
ReturnParams ==
  /\ phase = "return" /\ Shape \in Params
  /\ array' = (array /\ Shape = "setParams")
  /\ IF told = 0
       THEN /\ answer' = Answer("list", [i \in 1 .. Cardinality(blocks) |-> i], FALSE)
            /\ phase' = "hold"
       ELSE /\ answer' = Nothing("none")
            /\ phase' = "done"
  /\ UNCHANGED <<ownVars, call, have, others, asked, told, slots, blocks, fault>>

-----------------------------------------------------------------------------
(* The caller reads the answer and drops it *)

\* The deleters of listAllDevices() and of getDHCPLeases() go on until a
\* pointer into the array is null, which none is.
Overrun == Shape \in {"nullTerminated", "leases"} /\ array

UseAndDrop ==
  /\ phase = "hold"
  /\ fault' =
       IF Shape = "fillParams" THEN "params freed under the answer"
       ELSE IF ~answer.copied /\ Has(answer.items, Garbage) THEN "read garbage"
       ELSE IF ~answer.copied /\ ~(Range(answer.items) \ {Null} \subseteq blocks) THEN "read freed"
       ELSE IF Overrun THEN "ran off the array"
       ELSE fault
  /\ blocks' = blocks \ Range(slots)
  /\ array' = (array /\ Shape = "setParams")
  /\ phase' = "done"
  /\ UNCHANGED <<ownVars, call, have, others, asked, told, answer, slots>>

\* Nothing is lost: the program goes on.
Rest ==
  /\ phase = "done" /\ fault = "none" /\ answer.tag # "terminated"
  /\ blocks = {} /\ ~array
  /\ phase' = "idle" /\ call' = NoCall
  /\ have' = 0 /\ others' = 0 /\ asked' = 0 /\ told' = 0
  /\ answer' = Nothing("none") /\ slots' = <<>>
  /\ UNCHANGED <<ownVars, blocks, array, fault>>

\* Between two calls the program moves its handles about.
Operate ==
  /\ phase = "idle"
  /\ OwnNext
  /\ UNCHANGED callVars

Next ==
  \/ \E m \in Methods : Begin(m)
  \/ OthersAct
  \/ Ask \/ ReadString
  \/ Count \/ Fill \/ ReturnBuffer
  \/ FetchArray \/ ReturnArray \/ ReturnParams
  \/ UseAndDrop \/ Rest
  \/ Operate

Spec == Init /\ [][Next]_vars

-----------------------------------------------------------------------------
(* Properties *)

Finished == phase = "done"
\* libvirt had the same items at the count and at the fill.
Unraced == Shape \notin Filled \/ told = asked

\* Where the code goes wrong with memory: a short answer in a vector whose
\* blanks are uninitialised; an array of pointers read as one of structures;
\* a deleter without an end; a read past a record; the strings of the leases,
\* freed with them; the parameters, deleted by the local object; the maps of
\* more CPUs than one byte has bits, in a buffer of one byte for each.
Misuses ==
  \/ Shape \in {"freeable", "heavyFreeable"} /\ asked > 0 /\ told < asked
  \/ Shape = "strided" /\ told > 0
  \/ Shape = "nullTerminated" /\ told >= 0
  \/ Shape = "leases" /\ told > 0
  \/ Shape = "stats" /\ told > 1
  \/ Shape = "copiedLeases" /\ told > 0
  \/ Shape = "fillParams" /\ told = 0
  \/ Shape = "cpuMaps" /\ MapsTooLong(told, asked)

\* No call of the bindings, whatever libvirt answers and whatever changes
\* between its steps, frees, reads or writes memory that is not its to free,
\* read or write, except those of Misuses; and each of those does.
MemoryForAReason == Finished => ((fault # "none") <=> Misuses)

\* What libvirt allocated for an answer is freed when the caller drops it,
\* whichever way the call went, except by a method that takes a bare pointer
\* for the answer, copies a structure and forgets it, or makes TypedParams
\* without their flags: and each of those leaves it behind.
Leaves ==
  \/ Shape \in {"copied", "kept", "copiedKept", "static"} /\ told > 0
  \/ Shape = "heavyStatic" /\ told > 0
  \/ Shape = "setParams" /\ told = 0 /\ have > 0
NothingLeft ==
  Finished /\ fault = "none" => ((blocks # {} \/ array) <=> Leaves)

\* A list that libvirt delivered reaches the caller, item by item, and an
\* error never passes for a list; but the wrappers that take any number of
\* items but 0 for an error lose every list that is not empty, blockStats()
\* takes libvirt's status 0 for one and loses what it asked for, a list sized
\* by the count of another is cut or padded, and one that shrank since it was
\* counted is padded.
Losing == {"freeable", "heavyFreeable", "heavyStatic", "auto", "heavyAuto", "plainAuto", "cpuMaps"}
Lost ==
  \/ told = -1
  \/ Shape \in Losing /\ told > 0
  \/ Shape = "plainStatic" /\ asked > 0
ListsDelivered ==
  (Finished /\ Shape \in Filled \cup Sets \cup Strings) =>
    /\ Lost => answer.tag # "list"
    /\ (~Lost /\ Unraced /\ Shape \notin Losing \cup {"definedNames", "strided"}) =>
         answer.tag = "list" /\ answer.items = Items(told)

\* A method that answers a question says what libvirt said: yes for what was
\* done or is so, and an error is not taken for a yes; but the methods that
\* return the status itself say yes exactly when libvirt failed, and isActive()
\* takes a failure for a yes.
AnswersTrue ==
  (Finished /\ Shape \in Statuses \ {"raw", "blind"}) =>
    LET granted == told = IF -1 \in Outcomes(Shape) /\ 1 \in Outcomes(Shape) THEN 1 ELSE 0
    IN  IF Shape = "nonzero" THEN (answer.tag = "yes") <=> ~granted
        ELSE IF Shape = "question" THEN (answer.tag = "yes") <=> granted \/ told = -1
        ELSE (answer.tag = "yes") <=> granted
=============================================================================
