----------------------------- MODULE HandleJson -----------------------------
(***************************************************************************)
(* handle_json() (include/wrapper/handler.hpp): one request to libvirt,    *)
(* from the gates through the Resolver (solver.hpp) and the JDispatch of   *)
(* the verb (dispatch.hpp) to the domain and network handlers.  Other      *)
(* clients of libvirt create and remove objects at any moment, and the     *)
(* daemon may go away.                                                     *)
(*                                                                         *)
(* The libvirt handles that virt::Connection, virt::Domain and             *)
(* virt::Network own are numbered as they are opened; 0 is a null handle.  *)
(* What an action of a PATCH does is PatchActions'.                        *)
(***************************************************************************)
EXTENDS Integers, Sequences, FiniteSets

CONSTANTS Requests,   \* the requests that are sent
          Names,      \* the libvirt objects of the kind that is asked for
          Bridgeless, \* the networks that have no bridge
          Listed      \* domains with file systems or launch security
                      \* parameters, networks with leases

(***************************************************************************)
(* A request.                                                              *)
(*   key     X-Auth-Key is right, or not required                          *)
(*   path    "empty", "other" (not /libvirt), "short" (no more than that), *)
(*           "parameter" (neither of the two that follow), "domains",      *)
(*           "networks"                                                    *)
(*   search  "all", "flag" (all, with an unknown state), "malformed" (no   *)
(*           such search key, or no value), or the name of the object      *)
(*   sub     the path goes on: "none", "value" (xml_desc, hostname, ...),  *)
(*           "list" (fs_info, launch_security_info, dhcp-leases),         *)
(*           "option" (a bad one of xml_desc, dumpxml) or "unknown"       *)
(*   verb    handle_request() lets no other through                        *)
(*   option  the query's undefine flags are right                          *)
(*   body    the type of the JSON value, the types of an array's items;    *)
(*           "empty" is {}, "null" any other type, or what does not parse; *)
(*           "mistyped" is an object that asks for power management with   *)
(*           a `request' or a flag in an array of flags that is no string, *)
(*           "object" any other one                                        *)
(***************************************************************************)
Objects == {"object", "mistyped"}
Item    == Objects \cup {"string", "empty", "null"}
Request ==
  [key : BOOLEAN, path : {"empty", "other", "short", "parameter", "domains", "networks"},
   search : {"all", "flag", "malformed"} \cup Names,
   sub : {"none", "value", "list", "option", "unknown"},
   verb : {"post", "get", "patch", "delete"}, option : BOOLEAN,
   body : Item \cup {"array"}, items : Seq(Item)]

ASSUME RequestsAssumption == Requests \subseteq Request
ASSUME NamesAssumption ==
  /\ Names \cap {"all", "flag", "malformed"} = {}
  /\ IsFiniteSet(Names)

VARIABLES
  req,     \* the request
  pc,      \* where handle_json() is
  daemon,  \* libvirtd answers on the connection
  world,   \* the objects that exist
  gone,    \* those that did not at some moment of the request (history)
  conn,    \* the virt::Connection: "none", "open", "closed"
  handles, \* the name of every handle opened (history)
  open,    \* the handles that libvirt has not freed
  objs,    \* the vector of handles that the resolver returned
  obj,     \* `obj', the handle that the handlers work on
  i,       \* the object the loop of handle_json() is at
  k,       \* the item the loop over an array is at
  info,    \* the status query() has got: "none", "read" or "garbage"
  outcome, \* the last handler's DependsOutcome, "none" before
  results, \* the "results" of the JsonRes: what, on object and item
  errors   \* its "errors": code, on object and item

hostVars   == <<daemon, world, gone>>
handleVars == <<conn, handles, open, objs, obj>>
answerVars == <<results, errors>>
vars == <<req, pc, hostVars, handleVars, i, k, info, outcome, answerVars>>

Init ==
  /\ req \in Requests
  /\ pc = "received"
  /\ daemon \in BOOLEAN /\ world \in SUBSET Names /\ gone = Names \ world
  /\ conn = "none" /\ handles = <<>> /\ open = {} /\ objs = <<>> /\ obj = 0
  /\ i = 0 /\ k = 0
  /\ info = "none" /\ outcome = "none"
  /\ results = <<>> /\ errors = <<>>

-----------------------------------------------------------------------------
(* Other clients of libvirt *)

Running == pc \notin {"done", "threw", "undefined"}

Vanish(n) ==
  /\ Running /\ n \in world
  /\ world' = world \ {n} /\ gone' = gone \cup {n}
  /\ UNCHANGED <<req, pc, daemon, handleVars, i, k, info, outcome, answerVars>>

Appear(n) ==
  /\ Running /\ n \notin world
  /\ world' = world \cup {n}
  /\ UNCHANGED <<req, pc, daemon, gone, handleVars, i, k, info, outcome, answerVars>>

LoseDaemon ==
  /\ Running /\ daemon
  /\ daemon' = FALSE
  /\ UNCHANGED <<req, pc, world, gone, handleVars, i, k, info, outcome, answerVars>>

-----------------------------------------------------------------------------
(* JsonRes, and moves of handles *)

Error(codes) ==
  /\ errors' = errors \o [n \in DOMAIN codes |-> [code |-> codes[n], obj |-> i, item |-> k]]
  /\ UNCHANGED results

Result(what) ==
  /\ results' = Append(results, [what |-> what, obj |-> i, item |-> k])
  /\ UNCHANGED errors

\* Slip: the destructor is not called first.
MoveAssign_KeepsOld(h) ==
  /\ obj' = h
  /\ open' = (open \cup {h}) \ {0}

\* Domain::operator=(Domain&&) and Network::operator=(Network&&).
MoveAssign(h) ==
  /\ obj' = h
  /\ open' = (open \cup {h}) \ {0, obj}

\* A handler's return: the loop over the items goes on, or the one over objs.
Resume(oc) ==
  /\ outcome' = oc
  /\ IF pc = "items" THEN pc' = "items" /\ k' = k + 1
     ELSE pc' = (IF req.verb = "post" THEN "return" ELSE "next") /\ k' = 0

Leave(oc) ==
  /\ outcome' = oc
  /\ pc' = IF req.verb = "post" THEN "return" ELSE "next"
  /\ k' = 0

Here == daemon /\ handles[obj] \in world
Domains == req.path = "domains"

-----------------------------------------------------------------------------
(* handle_json() up to the handlers *)

\* The gates, in their order.
Refusal ==
  CASE ~req.key               -> 1
    [] req.key /\ req.path = "empty" -> 4
    [] req.key /\ req.path = "other" -> 5
    [] req.key /\ req.path = "short" -> 6
    [] OTHER                  -> 0

Refuse ==
  /\ pc = "received" /\ Refusal # 0
  /\ Error(<<Refusal>>)
  /\ pc' = "return"
  /\ UNCHANGED <<req, hostVars, handleVars, i, k, info, outcome>>

Open ==
  /\ pc = "received" /\ Refusal = 0
  /\ \/ /\ daemon
        /\ conn' = "open"
        /\ IF req.path = "parameter" THEN Error(<<7>>) /\ pc' = "return"
           ELSE UNCHANGED answerVars /\ pc' = "resolve"
     \/ /\ Error(<<10>>)
        /\ pc' = "return"
        /\ UNCHANGED conn
  /\ UNCHANGED <<req, hostVars, handles, open, objs, obj, i, k, info, outcome>>

\* A handle for every object, in libvirt's order.
ListAll ==
  \E s \in [1 .. Cardinality(world) -> world] :
    /\ \A a, b \in DOMAIN s : s[a] = s[b] => a = b
    /\ handles' = handles \o s
    /\ objs' = [j \in DOMAIN s |-> Len(handles) + j]
    /\ open' = open \cup {Len(handles) + j : j \in DOMAIN s}

Listing == req.search = "all" \/ (req.search = "flag" /\ ~Domains)

\* Slip: no return after the error: the list is made with the flags so far.
ResolveBad_Lists ==
  /\ pc = "resolve" /\ req.verb # "post"
  /\ \/ req.search = "malformed" /\ Error(<<101>>)
     \/ req.search = "flag" /\ Domains /\ Error(<<301, 102>>)
  /\ ListAll
  /\ pc' = "next"
  /\ UNCHANGED <<req, hostVars, conn, obj, i, k, info, outcome>>

\* No such search key; or search_all_flags() reports 301 and is reported again.
ResolveBad ==
  /\ pc = "resolve" /\ req.verb # "post"
  /\ \/ req.search = "malformed" /\ Error(<<101>>)
     \/ req.search = "flag" /\ Domains /\ Error(<<301, 102>>)
  /\ pc' = "next"
  /\ UNCHANGED <<req, hostVars, handleVars, i, k, info, outcome>>

\* The object that is named, if the lookup finds it.
ResolveOne ==
  /\ pc = "resolve" /\ req.verb # "post" /\ req.search \in Names
  /\ \/ /\ daemon /\ req.search \in world
        /\ handles' = Append(handles, req.search)
        /\ open' = open \cup {Len(handles')} /\ objs' = <<Len(handles')>>
        /\ UNCHANGED answerVars
     \/ Error(<<100>>) /\ UNCHANGED <<handles, open, objs>>
  /\ pc' = "next"
  /\ UNCHANGED <<req, hostVars, conn, obj, i, k, info, outcome>>

ResolveAll ==
  /\ pc = "resolve" /\ req.verb # "post" /\ Listing /\ daemon
  /\ ListAll
  /\ pc' = "next"
  /\ UNCHANGED <<req, hostVars, conn, obj, i, k, info, outcome, answerVars>>

\* listAllDomains() and extractAllNetworks() throw; the connection is closed as
\* the stack unwinds, and nobody catches it.
ListThrows ==
  /\ pc = "resolve" /\ req.verb # "post" /\ Listing
  /\ pc' = "threw" /\ conn' = "closed"
  /\ UNCHANGED <<req, hostVars, handles, open, objs, obj, i, k, info, outcome, answerVars>>

\* A POST creates objects, and resolves none.
SkipResolve ==
  /\ pc = "resolve" /\ req.verb = "post"
  /\ pc' = "exec"
  /\ UNCHANGED <<req, hostVars, handleVars, i, k, info, outcome, answerVars>>

\* Slip: the vector keeps the handle.
TakeObject_Copies ==
  /\ pc = "next" /\ i < Len(objs)
  /\ MoveAssign(objs[i + 1])
  /\ i' = i + 1
  /\ pc' = "exec" /\ info' = "none"
  /\ UNCHANGED <<req, hostVars, conn, handles, objs, k, outcome, answerVars>>

\* obj = std::move(v)
TakeObject ==
  /\ pc = "next" /\ i < Len(objs)
  /\ MoveAssign(objs[i + 1])
  /\ objs' = [objs EXCEPT ![i + 1] = 0]
  /\ i' = i + 1
  /\ pc' = "exec" /\ info' = "none"
  /\ UNCHANGED <<req, hostVars, conn, handles, k, outcome, answerVars>>

NoMoreObjects ==
  /\ pc = "next" /\ i >= Len(objs)
  /\ pc' = "return"
  /\ UNCHANGED <<req, hostVars, handleVars, i, k, info, outcome, answerVars>>

Owned == ({obj} \cup {objs[j] : j \in DOMAIN objs}) \ {0}

\* objs, obj and the connection are destroyed, and the answer is written.
Return ==
  /\ pc = "return"
  /\ open' = open \ Owned
  /\ conn' = IF conn = "open" THEN "closed" ELSE conn
  /\ objs' = [j \in DOMAIN objs |-> 0] /\ obj' = 0
  /\ pc' = "done"
  /\ UNCHANGED <<req, hostVars, handles, i, k, info, outcome, answerVars>>

-----------------------------------------------------------------------------
(* create() *)

\* The JDispatch of the verb: which JSON types go to the handler, and which as
\* an array of items to handle_depends().
Single ==
  ~Domains \/ req.verb \in {"get", "delete"}
    \/ (req.verb = "post" /\ req.body \in Objects \cup {"string", "empty"})
    \/ (req.verb = "patch" /\ req.body \in Objects \cup {"empty"})
Items == ~Single /\ req.body = "array"

\* Neither: error 3.
BadBody ==
  /\ pc = "exec" /\ ~Single /\ ~Items
  /\ Error(<<3>>)
  /\ Leave("none")
  /\ UNCHANGED <<req, hostVars, handleVars, i, info>>

\* A loop over the items: handle_depends(), or the one of NetworkHandlers.
StartItems ==
  /\ pc = "exec" /\ req.body = "array"
  /\ Items \/ (~Domains /\ req.verb = "post")
  /\ pc' = "items" /\ k' = 1
  /\ UNCHANGED <<req, hostVars, handleVars, i, info, outcome, answerVars>>

EndItems ==
  /\ pc = "items" /\ k > Len(req.items)
  /\ Leave(IF Domains THEN outcome ELSE "SUCCESS")
  /\ UNCHANGED <<req, hostVars, handleVars, i, info, answerVars>>

\* The value that the handler is called with.
Value(type) ==
  \/ pc = "exec" /\ Single /\ req.body = type
  \/ pc = "items" /\ k <= Len(req.items) /\ req.items[k] = type

Create ==
  /\ req.verb = "post" /\ Value("string") /\ daemon
  /\ \E n \in Names \ world : handles' = Append(handles, n) /\ world' = world \cup {n}
  /\ MoveAssign(Len(handles'))
  /\ Result("created")
  /\ Resume("SUCCESS")
  /\ UNCHANGED <<req, daemon, gone, conn, objs, i, info>>

\* Slip: handle_depends() around the networks' handler.
CreateFails_GoesOn ==
  /\ req.verb = "post" /\ Value("string")
  /\ MoveAssign(0)
  /\ Error(<<IF Domains THEN 105 ELSE -999>>)
  /\ Resume("FAILURE")
  /\ UNCHANGED <<req, hostVars, conn, handles, objs, i, info>>

\* A null handle moves in.  The networks' loop ends, the domains' goes on.
CreateFails ==
  /\ req.verb = "post" /\ Value("string")
  /\ MoveAssign(0)
  /\ Error(<<IF Domains THEN 105 ELSE -999>>)
  /\ IF Domains THEN Resume("FAILURE") ELSE Leave("FAILURE")
  /\ UNCHANGED <<req, hostVars, conn, handles, objs, i, info>>

\* No XML string.
CreateRefused ==
  /\ req.verb = "post" /\ \E type \in Objects \cup {"empty", "null"} :
       /\ Value(type)
       /\ Error(<<IF pc = "items" /\ ~Domains THEN -999
                  ELSE IF Domains /\ type = "null" THEN 0 ELSE -1>>)
  /\ IF Domains THEN Resume("FAILURE") ELSE Leave("FAILURE")
  /\ UNCHANGED <<req, hostVars, handleVars, i, info>>

\* check_depends() leaves an object out, or reports its "depends".
SkipItem ==
  /\ pc = "items" /\ Domains /\ \E type \in Objects : Value(type)
  /\ UNCHANGED answerVars \/ Error(<<0>>)
  /\ Resume(outcome)
  /\ UNCHANGED <<req, hostVars, handleVars, i, info>>

-----------------------------------------------------------------------------
(* query() *)

Query == pc = "exec" /\ req.verb = "get"

\* getInfo() ignores whether libvirt has filled the virDomainInfo in.
ReadInfo ==
  /\ Query /\ Domains /\ req.sub = "none"
  /\ info' = IF Here THEN "read" ELSE "garbage"
  /\ pc' = "os_type"
  /\ UNCHANGED <<req, hostVars, handleVars, i, k, outcome, answerVars>>

\* getOSType() is a null pointer if it fails, and JSON strings are not.
ReadOsType ==
  /\ pc = "os_type"
  /\ IF Here THEN Result(info) /\ Leave("SUCCESS")
     ELSE pc' = "undefined" /\ UNCHANGED <<k, outcome, answerVars>>
  /\ UNCHANGED <<req, hostVars, handleVars, i, info>>

\* Slip: the bridge of every network is told.
DescribeNetwork_AllBridges ==
  /\ Query /\ ~Domains /\ req.sub = "none" /\ Here
  /\ pc' = "bridge"
  /\ UNCHANGED <<req, hostVars, handleVars, i, k, info, outcome, answerVars>>

\* isActive(), getAutostart() and isPersistent() have succeeded.  The bridge is
\* only told of a network that is named.
DescribeNetwork ==
  /\ Query /\ ~Domains /\ req.sub = "none" /\ Here
  /\ IF req.search \in Names
     THEN pc' = "bridge" /\ UNCHANGED <<k, outcome, answerVars>>
     ELSE Result("read") /\ Leave("SUCCESS")
  /\ UNCHANGED <<req, hostVars, handleVars, i, info>>

\* getBridgeName() is a null pointer if it fails, and JSON strings are not.
ReadBridge ==
  /\ pc = "bridge"
  /\ IF Here /\ handles[obj] \notin Bridgeless THEN Result("read") /\ Leave("SUCCESS")
     ELSE pc' = "undefined" /\ UNCHANGED <<k, outcome, answerVars>>
  /\ UNCHANGED <<req, hostVars, handleVars, i, info>>

\* Or one of the three has failed.
DescribeFails ==
  /\ Query /\ ~Domains /\ req.sub = "none"
  /\ Error(<<500>>) /\ Leave("FAILURE")
  /\ UNCHANGED <<req, hostVars, handleVars, i, info>>

\* The elements of a list are built as members of a JSON null.
Subquery ==
  /\ Query /\ req.sub \in {"value", "list"} /\ Here
  /\ IF req.sub = "list" /\ req.search \in Listed
     THEN pc' = "undefined" /\ UNCHANGED <<k, outcome, answerVars>>
     ELSE Result("read") /\ Leave("SUCCESS")
  /\ UNCHANGED <<req, hostVars, handleVars, i, info>>

SubqueryFails ==
  /\ Query /\ req.sub \in {"value", "list", "option"}
  /\ \E code \in CASE req.sub = "option" -> {301}
                    [] req.sub = "list" /\ Domains -> {201, -2}
                    [] OTHER -> {-2} : Error(<<code>>)
  /\ Leave("FAILURE")
  /\ UNCHANGED <<req, hostVars, handleVars, i, info>>

\* No subquery has that name: query() returns what its closures do.
UnknownSubquery ==
  /\ Query /\ req.sub = "unknown"
  /\ Leave("SKIPPED")
  /\ UNCHANGED <<req, hostVars, handleVars, i, info, answerVars>>

-----------------------------------------------------------------------------
(* alter() and vacuum() *)

Alter == req.verb = "patch"

\* On a domain, with or without an error; PatchActions has them all.
AlterDomain ==
  /\ Alter /\ Domains /\ Value("object")
  /\ UNCHANGED answerVars \/ \E code \in {0, 123, 201} : Error(<<code>>)
  /\ Resume(IF errors' = errors THEN "SUCCESS" ELSE "FAILURE")
  /\ UNCHANGED <<req, hostVars, handleVars, i, info>>

\* The state of the domain refuses the request before its flags are looked at.
AlterMistypedRefused ==
  /\ Alter /\ Domains /\ Value("mistyped")
  /\ Error(<<201>>) /\ Resume("FAILURE")
  /\ UNCHANGED <<req, hostVars, handleVars, i, info>>

\* GetString() is called on what is no string.
AlterMistyped ==
  /\ Alter /\ Domains /\ Value("mistyped")
  /\ pc' = "undefined"
  /\ UNCHANGED <<req, hostVars, handleVars, i, k, info, outcome, answerVars>>

\* No network action has a handler.
AlterNetwork ==
  /\ Alter /\ ~Domains /\ \E type \in Objects : Value(type)
  /\ Error(<<123>>) /\ Resume("FAILURE")
  /\ UNCHANGED <<req, hostVars, handleVars, i, info>>

\* action.MemberBegin() is dereferenced: there is no member, or no object.
AlterUndefined ==
  /\ Alter
  /\ \/ Value("empty")
     \/ pc = "items" /\ \E type \in {"string", "null"} : Value(type)
     \/ pc = "exec" /\ ~Domains /\ req.body \in {"string", "null", "array"}
  /\ pc' = "undefined"
  /\ UNCHANGED <<req, hostVars, handleVars, i, k, info, outcome, answerVars>>

Vacuum == pc = "exec" /\ req.verb = "delete"

\* Only a domain's undefine has options.
BadOption ==
  /\ Vacuum /\ Domains /\ ~req.option
  /\ Error(<<301>>) /\ Leave("FAILURE")
  /\ UNCHANGED <<req, hostVars, handleVars, i, info>>

Undefine ==
  /\ Vacuum /\ (Domains => req.option) /\ Here
  /\ world' = world \ {handles[obj]} /\ gone' = gone \cup {handles[obj]}
  /\ Result("deleted") /\ Leave("SUCCESS")
  /\ UNCHANGED <<req, daemon, handleVars, i, info>>

\* Slip: the failure is left to the caller to report.
UndefineFails_Silent ==
  /\ Vacuum /\ (Domains => req.option)
  /\ Leave("FAILURE")
  /\ UNCHANGED <<req, hostVars, handleVars, i, info, answerVars>>

UndefineFails ==
  /\ Vacuum /\ (Domains => req.option)
  /\ Error(<<IF Domains THEN 216 ELSE -999>>) /\ Leave("FAILURE")
  /\ UNCHANGED <<req, hostVars, handleVars, i, info>>

-----------------------------------------------------------------------------
Step ==
  \/ Refuse \/ Open \/ SkipResolve \/ ResolveBad \/ ResolveOne \/ ResolveAll \/ ListThrows
  \/ TakeObject \/ NoMoreObjects \/ Return
  \/ BadBody \/ StartItems \/ EndItems \/ Create \/ CreateFails \/ CreateRefused \/ SkipItem
  \/ ReadInfo \/ ReadOsType \/ DescribeNetwork \/ ReadBridge \/ DescribeFails
  \/ Subquery \/ SubqueryFails \/ UnknownSubquery
  \/ AlterDomain \/ AlterMistypedRefused \/ AlterMistyped \/ AlterNetwork \/ AlterUndefined
  \/ BadOption \/ Undefine \/ UndefineFails

Others == LoseDaemon \/ \E n \in Names : Vanish(n) \/ Appear(n)

Next == Step \/ Others

Spec == Init /\ [][Next]_vars

-----------------------------------------------------------------------------
(* Properties *)

TypeOK ==
  /\ req \in Requests
  /\ pc \in {"received", "resolve", "next", "exec", "items", "os_type", "bridge", "return",
             "done", "threw", "undefined"}
  /\ daemon \in BOOLEAN /\ world \subseteq Names /\ gone \subseteq Names
  /\ conn \in {"none", "open", "closed"}
  /\ handles \in Seq(Names)
  /\ open \subseteq 1 .. Len(handles)
  /\ objs \in Seq(0 .. Len(handles)) /\ obj \in 0 .. Len(handles)
  /\ i \in 0 .. Len(objs) /\ k \in 0 .. Len(req.items) + 1
  /\ info \in {"none", "read", "garbage"}
  /\ outcome \in {"none", "SUCCESS", "FAILURE", "SKIPPED"}
  /\ results \in Seq([what : {"created", "deleted", "read", "garbage"}, obj : Nat, item : Nat])
  /\ errors \in Seq([code : Int, obj : Nat, item : Nat])

\* Every libvirt handle that is open has one owner, obj or an element of the
\* vector, whatever was moved where; and none outlives the connection.
HandlesOwned ==
  /\ open = Owned
  /\ \A a \in DOMAIN objs : objs[a] # 0 => objs[a] # obj
  /\ \A a, b \in DOMAIN objs : objs[a] = objs[b] /\ objs[a] # 0 => a = b
  /\ open # {} => conn = "open"

\* When handle_json() is left, every handle has been freed and the connection
\* is closed.
HandlesReleased == pc \in {"done", "threw"} => open = {} /\ conn # "open"

\* The reports on object o and item n.
Reports(o, n) ==
  Cardinality({r \in DOMAIN results : results[r].obj = o /\ results[r].item = n})
    + Cardinality({r \in DOMAIN errors : errors[r].obj = o /\ errors[r].item = n})

\* Every object of a GET or a DELETE, and every item of a POST, has one result
\* or one error in the answer.  Left out are an unknown subquery, an item that
\* check_depends() skips, and what follows the first failure of a POST of
\* networks.
EachAccountedFor ==
  pc = "done" =>
    /\ req.verb \in {"get", "delete"} /\ req.sub # "unknown"
         => \A o \in DOMAIN objs : Reports(o, 0) = 1
    /\ req.verb = "post" /\ conn = "closed" /\ req.body = "array"
         => \A n \in DOMAIN req.items :
              \/ Reports(0, n) = 1
              \/ Domains /\ req.items[n] \in Objects /\ Reports(0, n) = 0
              \/ ~Domains /\ Reports(0, n) = 0 /\ \E e \in DOMAIN errors : errors[e].item < n

\* The networks of a POST are created up to the first failure, and none after.
NoneAfterFailure ==
  ~Domains => \A r \in DOMAIN results, e \in DOMAIN errors :
                results[r].what = "created" => results[r].item < errors[e].item

\* A request that is refused as a whole does nothing: no object is touched.
RefusedDoesNothing ==
  pc = "done" /\ (\E e \in DOMAIN errors : errors[e].obj = 0 /\ errors[e].item = 0)
    => results = <<>> /\ i = 0

\* The value that a PATCH is at: the body, or an item of it.
Given == IF Domains /\ req.body = "array" THEN req.items[k] ELSE req.body

\* Undefined behaviour, or a status that libvirt did not give, comes of the value
\* at hand of a PATCH, when that is no object with a member or, for a domain, one
\* that is mistyped; of a domain, or a network that is named, that vanished after
\* it was found, or libvirtd with it; of the name of a network without a bridge;
\* or of a list.
UndefinedForAReason ==
  LET vanished == ~daemon \/ (obj # 0 /\ handles[obj] \in gone) IN
    /\ pc = "undefined" =>
         \/ req.verb = "patch" /\ (Given \notin Objects \/ (Domains /\ Given = "mistyped"))
         \/ req.verb = "get" /\ req.sub = "none"
              /\ \/ Domains /\ vanished
                 \/ ~Domains /\ req.search \in Names /\ (vanished \/ handles[obj] \in Bridgeless)
         \/ req.verb = "get" /\ req.sub = "list" /\ req.search \in Listed
    /\ \A r \in DOMAIN results :
         results[r].what = "garbage" => handles[results[r].obj] \in gone
=============================================================================
