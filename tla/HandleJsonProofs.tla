-------------------------- MODULE HandleJsonProofs --------------------------
(***************************************************************************)
(* Proofs about HandleJson, for any requests and any finite set of objects *)
(* of libvirt: every handle has one owner, and all of them are freed; each *)
(* object and item is reported once; a refused request touches nothing,    *)
(* networks are created up to the first failure, and undefined behaviour   *)
(* has the causes that are named.                                          *)
(***************************************************************************)
EXTENDS HandleJson, FiniteSetTheorems, TLAPS

\* What is owned, and whether libvirt is connected to, follows handle_json().
Phases ==
  /\ pc \in {"received", "resolve"} => objs = <<>> /\ obj = 0 /\ i = 0
  /\ pc = "received" => conn = "none"
  /\ pc \in {"resolve", "next", "exec", "items", "os_type", "bridge"} => conn = "open"
  /\ pc = "os_type" => info # "none"

Inv ==
  /\ TypeOK
  /\ HandlesOwned
  /\ HandlesReleased
  /\ Phases

USE RequestsAssumption, NamesAssumption

\* A request starts with nothing opened.
LEMMA InitInv == Init => Inv
<1> SUFFICES ASSUME Init PROVE Inv
  OBVIOUS
<1>1. req \in Request /\ req.items \in Seq(Item) /\ Len(req.items) \in Nat
  BY DEF Init, Request
<1>2. TypeOK
  BY <1>1 DEF Init, TypeOK
<1>3. HandlesOwned
  BY DEF Init, HandlesOwned, Owned
<1> QED
  BY <1>2, <1>3 DEF Init, Inv, HandlesReleased, Phases

-----------------------------------------------------------------------------
\* JsonRes::error() keeps the types of the answer.
LEMMA ErrorTypes ==
  ASSUME TypeOK, NEW codes \in Seq(Int), Error(codes)
  PROVE  /\ results' \in Seq([what : {"created", "deleted", "read", "garbage"}, obj : Nat, item : Nat])
         /\ errors' \in Seq([code : Int, obj : Nat, item : Nat])
<1> DEFINE E == [code : Int, obj : Nat, item : Nat]
           s == [n \in DOMAIN codes |-> [code |-> codes[n], obj |-> i, item |-> k]]
<1>1. i \in Nat /\ k \in Nat
  BY DEF TypeOK
<1>2. s \in Seq(E)
  <2>1. Len(codes) \in Nat /\ DOMAIN codes = 1 .. Len(codes)
    OBVIOUS
  <2>2. \A n \in 1 .. Len(codes) : codes[n] \in Int
    OBVIOUS
  <2> QED
    BY <1>1, <2>1, <2>2
<1>3. errors \in Seq(E) /\ errors' = errors \o s /\ results' = results
  BY DEF TypeOK, Error
<1>4. errors' \in Seq(E)
  <2> HIDE DEF s
  <2> QED
    BY <1>2, <1>3
<1> QED
  BY <1>3, <1>4 DEF TypeOK

\* An error of one code.
LEMMA OneError ==
  ASSUME NEW c \in Int, Error(<<c>>)
  PROVE  \E codes \in Seq(Int) : Error(codes)
<1>1. <<c>> \in Seq(Int)
  OBVIOUS
<1> QED
  BY <1>1

\* JsonRes::result() keeps them, too.
LEMMA ResultTypes ==
  ASSUME TypeOK, NEW what \in {"created", "deleted", "read", "garbage"}, Result(what)
  PROVE  /\ results' \in Seq([what : {"created", "deleted", "read", "garbage"}, obj : Nat, item : Nat])
         /\ errors' \in Seq([code : Int, obj : Nat, item : Nat])
<1>1. i \in Nat /\ k \in Nat
  BY DEF TypeOK
<1> QED
  BY <1>1 DEF TypeOK, Result

\* A step that moves no handle, and leaves neither gate nor function behind.
LEMMA HandlesKept ==
  ASSUME Inv, UNCHANGED <<handleVars, i>>,
         pc' \notin {"received", "done", "threw"},
         pc' = "resolve" => pc = "resolve",
         pc' = "os_type" => info' # "none",
         pc' \in {"next", "exec", "items", "os_type", "bridge"}
           => pc \in {"resolve", "next", "exec", "items", "os_type", "bridge"}
  PROVE  HandlesOwned' /\ HandlesReleased' /\ Phases'
<1>1. HandlesOwned'
  BY DEF Inv, HandlesOwned, Owned, handleVars
<1> QED
  BY <1>1 DEF Inv, HandlesReleased, Phases, handleVars

\* Such a step keeps the types, if the answer and the loops have theirs.
LEMMA TypesKept ==
  ASSUME TypeOK, UNCHANGED <<req, handleVars, i>>,
         pc' \in {"received", "resolve", "next", "exec", "items", "os_type", "bridge", "return",
                  "done", "threw", "undefined"},
         daemon' \in BOOLEAN, world' \subseteq Names, gone' \subseteq Names,
         k' \in 0 .. Len(req.items) + 1,
         info' \in {"none", "read", "garbage"},
         outcome' \in {"none", "SUCCESS", "FAILURE", "SKIPPED"},
         results' \in Seq([what : {"created", "deleted", "read", "garbage"}, obj : Nat, item : Nat]),
         errors' \in Seq([code : Int, obj : Nat, item : Nat])
  PROVE  TypeOK'
BY DEF TypeOK, handleVars

\* A handler's return keeps the place in the loop over the items.
LEMMA PlacesKept ==
  ASSUME Inv, NEW oc \in {"none", "SUCCESS", "FAILURE", "SKIPPED"},
         \/ Resume(oc) /\ (pc = "items" => k <= Len(req.items))
         \/ Leave(oc),
         pc \in {"exec", "items", "os_type", "bridge"}
  PROVE  /\ pc' \in {"next", "items", "return"} /\ (pc' # "return" => conn = "open")
         /\ k' \in 0 .. Len(req.items) + 1
         /\ outcome' \in {"none", "SUCCESS", "FAILURE", "SKIPPED"}
<1>1. req \in Request /\ Len(req.items) \in Nat /\ k \in Nat
  BY DEF Inv, TypeOK, Request
<1>2. conn = "open"
  BY DEF Inv, Phases
<1> QED
  BY <1>1, <1>2 DEF Resume, Leave

-----------------------------------------------------------------------------
\* What other clients and the daemon do moves nothing of the request's.
LEMMA OthersInv == Inv /\ Others => Inv'
<1> SUFFICES ASSUME Inv, Others PROVE Inv'
  OBVIOUS
<1>1. /\ UNCHANGED <<req, pc, handleVars, i, k, info, outcome, answerVars>>
      /\ daemon' \in BOOLEAN /\ world' \subseteq Names /\ gone' \subseteq Names
  BY DEF Others, Vanish, Appear, LoseDaemon, Inv, TypeOK
<1>2. TypeOK'
  BY <1>1 DEF Inv, TypeOK, handleVars, answerVars
<1>3. HandlesOwned'
  BY <1>1 DEF Inv, HandlesOwned, Owned, handleVars
<1> QED
  BY <1>1, <1>2, <1>3 DEF Inv, HandlesReleased, Phases, handleVars

\* The gates, and the resolution that yields nothing.
LEMMA GatesInv ==
  ASSUME Inv, Refuse \/ SkipResolve \/ ResolveBad
  PROVE  Inv'
<1>1. TypeOK
  BY DEF Inv
<1>2. CASE Refuse
  <2>1. Error(<<Refusal>>) /\ <<Refusal>> \in Seq(Int)
    BY <1>2 DEF Refuse, Refusal
  <2>2. TypeOK'
    BY <1>1, <1>2, <2>1, ErrorTypes DEF Refuse, TypeOK, handleVars, hostVars
  <2>3. HandlesOwned' /\ HandlesReleased' /\ Phases'
    BY <1>2, HandlesKept DEF Refuse
  <2> QED
    BY <2>2, <2>3 DEF Inv
<1>3. CASE SkipResolve
  <2>1. TypeOK'
    BY <1>1, <1>3 DEF SkipResolve, TypeOK, handleVars, hostVars, answerVars
  <2>2. HandlesOwned' /\ HandlesReleased' /\ Phases'
    BY <1>3, HandlesKept DEF SkipResolve
  <2> QED
    BY <2>1, <2>2 DEF Inv
<1>4. CASE ResolveBad
  <2>1. PICK codes \in Seq(Int) : Error(codes)
    <3>1. <<101>> \in Seq(Int) /\ <<301, 102>> \in Seq(Int)
      OBVIOUS
    <3> QED
      BY <1>4, <3>1 DEF ResolveBad
  <2>2. TypeOK'
    BY <1>1, <1>4, <2>1, ErrorTypes DEF ResolveBad, TypeOK, handleVars, hostVars
  <2>3. HandlesOwned' /\ HandlesReleased' /\ Phases'
    BY <1>4, HandlesKept DEF ResolveBad
  <2> QED
    BY <2>2, <2>3 DEF Inv
<1> QED
  BY <1>2, <1>3, <1>4

\* virConnectOpen(): nothing is owned before it.
LEMMA OpenInv == ASSUME Inv, Open PROVE Inv'
<1>1. TypeOK /\ pc = "received" /\ objs = <<>> /\ obj = 0 /\ open = {}
  BY DEF Inv, Open, Phases, HandlesOwned, Owned
<1>2. /\ results' \in Seq([what : {"created", "deleted", "read", "garbage"}, obj : Nat, item : Nat])
      /\ errors' \in Seq([code : Int, obj : Nat, item : Nat])
  <2>1. (\E codes \in Seq(Int) : Error(codes)) \/ UNCHANGED answerVars
    <3>1. <<7>> \in Seq(Int) /\ <<10>> \in Seq(Int)
      OBVIOUS
    <3> QED
      BY <3>1 DEF Open
  <2> QED
    BY <1>1, <2>1, ErrorTypes DEF TypeOK, answerVars
<1>3. /\ UNCHANGED <<req, hostVars, handles, open, objs, obj, i, k, info, outcome>>
      /\ pc' \in {"return", "resolve"} /\ conn' \in {"none", "open", "closed"}
      /\ pc' = "resolve" => conn' = "open"
  BY <1>1 DEF Open, TypeOK
<1>4. TypeOK'
  BY <1>1, <1>2, <1>3 DEF TypeOK, hostVars
<1>5. HandlesOwned'
  BY <1>1, <1>3 DEF HandlesOwned, Owned
<1>6. HandlesReleased' /\ Phases'
  BY <1>1, <1>3 DEF HandlesReleased, Phases, Inv
<1> QED
  BY <1>4, <1>5, <1>6 DEF Inv

\* A null vector has nothing to release when the listing throws.
LEMMA ThrowInv == ASSUME Inv, ListThrows PROVE Inv'
<1>1. TypeOK /\ objs = <<>> /\ obj = 0 /\ open = {}
  BY DEF Inv, ListThrows, Phases, HandlesOwned, Owned
<1>2. TypeOK'
  BY <1>1 DEF ListThrows, TypeOK, hostVars, answerVars
<1> QED
  BY <1>1, <1>2 DEF Inv, ListThrows, HandlesOwned, Owned, HandlesReleased, Phases

\* The resolver's handles are new, and the vector alone owns them.
LEMMA ResolvedInv ==
  ASSUME Inv, pc = "resolve", pc' = "next",
         NEW s \in Seq(Names), \A a, b \in DOMAIN s : s[a] = s[b] => a = b,
         handles' = handles \o s,
         objs' = [j \in DOMAIN s |-> Len(handles) + j],
         open' = open \cup {Len(handles) + j : j \in DOMAIN s},
         UNCHANGED <<req, hostVars, conn, obj, i, k, info, outcome>>,
         results' \in Seq([what : {"created", "deleted", "read", "garbage"}, obj : Nat, item : Nat]),
         errors' \in Seq([code : Int, obj : Nat, item : Nat])
  PROVE  Inv'
<1>1. TypeOK /\ objs = <<>> /\ obj = 0 /\ i = 0 /\ open = {} /\ conn = "open"
  BY DEF Inv, Phases, HandlesOwned, Owned
<1>2. /\ Len(s) \in Nat /\ DOMAIN s = 1 .. Len(s)
      /\ Len(handles) \in Nat /\ handles' \in Seq(Names)
      /\ Len(handles') = Len(handles) + Len(s)
  BY <1>1 DEF TypeOK
<1>3. \A j \in DOMAIN s : Len(handles) + j \in 1 .. Len(handles') /\ Len(handles) + j # 0
  BY <1>2
<1>4. /\ objs' \in Seq(0 .. Len(handles')) /\ DOMAIN objs' = DOMAIN s
      /\ Len(objs') \in Nat
  BY <1>2, <1>3
<1>5. open' = {Len(handles) + j : j \in DOMAIN s}
  BY <1>1
<1>6. TypeOK'
  <2>1. open' \subseteq 1 .. Len(handles')
    BY <1>3, <1>5
  <2> QED
    BY <1>1, <1>2, <1>4, <2>1 DEF TypeOK, hostVars
<1>7. HandlesOwned'
  <2>1. Owned' = open'
    BY <1>1, <1>3, <1>4, <1>5 DEF Owned
  <2>2. \A a, b \in DOMAIN s : Len(handles) + a = Len(handles) + b => a = b
    BY <1>2
  <2> QED
    BY <1>1, <1>2, <1>3, <1>4, <2>1, <2>2 DEF HandlesOwned
<1> QED
  BY <1>1, <1>6, <1>7 DEF Inv, HandlesReleased, Phases

\* Both ways to resolve: one object, or all there are.
LEMMA ResolveInv ==
  ASSUME Inv, ResolveOne \/ ResolveAll
  PROVE  Inv'
<1>1. TypeOK
  BY DEF Inv
<1>2. CASE ResolveAll
  <2>1. PICK s \in [1 .. Cardinality(world) -> world] :
          /\ \A a, b \in DOMAIN s : s[a] = s[b] => a = b
          /\ handles' = handles \o s
          /\ objs' = [j \in DOMAIN s |-> Len(handles) + j]
          /\ open' = open \cup {Len(handles) + j : j \in DOMAIN s}
    BY <1>2 DEF ResolveAll, ListAll
  <2>2. Cardinality(world) \in Nat
    BY <1>1, FS_Subset, FS_CardinalityType DEF TypeOK
  <2>3. s \in Seq(Names)
    <3>1. s \in Seq(world)
      BY <2>1, <2>2
    <3> QED
      BY <1>1, <3>1 DEF TypeOK
  <2>4. /\ results' \in Seq([what : {"created", "deleted", "read", "garbage"}, obj : Nat, item : Nat])
        /\ errors' \in Seq([code : Int, obj : Nat, item : Nat])
    BY <1>1, <1>2 DEF ResolveAll, TypeOK, answerVars
  <2> HIDE DEF Inv
  <2> QED
    BY <1>2, <2>1, <2>3, <2>4, ResolvedInv DEF ResolveAll
<1>3. CASE ResolveOne /\ UNCHANGED answerVars /\ handles' = Append(handles, req.search)
           /\ open' = open \cup {Len(handles')} /\ objs' = <<Len(handles')>>
  <2> DEFINE s == <<req.search>>
  <2>1. s \in Seq(Names) /\ Len(handles) \in Nat /\ handles' = handles \o s
    BY <1>1, <1>3 DEF ResolveOne, TypeOK
  <2>2. /\ objs' = [j \in DOMAIN s |-> Len(handles) + j]
        /\ open' = open \cup {Len(handles) + j : j \in DOMAIN s}
        /\ \A a, b \in DOMAIN s : s[a] = s[b] => a = b
    <3>1. DOMAIN s = {1} /\ Len(handles') = Len(handles) + 1
      BY <1>1, <1>3, <2>1 DEF TypeOK
    <3> QED
      BY <1>3, <3>1
  <2>3. /\ results' \in Seq([what : {"created", "deleted", "read", "garbage"}, obj : Nat, item : Nat])
        /\ errors' \in Seq([code : Int, obj : Nat, item : Nat])
    BY <1>1, <1>3 DEF TypeOK, answerVars
  <2> HIDE DEF s
  <2> QED
    BY <1>3, <2>1, <2>2, <2>3, ResolvedInv DEF ResolveOne
<1>4. CASE ResolveOne /\ Error(<<100>>) /\ UNCHANGED <<handles, open, objs>>
  <2>1. <<100>> \in Seq(Int)
    OBVIOUS
  <2>2. TypeOK'
    BY <1>1, <1>4, <2>1, ErrorTypes DEF ResolveOne, TypeOK, hostVars
  <2>3. HandlesOwned' /\ HandlesReleased' /\ Phases'
    BY <1>4, HandlesKept DEF ResolveOne, handleVars
  <2> QED
    BY <2>2, <2>3 DEF Inv
<1> QED
  BY <1>2, <1>3, <1>4 DEF ResolveOne

-----------------------------------------------------------------------------
\* obj = std::move(v): the handle leaves the vector as it comes to obj.
LEMMA TakeInv == ASSUME Inv, TakeObject PROVE Inv'
<1>1. TypeOK /\ HandlesOwned /\ conn = "open"
  BY DEF Inv, TakeObject, Phases
<1>2. /\ i + 1 \in 1 .. Len(objs) /\ DOMAIN objs = 1 .. Len(objs)
      /\ obj' = objs[i + 1] /\ open' = (open \cup {objs[i + 1]}) \ {0, obj}
      /\ objs' = [objs EXCEPT ![i + 1] = 0] /\ i' = i + 1 /\ pc' = "exec" /\ info' = "none"
      /\ UNCHANGED <<req, hostVars, conn, handles, k, outcome, answerVars>>
  BY <1>1 DEF TakeObject, MoveAssign, TypeOK
<1>3. /\ Len(objs') = Len(objs) /\ DOMAIN objs' = DOMAIN objs
      /\ objs' \in Seq(0 .. Len(handles)) /\ obj' \in 0 .. Len(handles)
      /\ objs'[i + 1] = 0 /\ \A j \in DOMAIN objs : j # i + 1 => objs'[j] = objs[j]
  <2>1. objs \in Seq(0 .. Len(handles)) /\ Len(handles) \in Nat
    BY <1>1 DEF TypeOK
  <2>2. /\ Len(objs') = Len(objs) /\ DOMAIN objs' = DOMAIN objs
        /\ objs'[i + 1] = 0 /\ \A j \in DOMAIN objs : j # i + 1 => objs'[j] = objs[j]
    BY <1>2, <2>1
  <2>3. objs' \in Seq(0 .. Len(handles)) /\ objs[i + 1] \in 0 .. Len(handles)
    BY <1>2, <2>1
  <2> QED
    BY <1>2, <2>2, <2>3
<1>4. TypeOK'
  <2>1. open' \subseteq 1 .. Len(handles)
    <3>1. open \subseteq 1 .. Len(handles) /\ objs[i + 1] \in 0 .. Len(handles)
      BY <1>1, <1>2, <1>3 DEF TypeOK
    <3>2. \A n \in 0 .. Len(handles) : n # 0 => n \in 1 .. Len(handles)
      BY <1>1 DEF TypeOK
    <3> QED
      BY <1>2, <3>1, <3>2
  <2> QED
    BY <1>1, <1>2, <1>3, <2>1 DEF TypeOK, hostVars, answerVars
<1>5. Owned' = open'
  <2>1. \A j \in DOMAIN objs : objs[j] # 0 => objs[j] # obj
    BY <1>1 DEF HandlesOwned
  <2>2. open' = (({obj} \cup {objs[j] : j \in DOMAIN objs}) \cup {objs[i + 1]}) \ {0, obj}
    BY <1>1, <1>2 DEF HandlesOwned, Owned
  <2>3. open' = {objs[j] : j \in DOMAIN objs} \ {0}
    BY <1>2, <2>1, <2>2
  <2>4. {objs[j] : j \in DOMAIN objs} \ {0}
          = ({objs[i + 1]} \cup {objs'[j] : j \in DOMAIN objs}) \ {0}
    BY <1>2, <1>3
  <2> QED
    BY <1>2, <1>3, <2>3, <2>4 DEF Owned
<1>6. HandlesOwned'
  <2>1. \A a, b \in DOMAIN objs : objs[a] = objs[b] /\ objs[a] # 0 => a = b
    BY <1>1 DEF HandlesOwned
  <2>2. \A a \in DOMAIN objs' : objs'[a] # 0 => a # i + 1 /\ objs'[a] = objs[a]
    BY <1>3
  <2>3. \A a \in DOMAIN objs' : objs'[a] # 0 => objs'[a] # obj'
    BY <1>2, <1>3, <2>1, <2>2
  <2>4. \A a, b \in DOMAIN objs' : objs'[a] = objs'[b] /\ objs'[a] # 0 => a = b
    BY <1>3, <2>1, <2>2
  <2> QED
    BY <1>1, <1>2, <1>5, <2>3, <2>4 DEF HandlesOwned
<1> QED
  BY <1>1, <1>2, <1>4, <1>6 DEF Inv, HandlesReleased, Phases

\* A sequence of numbers up to m is one of numbers up to any n beyond m.
LEMMA WiderSeq ==
  ASSUME NEW m \in Nat, NEW n \in Nat, m <= n, NEW s \in Seq(0 .. m)
  PROVE  s \in Seq(0 .. n)
<1>1. Len(s) \in Nat /\ s \in [1 .. Len(s) -> 0 .. m]
  OBVIOUS
<1>2. s \in [1 .. Len(s) -> 0 .. n]
  BY <1>1
<1> QED
  BY <1>1, <1>2

\* obj = Connection::create...(): what it held before is freed, and what is new
\* or null comes in.
LEMMA CreatedInv ==
  ASSUME Inv, pc \in {"exec", "items"},
         pc' \in {"next", "items", "return"}, k' \in 0 .. Len(req.items) + 1,
         outcome' \in {"none", "SUCCESS", "FAILURE", "SKIPPED"},
         NEW h, MoveAssign(h),
         \/ h = 0 /\ handles' = handles
         \/ handles' \in Seq(Names) /\ Len(handles') = Len(handles) + 1 /\ h = Len(handles'),
         daemon' = daemon, world' \subseteq Names,
         UNCHANGED <<req, gone, conn, objs, i, info>>,
         results' \in Seq([what : {"created", "deleted", "read", "garbage"}, obj : Nat, item : Nat]),
         errors' \in Seq([code : Int, obj : Nat, item : Nat])
  PROVE  Inv'
<1>1. TypeOK /\ HandlesOwned /\ conn = "open"
  BY DEF Inv, Phases
<1>2. Len(handles) \in Nat /\ Len(handles') \in Nat /\ h \in 0 .. Len(handles')
      /\ Len(handles) <= Len(handles') /\ handles' \in Seq(Names)
  BY <1>1 DEF TypeOK
<1>3. obj' = h /\ open' = (open \cup {h}) \ {0, obj}
  BY DEF MoveAssign
<1>4. /\ DOMAIN objs = 1 .. Len(objs)
      /\ \A j \in DOMAIN objs : objs[j] \in 0 .. Len(handles) /\ objs[j] \in 0 .. Len(handles')
      /\ objs \in Seq(0 .. Len(handles')) /\ obj \in 0 .. Len(handles)
  <2>1. objs \in Seq(0 .. Len(handles)) /\ obj \in 0 .. Len(handles)
    BY <1>1 DEF TypeOK
  <2>2. DOMAIN objs = 1 .. Len(objs)
    BY <2>1
  <2>3. \A j \in DOMAIN objs : objs[j] \in 0 .. Len(handles)
    BY <2>1
  <2>4. objs \in Seq(0 .. Len(handles'))
    BY <1>2, <2>1, WiderSeq
  <2>5. \A j \in DOMAIN objs : objs[j] \in 0 .. Len(handles')
    BY <2>4
  <2> QED
    BY <2>1, <2>2, <2>3, <2>4, <2>5
<1>5. h = 0 \/ (h # obj /\ \A j \in DOMAIN objs : objs[j] # h)
  BY <1>2, <1>4
<1>6. TypeOK'
  <2>1. open' \subseteq 1 .. Len(handles')
    BY <1>1, <1>2, <1>3 DEF TypeOK
  <2> QED
    BY <1>1, <1>2, <1>3, <1>4, <2>1 DEF TypeOK
<1>7. HandlesOwned'
  <2>1. open = ({obj} \cup {objs[j] : j \in DOMAIN objs}) \ {0}
    BY <1>1 DEF HandlesOwned, Owned
  <2>2. \A j \in DOMAIN objs : objs[j] # 0 => objs[j] # obj
    BY <1>1 DEF HandlesOwned
  <2>3. open' = ({h} \cup {objs[j] : j \in DOMAIN objs}) \ {0}
    BY <1>3, <1>5, <2>1, <2>2
  <2> QED
    BY <1>1, <1>3, <1>5, <2>3 DEF HandlesOwned, Owned
<1> QED
  BY <1>1, <1>6, <1>7 DEF Inv, HandlesReleased, Phases

\* Both outcomes of the creation of an object.
LEMMA CreateInv == ASSUME Inv, Create \/ CreateFails PROVE Inv'
<1>1. TypeOK /\ req \in Request /\ Len(req.items) \in Nat
  BY DEF Inv, TypeOK, Request
<1>2. pc \in {"exec", "items"} /\ (pc = "items" => k <= Len(req.items))
  BY DEF Create, CreateFails, Value
<1>3. CASE Create
  <2>1. PICK n \in Names \ world : handles' = Append(handles, n) /\ world' = world \cup {n}
    BY <1>3 DEF Create
  <2>2. handles' \in Seq(Names) /\ Len(handles') = Len(handles) + 1 /\ world' \subseteq Names
    BY <1>1, <2>1 DEF TypeOK
  <2>3. Resume("SUCCESS") /\ Result("created") /\ MoveAssign(Len(handles'))
        /\ UNCHANGED <<req, daemon, gone, conn, objs, i, info>>
    BY <1>3 DEF Create
  <2> HIDE DEF Inv
  <2>4. /\ pc' \in {"next", "items", "return"} /\ k' \in 0 .. Len(req.items) + 1
        /\ outcome' \in {"none", "SUCCESS", "FAILURE", "SKIPPED"}
    BY <1>2, <2>3, PlacesKept
  <2>5. /\ results' \in Seq([what : {"created", "deleted", "read", "garbage"}, obj : Nat, item : Nat])
        /\ errors' \in Seq([code : Int, obj : Nat, item : Nat])
    BY <1>1, <2>3, ResultTypes
  <2> QED
    BY <1>2, <2>2, <2>3, <2>4, <2>5, CreatedInv
<1>4. CASE CreateFails
  <2>1. PICK codes \in Seq(Int) : Error(codes)
    <3> DEFINE code == <<IF Domains THEN 105 ELSE -999>>
    <3>1. code \in Seq(Int)
      OBVIOUS
    <3>2. Error(code)
      BY <1>4 DEF CreateFails
    <3> HIDE DEF code
    <3> QED
      BY <3>1, <3>2
  <2>2. /\ Resume("FAILURE") \/ Leave("FAILURE")
        /\ MoveAssign(0) /\ UNCHANGED <<req, hostVars, conn, handles, objs, i, info>>
    BY <1>4 DEF CreateFails
  <2>3. daemon' = daemon /\ world' \subseteq Names /\ gone' = gone
    BY <1>1, <2>2 DEF hostVars, TypeOK
  <2> HIDE DEF Inv
  <2>4. /\ pc' \in {"next", "items", "return"} /\ k' \in 0 .. Len(req.items) + 1
        /\ outcome' \in {"none", "SUCCESS", "FAILURE", "SKIPPED"}
    BY <1>2, <2>2, PlacesKept
  <2>5. /\ results' \in Seq([what : {"created", "deleted", "read", "garbage"}, obj : Nat, item : Nat])
        /\ errors' \in Seq([code : Int, obj : Nat, item : Nat])
    BY <1>1, <2>1, ErrorTypes
  <2> QED
    BY <1>2, <2>2, <2>3, <2>4, <2>5, CreatedInv
<1> QED
  BY <1>3, <1>4

\* The destructors of objs, obj and conn.
LEMMA ReturnInv == ASSUME Inv, Return PROVE Inv'
<1>1. TypeOK /\ open = Owned
  BY DEF Inv, HandlesOwned
<1>2. /\ open' = {} /\ obj' = 0 /\ objs' = [j \in DOMAIN objs |-> 0] /\ pc' = "done"
      /\ conn' = IF conn = "open" THEN "closed" ELSE conn
      /\ UNCHANGED <<req, hostVars, handles, i, k, info, outcome, answerVars>>
  BY <1>1 DEF Return
<1>3. Len(handles) \in Nat /\ DOMAIN objs = 1 .. Len(objs) /\ Len(objs) \in Nat
  BY <1>1 DEF TypeOK
<1>4. /\ objs' \in Seq(0 .. Len(handles)) /\ DOMAIN objs' = DOMAIN objs
      /\ Len(objs') = Len(objs) /\ \A j \in DOMAIN objs : objs'[j] = 0
  BY <1>2, <1>3
<1>5. TypeOK'
  BY <1>1, <1>2, <1>3, <1>4 DEF TypeOK, hostVars, answerVars
<1>6. HandlesOwned'
  BY <1>2, <1>4 DEF HandlesOwned, Owned
<1> QED
  BY <1>1, <1>2, <1>5, <1>6 DEF Inv, HandlesReleased, Phases, TypeOK

-----------------------------------------------------------------------------
\* A handler that reports an error and returns.
LEMMA ReportsInv ==
  ASSUME Inv, pc \in {"exec", "items", "os_type", "bridge"},
         UNCHANGED <<req, hostVars, handleVars, i, info>>,
         NEW oc \in {"none", "SUCCESS", "FAILURE", "SKIPPED"},
         \/ Resume(oc) /\ (pc = "items" => k <= Len(req.items))
         \/ Leave(oc),
         \/ UNCHANGED answerVars
         \/ \E codes \in Seq(Int) : Error(codes)
         \/ \E what \in {"read", "garbage"} : Result(what)
  PROVE  Inv'
<1>1. TypeOK
  BY DEF Inv
<1>2. /\ pc' \in {"next", "items", "return"} /\ k' \in 0 .. Len(req.items) + 1
      /\ outcome' \in {"none", "SUCCESS", "FAILURE", "SKIPPED"}
  BY PlacesKept
<1>3. /\ results' \in Seq([what : {"created", "deleted", "read", "garbage"}, obj : Nat, item : Nat])
      /\ errors' \in Seq([code : Int, obj : Nat, item : Nat])
  <2>1. CASE UNCHANGED answerVars
    BY <1>1, <2>1 DEF TypeOK, answerVars
  <2> QED
    BY <1>1, <2>1, ErrorTypes, ResultTypes
<1>4. TypeOK'
  <2>1. daemon' \in BOOLEAN /\ world' \subseteq Names /\ gone' \subseteq Names
        /\ info' \in {"none", "read", "garbage"}
    BY <1>1 DEF TypeOK, hostVars
  <2> QED
    BY <1>1, <1>2, <1>3, <2>1, TypesKept
<1>5. HandlesOwned' /\ HandlesReleased' /\ Phases'
  BY <1>2, HandlesKept
<1> QED
  BY <1>4, <1>5 DEF Inv

\* The loop over the objects ends, the loop over the items starts, the status is
\* read, or a handler does what is undefined.
LEMMA StayInv ==
  ASSUME Inv, \/ NoMoreObjects \/ StartItems \/ ReadInfo \/ AlterUndefined \/ AlterMistyped
              \/ /\ ReadOsType \/ DescribeNetwork \/ ReadBridge \/ Subquery
                 /\ pc' \in {"undefined", "bridge"}
  PROVE  Inv'
<1>1. TypeOK /\ req \in Request /\ Len(req.items) \in Nat
  BY DEF Inv, TypeOK, Request
<1>2. /\ UNCHANGED <<req, hostVars, handleVars, i, outcome, answerVars>>
      /\ pc' \in {"return", "items", "os_type", "bridge", "undefined"}
      /\ pc' \in {"items", "os_type", "bridge"} => pc = "exec"
      /\ pc' = "os_type" => info' # "none"
      /\ k' \in {k, 1} /\ info' \in {info, "read", "garbage"}
  BY DEF NoMoreObjects, StartItems, ReadInfo, Query, AlterUndefined, AlterMistyped, ReadOsType,
         Result, Leave, DescribeNetwork, ReadBridge, Subquery
<1>3. TypeOK'
  <2>1. k' \in 0 .. Len(req.items) + 1 /\ info' \in {"none", "read", "garbage"}
    BY <1>1, <1>2 DEF TypeOK
  <2> QED
    BY <1>1, <1>2, <2>1 DEF TypeOK, handleVars, hostVars, answerVars
<1>4. HandlesOwned' /\ HandlesReleased' /\ Phases'
  BY <1>2, HandlesKept
<1> QED
  BY <1>3, <1>4 DEF Inv

\* create() and alter() report and go on.
LEMMA ItemsInv ==
  ASSUME Inv, \/ BadBody \/ EndItems \/ CreateRefused \/ SkipItem \/ AlterDomain
              \/ AlterMistypedRefused \/ AlterNetwork
  PROVE  Inv'
<1> HIDE DEF Inv
<1>1. outcome \in {"none", "SUCCESS", "FAILURE", "SKIPPED"}
  BY DEF Inv, TypeOK
<1>2. CASE BadBody
  BY <1>2, OneError, ReportsInv DEF BadBody
<1>3. CASE EndItems
  BY <1>1, <1>3, ReportsInv DEF EndItems
<1>4. CASE CreateRefused
  <2>1. \E codes \in Seq(Int) : Error(codes)
    <3>1. PICK c \in {-999, 0, -1} : Error(<<c>>)
      BY <1>4 DEF CreateRefused
    <3> QED
      BY <3>1, OneError
  <2>2. pc \in {"exec", "items"} /\ (pc = "items" => k <= Len(req.items))
    BY <1>4 DEF CreateRefused, Value
  <2> QED
    BY <1>4, <2>1, <2>2, ReportsInv DEF CreateRefused
<1>5. CASE SkipItem
  <2>1. pc = "items" /\ k <= Len(req.items)
    BY <1>5 DEF SkipItem, Value
  <2>2. UNCHANGED answerVars \/ \E codes \in Seq(Int) : Error(codes)
    BY <1>5, OneError DEF SkipItem
  <2> QED
    BY <1>1, <1>5, <2>1, <2>2, ReportsInv DEF SkipItem
<1>6. CASE AlterDomain
  <2>1. pc \in {"exec", "items"} /\ (pc = "items" => k <= Len(req.items))
    BY <1>6 DEF AlterDomain, Value
  <2>2. UNCHANGED answerVars \/ \E codes \in Seq(Int) : Error(codes)
    <3>1. UNCHANGED answerVars \/ \E c \in {0, 123, 201} : Error(<<c>>)
      BY <1>6 DEF AlterDomain
    <3> QED
      BY <3>1, OneError
  <2>3. Resume("SUCCESS") \/ Resume("FAILURE")
    BY <1>6 DEF AlterDomain
  <2> QED
    BY <1>6, <2>1, <2>2, <2>3, ReportsInv DEF AlterDomain
<1>7. CASE AlterNetwork
  <2>1. pc \in {"exec", "items"} /\ (pc = "items" => k <= Len(req.items))
    BY <1>7 DEF AlterNetwork, Value
  <2> QED
    BY <1>7, <2>1, OneError, ReportsInv DEF AlterNetwork
<1>8. CASE AlterMistypedRefused
  <2>1. pc \in {"exec", "items"} /\ (pc = "items" => k <= Len(req.items))
    BY <1>8 DEF AlterMistypedRefused, Value
  <2> QED
    BY <1>8, <2>1, OneError, ReportsInv DEF AlterMistypedRefused
<1> QED
  BY <1>2, <1>3, <1>4, <1>5, <1>6, <1>7, <1>8

\* The errors of a subquery.
LEMMA SubqueryCodes ==
  ASSUME SubqueryFails
  PROVE  \E c \in {301, 201, -2} : Error(<<c>>)
<1>1. CASE req.sub = "option"
  BY <1>1 DEF SubqueryFails
<1>2. CASE req.sub # "option" /\ req.sub = "list" /\ Domains
  BY <1>2 DEF SubqueryFails
<1>3. CASE req.sub # "option" /\ ~(req.sub = "list" /\ Domains)
  BY <1>3 DEF SubqueryFails
<1> QED
  BY <1>1, <1>2, <1>3

\* query() and vacuum() report and return; the object that is undefined lives on
\* as a handle.
LEMMA ObjectsInv ==
  ASSUME Inv, \/ ReadOsType \/ DescribeNetwork \/ ReadBridge \/ DescribeFails \/ Subquery
              \/ SubqueryFails \/ UnknownSubquery \/ BadOption \/ Undefine \/ UndefineFails
  PROVE  Inv'
<1> HIDE DEF Inv
<1>1. CASE ReadOsType \/ DescribeNetwork \/ ReadBridge \/ Subquery
  <2>1. CASE pc' \in {"undefined", "bridge"}
    BY <1>1, <2>1, StayInv
  <2>2. CASE pc' \notin {"undefined", "bridge"}
    <3>1. Leave("SUCCESS") /\ pc \in {"exec", "os_type", "bridge"}
          /\ UNCHANGED <<req, hostVars, handleVars, i, info>>
      BY <1>1, <2>2 DEF ReadOsType, DescribeNetwork, ReadBridge, Subquery, Query
    <3>2. Result(info) \/ Result("read")
      BY <1>1, <2>2 DEF ReadOsType, DescribeNetwork, ReadBridge, Subquery
    <3>3. info \in {"read", "garbage"} \/ Result("read")
      BY <1>1, <2>2, <3>2 DEF ReadOsType, DescribeNetwork, ReadBridge, Subquery, Query, Inv,
             TypeOK, Phases
    <3> QED
      BY <3>1, <3>2, <3>3, ReportsInv
  <2> QED
    BY <2>1, <2>2
<1>2. CASE DescribeFails \/ SubqueryFails \/ UnknownSubquery \/ BadOption \/ UndefineFails
  <2>1. pc = "exec" /\ UNCHANGED <<req, hostVars, handleVars, i, info>>
    BY <1>2 DEF DescribeFails, SubqueryFails, UnknownSubquery, BadOption, UndefineFails,
           Query, Vacuum
  <2>2. Leave("FAILURE") \/ Leave("SKIPPED")
    BY <1>2 DEF DescribeFails, SubqueryFails, UnknownSubquery, BadOption, UndefineFails
  <2>3. UNCHANGED answerVars \/ \E c \in {500, 301, 201, -2, 216, -999} : Error(<<c>>)
    BY <1>2, SubqueryCodes DEF DescribeFails, UnknownSubquery, BadOption, UndefineFails
  <2>4. UNCHANGED answerVars \/ \E codes \in Seq(Int) : Error(codes)
    BY <2>3, OneError
  <2> QED
    BY <2>1, <2>2, <2>4, ReportsInv
<1>3. CASE Undefine
  <2>1. TypeOK /\ pc = "exec" /\ Leave("SUCCESS") /\ Result("deleted")
    BY <1>3 DEF Undefine, Vacuum, Inv
  <2>2. handles[obj] \in Names
    BY <1>3, <2>1 DEF Undefine, Here, TypeOK
  <2>3. daemon' \in BOOLEAN /\ world' \subseteq Names /\ gone' \subseteq Names
        /\ UNCHANGED <<req, handleVars, i, info>>
    BY <1>3, <2>1, <2>2 DEF Undefine, TypeOK
  <2>4. pc' \in {"next", "return"} /\ k' \in 0 .. Len(req.items) + 1 /\ outcome' = "SUCCESS"
    BY <2>1, PlacesKept DEF Leave
  <2>5. TypeOK'
    BY <2>1, <2>3, <2>4, ResultTypes, TypesKept DEF TypeOK
  <2>6. HandlesOwned' /\ HandlesReleased' /\ Phases'
    BY <2>1, <2>3, <2>4, HandlesKept
  <2> QED
    BY <2>5, <2>6 DEF Inv
<1> QED
  BY <1>1, <1>2, <1>3

\* Every step keeps the invariant.
LEMMA NextInv == Inv /\ [Next]_vars => Inv'
<1> SUFFICES ASSUME Inv, [Next]_vars PROVE Inv'
  OBVIOUS
<1>1. CASE Step
  <2> HIDE DEF Inv
  <2> QED
    <3>1. \/ Refuse \/ SkipResolve \/ ResolveBad \/ Open \/ ListThrows \/ ResolveOne \/ ResolveAll
          \/ TakeObject \/ Create \/ CreateFails \/ Return
          => Inv'
      BY GatesInv, OpenInv, ThrowInv, ResolveInv, TakeInv, CreateInv, ReturnInv
    <3>2. NoMoreObjects \/ StartItems \/ ReadInfo \/ AlterUndefined \/ AlterMistyped => Inv'
      BY StayInv
    <3>3. \/ BadBody \/ EndItems \/ CreateRefused \/ SkipItem \/ AlterDomain
          \/ AlterMistypedRefused \/ AlterNetwork
          => Inv'
      BY ItemsInv
    <3>4. \/ ReadOsType \/ DescribeNetwork \/ ReadBridge \/ DescribeFails \/ Subquery
          \/ SubqueryFails \/ UnknownSubquery \/ BadOption \/ Undefine \/ UndefineFails
          => Inv'
      BY ObjectsInv
    <3> QED
      BY <1>1, <3>1, <3>2, <3>3, <3>4 DEF Step
<1>2. CASE Others
  BY <1>2, OthersInv
<1>3. CASE UNCHANGED vars
  BY <1>3 DEF Inv, TypeOK, HandlesOwned, Owned, HandlesReleased, Phases,
              vars, hostVars, handleVars, answerVars
<1> QED
  BY <1>1, <1>2, <1>3 DEF Next

\* The invariant holds throughout.
THEOREM Invariance == Spec => []Inv
<1>1. Init => Inv
  BY InitInv
<1>2. Inv /\ [Next]_vars => Inv'
  BY NextInv
<1> QED
  BY <1>1, <1>2, PTL DEF Spec

\* No step leaves the types, whatever the requests.
THEOREM TypeCorrect == Spec => []TypeOK
<1>1. Inv => TypeOK
  BY DEF Inv
<1> QED
  BY <1>1, Invariance, PTL

\* Every open libvirt handle has one owner, obj or an element of objs, whatever
\* was moved, created or resolved; and the connection outlives it.
THEOREM OneOwner == Spec => []HandlesOwned
<1>1. Inv => HandlesOwned
  BY DEF Inv
<1> QED
  BY <1>1, Invariance, PTL

\* handle_json() is left with every handle freed and no connection open, also
\* by the exception of a listing.
THEOREM AllReleased == Spec => []HandlesReleased
<1>1. Inv => HandlesReleased
  BY DEF Inv
<1> QED
  BY <1>1, Invariance, PTL

-----------------------------------------------------------------------------
\* What has been reported, and where the loops are.  A POST works on no object;
\* the errors of a request that is refused are on none and on no item.
PlaceOf ==
  /\ req.verb = "post" => i = 0 /\ objs = <<>>
  /\ pc \in {"exec", "items", "os_type", "bridge"} /\ req.verb # "post" => i > 0
  /\ pc = "items" => k > 0
  /\ pc \in {"os_type", "bridge"} => req.verb # "post"
NothingYet ==
  /\ pc \in {"received", "resolve"} => results = <<>> /\ errors = <<>>
  /\ pc = "exec" /\ req.verb = "post" => results = <<>> /\ errors = <<>>
  /\ pc = "items" /\ req.verb = "post" /\ ~Domains => errors = <<>>
CreatedBefore ==
  \A r \in DOMAIN results :
    results[r].what = "created" => req.verb = "post" /\ (pc = "items" => results[r].item < k)
RefusedAsAWhole ==
  (\E e \in DOMAIN errors : errors[e].obj = 0 /\ errors[e].item = 0)
    => /\ results = <<>> /\ i = 0
       /\ pc \in {"next", "return", "done"} /\ (pc = "next" => objs = <<>>)
Answered == PlaceOf /\ NothingYet /\ CreatedBefore /\ NoneAfterFailure /\ RefusedAsAWhole

\* JsonRes::error() adds entries on the object and the item the loops are at.
LEMMA ErrorsAdded ==
  ASSUME TypeOK, NEW codes \in Seq(Int), Error(codes)
  PROVE  /\ results' = results
         /\ \A e \in DOMAIN errors' :
              \/ e \in DOMAIN errors /\ errors'[e] = errors[e]
              \/ errors'[e].obj = i /\ errors'[e].item = k
<1> DEFINE E == [code : Int, obj : Nat, item : Nat]
           s == [n \in DOMAIN codes |-> [code |-> codes[n], obj |-> i, item |-> k]]
<1>1. i \in Nat /\ k \in Nat /\ errors \in Seq(E)
  BY DEF TypeOK
<1>2. Len(codes) \in Nat /\ DOMAIN codes = 1 .. Len(codes)
  OBVIOUS
<1>3. s \in Seq(E) /\ DOMAIN s = DOMAIN codes
  <2>1. \A n \in 1 .. Len(codes) : codes[n] \in Int
    OBVIOUS
  <2> QED
    BY <1>1, <1>2, <2>1
<1>4. \A n \in DOMAIN s : s[n].obj = i /\ s[n].item = k
  BY <1>3
<1>5. errors' = errors \o s /\ results' = results
  BY DEF Error
<1> HIDE DEF s
<1>6. Len(errors) \in Nat /\ Len(s) \in Nat /\ Len(errors') = Len(errors) + Len(s)
      /\ DOMAIN errors' = 1 .. Len(errors') /\ DOMAIN errors = 1 .. Len(errors)
      /\ DOMAIN s = 1 .. Len(s)
  BY <1>1, <1>3, <1>5
<1>7. \A e \in DOMAIN errors' :
        IF e <= Len(errors) THEN errors'[e] = errors[e] ELSE errors'[e] = s[e - Len(errors)]
  BY <1>1, <1>3, <1>5, <1>6
<1>8. \A e \in DOMAIN errors' :
        IF e <= Len(errors) THEN e \in DOMAIN errors ELSE e - Len(errors) \in DOMAIN s
  BY <1>6
<1> QED
  BY <1>4, <1>5, <1>7, <1>8

\* JsonRes::result() adds one entry, on the item the loop is at.
LEMMA ResultAdded ==
  ASSUME TypeOK, NEW what \in {"created", "deleted", "read", "garbage"}, Result(what)
  PROVE  /\ errors' = errors
         /\ \A r \in DOMAIN results' :
              \/ r \in DOMAIN results /\ results'[r] = results[r]
              \/ results'[r].what = what /\ results'[r].item = k
<1>1. i \in Nat /\ k \in Nat
      /\ results \in Seq([what : {"created", "deleted", "read", "garbage"}, obj : Nat, item : Nat])
  BY DEF TypeOK
<1>2. errors' = errors /\ results' = Append(results, [what |-> what, obj |-> i, item |-> k])
  BY DEF Result
<1> DEFINE new == [what |-> what, obj |-> i, item |-> k]
<1>3. new.what = what /\ new.item = k
      /\ new \in [what : {"created", "deleted", "read", "garbage"}, obj : Nat, item : Nat]
  BY <1>1
<1> HIDE DEF new
<1>4. \A r \in DOMAIN results' :
        \/ r \in DOMAIN results /\ results'[r] = results[r]
        \/ results'[r] = new
  BY <1>1, <1>2, <1>3 DEF new
<1> QED
  BY <1>2, <1>3, <1>4

\* The items of the results, and the place in the loop over them, are numbers.
LEMMA ItemNumbers ==
  ASSUME TypeOK
  PROVE  k \in Nat /\ \A r \in DOMAIN results : results[r].item \in Nat
<1> DEFINE R == [what : {"created", "deleted", "read", "garbage"}, obj : Nat, item : Nat]
<1>1. k \in Nat /\ results \in Seq(R)
  BY DEF TypeOK
<1>2. \A x \in R : x.item \in Nat
  OBVIOUS
<1> HIDE DEF R
<1>3. \A r \in DOMAIN results : results[r] \in R
  BY <1>1
<1> QED
  BY <1>1, <1>2, <1>3

\* A step that adds nothing to the answer keeps what is known of it, if it keeps
\* the places.
LEMMA AnswerKept ==
  ASSUME Answered, UNCHANGED <<req, answerVars>>,
         PlaceOf',
         pc' \in {"received", "resolve"} => pc \in {"received", "resolve"},
         pc' = "exec" /\ req.verb = "post" => pc \in {"resolve", "exec"},
         pc' = "items" => \/ pc = "items" /\ k <= k'
                          \/ pc = "exec",
         TypeOK, TypeOK',
         (\E e \in DOMAIN errors : errors[e].obj = 0 /\ errors[e].item = 0)
           => i' = i /\ pc' \in {"next", "return", "done"} /\ (pc' = "next" => objs' = objs /\ pc = "next")
  PROVE  Answered'
<1>1. errors' = errors /\ results' = results /\ req' = req /\ Domains' = Domains
  BY DEF answerVars, Domains
<1>2. NothingYet'
  BY <1>1 DEF Answered, NothingYet
<1>3. CreatedBefore'
  <2> SUFFICES ASSUME NEW r \in DOMAIN results, results[r].what = "created"
               PROVE  req.verb = "post" /\ (pc' = "items" => results[r].item < k')
    BY <1>1 DEF CreatedBefore
  <2>1. req.verb = "post" /\ (pc = "items" => results[r].item < k)
    BY DEF Answered, CreatedBefore
  <2>2. CASE pc = "exec"
    BY <2>1, <2>2 DEF Answered, NothingYet
  <2>3. CASE pc' = "items" /\ pc = "items" /\ k <= k'
    <3>1. results[r].item \in Nat /\ k \in Nat /\ k' \in Nat
      <4>1. k \in Nat /\ k' \in Nat
        BY DEF TypeOK
      <4> QED
        BY <4>1, ItemNumbers
    <3> QED
      BY <2>1, <2>3, <3>1
  <2> QED
    BY <2>1, <2>2, <2>3
<1>4. NoneAfterFailure'
  BY <1>1 DEF Answered, NoneAfterFailure
<1>5. RefusedAsAWhole'
  BY <1>1 DEF Answered, RefusedAsAWhole
<1> QED
  BY <1>2, <1>3, <1>4, <1>5 DEF Answered

\* An error before the loops refuses the request as a whole.
LEMMA RefusalAnswered ==
  ASSUME Inv, Answered, pc \in {"received", "resolve"}, UNCHANGED <<req, objs, i>>,
         pc' \in {"next", "return"}, NEW codes \in Seq(Int), Error(codes)
  PROVE  Answered'
<1>1. TypeOK /\ objs = <<>> /\ i = 0 /\ results = <<>> /\ errors = <<>>
  BY DEF Inv, Phases, Answered, NothingYet
<1>2. results' = <<>>
  BY <1>1, ErrorsAdded
<1>3. PlaceOf' /\ NothingYet'
  BY <1>1 DEF Answered, PlaceOf, NothingYet
<1>4. CreatedBefore' /\ NoneAfterFailure'
  BY <1>2 DEF CreatedBefore, NoneAfterFailure
<1>5. RefusedAsAWhole'
  BY <1>1, <1>2 DEF RefusedAsAWhole
<1> QED
  BY <1>3, <1>4, <1>5 DEF Answered

\* A handler that returns, and an item that is done: the place in the loops.
LEMMA PlaceAfter ==
  ASSUME Inv, Answered, pc \in {"exec", "items", "os_type", "bridge"}, UNCHANGED <<req, objs, i>>,
         NEW oc, Resume(oc) \/ Leave(oc)
  PROVE  /\ PlaceOf' /\ pc' \in {"items", "next", "return"}
         /\ pc' = "items" => pc = "items" /\ k' = k + 1
         /\ pc' = "next" => req.verb # "post"
         /\ k \in Nat
         /\ ~\E e \in DOMAIN errors : errors[e].obj = 0 /\ errors[e].item = 0
<1>1. k \in Nat
  BY DEF Inv, TypeOK
<1>2. /\ pc' \in {"items", "next", "return"}
      /\ pc' = "items" => pc = "items" /\ k' = k + 1
      /\ pc' = "next" => req.verb # "post"
  BY DEF Resume, Leave
<1>3. PlaceOf'
  BY <1>1, <1>2 DEF Answered, PlaceOf
<1> QED
  BY <1>1, <1>2, <1>3 DEF Answered, RefusedAsAWhole

\* A handler that reports an error.
LEMMA ErrorAnswered ==
  ASSUME Inv, Answered, pc \in {"exec", "items", "os_type", "bridge"}, UNCHANGED <<req, objs, i>>,
         NEW oc, Resume(oc) \/ Leave(oc),
         pc' = "items" => Domains \/ req.verb # "post",
         NEW codes \in Seq(Int), Error(codes)
  PROVE  Answered'
<1>1. TypeOK /\ i \in Nat /\ k \in Nat
  BY DEF Inv, TypeOK
<1>2. /\ PlaceOf' /\ pc' \in {"items", "next", "return"}
      /\ pc' = "items" => pc = "items" /\ k' = k + 1
      /\ pc' = "next" => req.verb # "post"
      /\ ~\E e \in DOMAIN errors : errors[e].obj = 0 /\ errors[e].item = 0
  BY PlaceAfter
<1>3. /\ results' = results
      /\ \A e \in DOMAIN errors' :
           \/ e \in DOMAIN errors /\ errors'[e] = errors[e]
           \/ errors'[e].obj = i /\ errors'[e].item = k
  BY <1>1, ErrorsAdded
<1>4. NothingYet'
  BY <1>2 DEF NothingYet, Domains
<1>5. \A r \in DOMAIN results : results[r].what = "created"
        => pc = "items" /\ results[r].item < k /\ req.verb = "post" /\ results[r].item \in Nat
  <2> SUFFICES ASSUME NEW r \in DOMAIN results, results[r].what = "created"
               PROVE  pc = "items" /\ results[r].item < k /\ req.verb = "post"
                      /\ results[r].item \in Nat
    OBVIOUS
  <2>1. req.verb = "post" /\ (pc = "items" => results[r].item < k)
    BY DEF Answered, CreatedBefore
  <2>2. pc = "items"
    BY <2>1 DEF Answered, NothingYet, PlaceOf
  <2> QED
    BY <1>1, <2>1, <2>2, ItemNumbers
<1>6. CreatedBefore'
  BY <1>1, <1>2, <1>3, <1>5 DEF CreatedBefore
<1>7. NoneAfterFailure'
  BY <1>3, <1>5 DEF Answered, NoneAfterFailure, Domains
<1>8. RefusedAsAWhole'
  <2> SUFFICES ASSUME NEW e \in DOMAIN errors', errors'[e].obj = 0, errors'[e].item = 0
               PROVE  results' = <<>> /\ i' = 0 /\ pc' = "return"
    BY DEF RefusedAsAWhole
  <2>1. i = 0 /\ k = 0
    BY <1>2, <1>3
  <2>2. pc = "exec" /\ req.verb = "post"
    BY <2>1 DEF Answered, PlaceOf
  <2> QED
    BY <1>2, <1>3, <2>1, <2>2 DEF Answered, NothingYet
<1> QED
  BY <1>2, <1>4, <1>6, <1>7, <1>8 DEF Answered

\* A handler that reports a result.  A network is created only before any error.
LEMMA ResultAnswered ==
  ASSUME Inv, Answered, pc \in {"exec", "items", "os_type", "bridge"}, UNCHANGED <<req, objs, i>>,
         NEW oc, Resume(oc) \/ Leave(oc),
         NEW what \in {"created", "deleted", "read", "garbage"}, Result(what),
         what = "created" => req.verb = "post"
  PROVE  Answered'
<1>1. TypeOK /\ k \in Nat
  BY DEF Inv, TypeOK
<1>2. /\ PlaceOf' /\ pc' \in {"items", "next", "return"}
      /\ pc' = "items" => pc = "items" /\ k' = k + 1
      /\ ~\E e \in DOMAIN errors : errors[e].obj = 0 /\ errors[e].item = 0
  BY PlaceAfter
<1>3. /\ errors' = errors
      /\ \A r \in DOMAIN results' :
           \/ r \in DOMAIN results /\ results'[r] = results[r]
           \/ results'[r].what = what /\ results'[r].item = k
  BY <1>1, ResultAdded
<1>4. NothingYet'
  BY <1>2, <1>3 DEF Answered, NothingYet, Domains
<1>5. CreatedBefore'
  <2> SUFFICES ASSUME NEW r \in DOMAIN results', results'[r].what = "created"
               PROVE  req.verb = "post" /\ (pc' = "items" => results'[r].item < k')
    BY DEF CreatedBefore
  <2>1. CASE r \in DOMAIN results /\ results'[r] = results[r]
    <3>1. req.verb = "post" /\ (pc = "items" => results[r].item < k)
      BY <2>1 DEF Answered, CreatedBefore
    <3>2. results[r].item \in Nat
      BY <1>1, <2>1, ItemNumbers
    <3> QED
      BY <1>1, <1>2, <2>1, <3>1, <3>2
  <2>2. CASE results'[r].what = what /\ results'[r].item = k
    BY <1>1, <1>2, <2>2
  <2> QED
    BY <1>3, <2>1, <2>2
<1>6. NoneAfterFailure'
  <2> SUFFICES ASSUME ~Domains, NEW r \in DOMAIN results', NEW e \in DOMAIN errors,
                      results'[r].what = "created"
               PROVE  results'[r].item < errors[e].item
    BY <1>3 DEF NoneAfterFailure, Domains
  <2>1. req.verb = "post"
    BY <1>5 DEF CreatedBefore
  <2>2. pc \in {"exec", "items"}
    BY <2>1 DEF Answered, PlaceOf
  <2>3. errors = <<>>
    BY <2>1, <2>2 DEF Answered, NothingYet
  <2> QED
    BY <2>3
<1>7. RefusedAsAWhole'
  BY <1>2, <1>3 DEF RefusedAsAWhole
<1> QED
  BY <1>2, <1>4, <1>5, <1>6, <1>7 DEF Answered

\* What other clients do is not in the answer.
LEMMA OthersAnswered == ASSUME Inv, Answered, Others PROVE Answered'
<1>1. UNCHANGED <<req, pc, handleVars, i, k, answerVars>>
  BY DEF Others, Vanish, Appear, LoseDaemon
<1> QED
  BY <1>1 DEF Answered, PlaceOf, NothingYet, CreatedBefore, NoneAfterFailure, RefusedAsAWhole,
              Domains, handleVars, answerVars

\* The gates and the resolvers either refuse the request or report nothing.
LEMMA GatesAnswered ==
  ASSUME Inv, Answered,
         Refuse \/ Open \/ SkipResolve \/ ResolveBad \/ ResolveOne \/ ResolveAll \/ ListThrows
  PROVE  Answered'
<1>1. TypeOK /\ TypeOK'
  BY GatesInv, OpenInv, ThrowInv, ResolveInv DEF Inv
<1>2. pc \in {"received", "resolve"} /\ UNCHANGED <<req, i, k>>
  BY DEF Refuse, Open, SkipResolve, ResolveBad, ResolveOne, ResolveAll, ListThrows, handleVars
<1>3. i = 0 /\ objs = <<>> /\ results = <<>> /\ errors = <<>>
  BY <1>2 DEF Inv, Phases, Answered, NothingYet
<1>4. CASE \E codes \in Seq(Int) : Error(codes) /\ pc' \in {"next", "return"} /\ objs' = objs
  BY <1>2, <1>4, RefusalAnswered
<1>5. CASE /\ UNCHANGED answerVars /\ pc' \in {"return", "resolve", "exec", "next", "threw"}
           /\ pc' = "exec" => req.verb = "post" /\ pc = "resolve"
           /\ req.verb = "post" => objs' = objs
  <2>1. PlaceOf'
    BY <1>2, <1>3, <1>5 DEF PlaceOf
  <2> QED
    BY <1>1, <1>2, <1>3, <1>5, <2>1, AnswerKept
<1>6. CASE Refuse
  <2>1. <<Refusal>> \in Seq(Int) /\ Error(<<Refusal>>) /\ pc' = "return" /\ objs' = objs
    BY <1>6 DEF Refuse, Refusal, handleVars
  <2> QED
    BY <2>1, <1>4
<1>7. CASE Open
  <2>1. \/ UNCHANGED answerVars /\ pc' = "resolve"
        \/ \E c \in {7, 10} : Error(<<c>>) /\ pc' = "return"
    BY <1>7 DEF Open
  <2>2. objs' = objs
    BY <1>7 DEF Open
  <2> QED
    BY <1>4, <1>5, <2>1, <2>2, OneError
<1>8. CASE SkipResolve
  BY <1>5, <1>8 DEF SkipResolve, handleVars
<1>9. CASE ResolveBad
  <2>1. <<101>> \in Seq(Int) /\ <<301, 102>> \in Seq(Int)
    OBVIOUS
  <2> QED
    BY <1>4, <1>9, <2>1 DEF ResolveBad, handleVars
<1>10. CASE ResolveOne
  <2>1. \/ UNCHANGED answerVars
        \/ Error(<<100>>) /\ objs' = objs
    BY <1>10 DEF ResolveOne
  <2>2. pc' = "next" /\ req.verb # "post"
    BY <1>10 DEF ResolveOne
  <2> QED
    BY <1>4, <1>5, <2>1, <2>2, OneError
<1>11. CASE ResolveAll \/ ListThrows
  BY <1>5, <1>11 DEF ResolveAll, ListThrows
<1> QED
  BY <1>6, <1>7, <1>8, <1>9, <1>10, <1>11

\* The loop over the objects takes none of a request that was refused.
LEMMA LoopAnswered ==
  ASSUME Inv, Answered, TakeObject \/ NoMoreObjects \/ Return
  PROVE  Answered'
<1>1. TypeOK /\ TypeOK'
  BY TakeInv, StayInv, ReturnInv DEF Inv
<1>2. CASE TakeObject
  <2>1. i \in Nat /\ i < Len(objs) /\ i' = i + 1 /\ pc = "next" /\ pc' = "exec"
        /\ UNCHANGED <<req, answerVars>>
    BY <1>1, <1>2 DEF TakeObject, TypeOK
  <2>2. objs # <<>>
    BY <2>1
  <2>3. req.verb # "post"
    BY <2>2 DEF Answered, PlaceOf
  <2>4. PlaceOf'
    BY <2>1, <2>3 DEF PlaceOf
  <2>5. ~\E e \in DOMAIN errors : errors[e].obj = 0 /\ errors[e].item = 0
    BY <2>1, <2>2 DEF Answered, RefusedAsAWhole
  <2> QED
    BY <1>1, <2>1, <2>3, <2>4, <2>5, AnswerKept
<1>3. CASE NoMoreObjects
  <2>1. PlaceOf' /\ pc' = "return" /\ i' = i /\ UNCHANGED <<req, answerVars>>
    BY <1>3 DEF NoMoreObjects, Answered, PlaceOf, handleVars
  <2> QED
    BY <1>1, <2>1, AnswerKept
<1>4. CASE Return
  <2>1. objs = <<>> => objs' = <<>>
    BY <1>4 DEF Return
  <2>2. PlaceOf' /\ pc' = "done" /\ i' = i /\ UNCHANGED <<req, answerVars>>
    BY <1>4, <2>1 DEF Return, Answered, PlaceOf
  <2> QED
    BY <1>1, <2>2, AnswerKept
<1> QED
  BY <1>2, <1>3, <1>4

\* A step of a handler that reports nothing and does not return.
LEMMA StayAnswered ==
  ASSUME Inv, Answered,
         \/ StartItems \/ ReadInfo \/ AlterUndefined \/ AlterMistyped
         \/ /\ ReadOsType \/ DescribeNetwork \/ ReadBridge \/ Subquery
            /\ pc' \in {"undefined", "bridge"}
  PROVE  Answered'
<1>1. TypeOK /\ TypeOK'
  BY StayInv DEF Inv
<1>2. /\ UNCHANGED <<req, objs, i, answerVars>> /\ pc \in {"exec", "items", "os_type", "bridge"}
      /\ \/ pc = "exec" /\ pc' = "items" /\ k' = 1
         \/ pc = "exec" /\ pc' \in {"os_type", "bridge"} /\ req.verb = "get"
         \/ pc' = "undefined"
  BY DEF StartItems, ReadInfo, Query, AlterUndefined, AlterMistyped, Value, ReadOsType, Result,
         Leave, DescribeNetwork, ReadBridge, Subquery, handleVars
<1>3. PlaceOf'
  BY <1>2 DEF Answered, PlaceOf
<1>4. ~\E e \in DOMAIN errors : errors[e].obj = 0 /\ errors[e].item = 0
  BY <1>2 DEF Answered, RefusedAsAWhole
<1> QED
  BY <1>1, <1>2, <1>3, <1>4, AnswerKept

\* A handler that returns without a word.
LEMMA SilentAnswered ==
  ASSUME Inv, Inv', Answered, pc \in {"exec", "items", "os_type", "bridge"}, UNCHANGED <<req, objs, i>>,
         NEW oc, Resume(oc) \/ Leave(oc), UNCHANGED answerVars
  PROVE  Answered'
<1>1. TypeOK /\ TypeOK'
  BY DEF Inv
<1>2. /\ PlaceOf' /\ pc' \in {"items", "next", "return"}
      /\ pc' = "items" => pc = "items" /\ k' = k + 1
      /\ k \in Nat
      /\ ~\E e \in DOMAIN errors : errors[e].obj = 0 /\ errors[e].item = 0
  BY PlaceAfter
<1> QED
  BY <1>1, <1>2, AnswerKept

\* The loop over the items: create() and alter().
LEMMA ItemsAnswered ==
  ASSUME Inv, Answered,
         \/ BadBody \/ EndItems \/ Create \/ CreateFails \/ CreateRefused \/ SkipItem
         \/ AlterDomain \/ AlterMistypedRefused \/ AlterNetwork
  PROVE  Answered'
<1> HIDE DEF Inv
<1>1. Inv'
  BY ItemsInv, CreateInv
<1>2. pc \in {"exec", "items", "os_type", "bridge"} /\ UNCHANGED <<req, objs, i>>
  BY DEF BadBody, EndItems, Create, CreateFails, CreateRefused, SkipItem, AlterDomain,
         AlterMistypedRefused, AlterNetwork, Value, handleVars
<1>3. CASE EndItems
  BY <1>1, <1>2, <1>3, SilentAnswered DEF EndItems
<1>4. CASE Create
  BY <1>2, <1>4, ResultAnswered DEF Create
<1>5. CASE BadBody
  <2>1. Leave("none") /\ Error(<<3>>) /\ pc' # "items"
    BY <1>5 DEF BadBody, Leave
  <2> QED
    BY <1>2, <2>1, OneError, ErrorAnswered
<1>6. CASE CreateFails
  <2>1. /\ Resume("FAILURE") \/ Leave("FAILURE")
        /\ pc' = "items" => Domains \/ req.verb # "post"
    BY <1>6 DEF CreateFails, Resume, Leave
  <2>2. \E c \in {105, -999} : Error(<<c>>)
    BY <1>6 DEF CreateFails
  <2> QED
    BY <1>2, <2>1, <2>2, OneError, ErrorAnswered
<1>7. CASE CreateRefused
  <2>1. /\ Resume("FAILURE") \/ Leave("FAILURE")
        /\ pc' = "items" => Domains \/ req.verb # "post"
    BY <1>7 DEF CreateRefused, Resume, Leave
  <2>2. \E c \in {-999, 0, -1} : Error(<<c>>)
    BY <1>7 DEF CreateRefused
  <2> QED
    BY <1>2, <2>1, <2>2, OneError, ErrorAnswered
<1>8. CASE SkipItem
  <2>1. Resume(outcome) /\ Domains
    BY <1>8 DEF SkipItem
  <2>2. CASE UNCHANGED answerVars
    BY <1>1, <1>2, <2>1, <2>2, SilentAnswered
  <2>3. CASE Error(<<0>>)
    BY <1>2, <2>1, <2>3, OneError, ErrorAnswered
  <2> QED
    BY <1>8, <2>2, <2>3 DEF SkipItem
<1>9. CASE AlterDomain
  <2>1. (Resume("SUCCESS") \/ Resume("FAILURE")) /\ Domains
    BY <1>9 DEF AlterDomain
  <2>2. CASE UNCHANGED answerVars
    BY <1>1, <1>2, <2>1, <2>2, SilentAnswered
  <2>3. CASE \E c \in {0, 123, 201} : Error(<<c>>)
    BY <1>2, <2>1, <2>3, OneError, ErrorAnswered
  <2> QED
    BY <1>9, <2>2, <2>3 DEF AlterDomain
<1>10. CASE AlterNetwork \/ AlterMistypedRefused
  <2>1. Resume("FAILURE") /\ (\E c \in {123, 201} : Error(<<c>>)) /\ req.verb # "post"
    BY <1>10 DEF AlterNetwork, AlterMistypedRefused, Alter
  <2> QED
    BY <1>2, <2>1, OneError, ErrorAnswered
<1> QED
  BY <1>3, <1>4, <1>5, <1>6, <1>7, <1>8, <1>9, <1>10

\* The handlers of one object: query() and vacuum().
LEMMA ObjectsAnswered ==
  ASSUME Inv, Answered,
         \/ ReadOsType \/ DescribeNetwork \/ ReadBridge \/ DescribeFails \/ Subquery
         \/ SubqueryFails \/ UnknownSubquery \/ BadOption \/ Undefine \/ UndefineFails
  PROVE  Answered'
<1> HIDE DEF Inv
<1>1. Inv'
  BY ObjectsInv
<1>2. pc \in {"exec", "os_type", "bridge"} /\ UNCHANGED <<req, objs, i>>
  BY DEF ReadOsType, DescribeNetwork, ReadBridge, DescribeFails, Subquery, SubqueryFails,
         UnknownSubquery, BadOption, Undefine, UndefineFails, Query, Vacuum, handleVars
<1>3. CASE ReadOsType \/ DescribeNetwork \/ ReadBridge \/ Subquery
  <2>1. CASE pc' \in {"undefined", "bridge"}
    BY <1>3, <2>1, StayAnswered
  <2>2. CASE pc' \notin {"undefined", "bridge"}
    <3>1. Leave("SUCCESS") /\ (Result("read") \/ (Result(info) /\ pc = "os_type"))
      BY <1>3, <2>2 DEF ReadOsType, DescribeNetwork, ReadBridge, Subquery
    <3>2. pc = "os_type" => info \in {"read", "garbage"}
      BY DEF Inv, TypeOK, Phases
    <3> QED
      BY <1>2, <3>1, <3>2, ResultAnswered
  <2> QED
    BY <2>1, <2>2
<1>4. CASE Undefine
  BY <1>2, <1>4, ResultAnswered DEF Undefine
<1>5. CASE UnknownSubquery
  BY <1>1, <1>2, <1>5, SilentAnswered DEF UnknownSubquery
<1>6. CASE DescribeFails \/ SubqueryFails \/ BadOption \/ UndefineFails
  <2>1. Leave("FAILURE") /\ pc' # "items"
    BY <1>6 DEF DescribeFails, SubqueryFails, BadOption, UndefineFails, Leave
  <2>2. \E c \in {500, 301, 201, -2, 216, -999} : Error(<<c>>)
    BY <1>6, SubqueryCodes DEF DescribeFails, BadOption, UndefineFails
  <2> QED
    BY <1>2, <2>1, <2>2, OneError, ErrorAnswered
<1> QED
  BY <1>3, <1>4, <1>5, <1>6

\* The answer is as Answered says throughout.
LEMMA AnsweredHolds == Spec => []Answered
<1>1. Init => Answered
  BY DEF Init, Answered, PlaceOf, NothingYet, CreatedBefore, NoneAfterFailure, RefusedAsAWhole
<1>2. Inv /\ Answered /\ [Next]_vars => Answered'
  <2> SUFFICES ASSUME Inv, Answered, [Next]_vars PROVE Answered'
    OBVIOUS
  <2>1. CASE Step
    <3>1. \/ Refuse \/ Open \/ SkipResolve \/ ResolveBad \/ ResolveOne \/ ResolveAll
          \/ ListThrows \/ TakeObject \/ NoMoreObjects \/ Return
          => Answered'
      BY GatesAnswered, LoopAnswered
    <3>2. \/ StartItems \/ ReadInfo \/ AlterUndefined \/ AlterMistyped
          \/ BadBody \/ EndItems \/ Create \/ CreateFails \/ CreateRefused \/ SkipItem
          \/ AlterDomain \/ AlterMistypedRefused \/ AlterNetwork
          => Answered'
      BY StayAnswered, ItemsAnswered
    <3>3. \/ ReadOsType \/ DescribeNetwork \/ ReadBridge \/ DescribeFails \/ Subquery
          \/ SubqueryFails \/ UnknownSubquery \/ BadOption \/ Undefine \/ UndefineFails
          => Answered'
      BY ObjectsAnswered
    <3> QED
      BY <2>1, <3>1, <3>2, <3>3 DEF Step
  <2>2. CASE Others
    BY <2>2, OthersAnswered
  <2>3. CASE UNCHANGED vars
    BY <2>3 DEF Answered, PlaceOf, NothingYet, CreatedBefore, NoneAfterFailure, RefusedAsAWhole,
                Domains, vars, handleVars, answerVars
  <2> QED
    BY <2>1, <2>2, <2>3 DEF Next
<1> QED
  BY <1>1, <1>2, Invariance, PTL DEF Spec

\* The networks of a POST are created up to the first failure and none after,
\* however many there are: the loop of NetworkHandlers::create() ends with it.
THEOREM CreationStops == Spec => []NoneAfterFailure
<1>1. Answered => NoneAfterFailure
  BY DEF Answered
<1> QED
  BY <1>1, AnsweredHolds, PTL

\* A request that is refused as a whole, by a gate, a resolver or a body of no
\* type that the verb takes, has touched no object.
THEOREM RefusalsDoNothing == Spec => []RefusedDoesNothing
<1>1. Answered => RefusedDoesNothing
  BY DEF Answered, RefusedAsAWhole, RefusedDoesNothing
<1> QED
  BY <1>1, AnsweredHolds, PTL

-----------------------------------------------------------------------------
\* A GET hands the handlers the objects in their order, so that the result on
\* the i-th of them is one of the i-th handle; and what its status was read from
\* was not there, if it is none.
InOrder ==
  req.verb = "get" /\ pc \in {"next", "exec", "os_type", "bridge"} =>
    /\ Len(objs) = Len(handles)
    /\ \A j \in DOMAIN objs : j > i => objs[j] = j
    /\ pc # "next" => obj = i /\ i > 0
NotHere == ~daemon \/ handles[obj] \in gone
Reasons ==
  /\ Names \ world \subseteq gone
  /\ pc \in {"received", "resolve"} => handles = <<>>
  /\ pc = "items" => req.body = "array" /\ req.verb # "get" /\ (req.verb = "patch" => Domains)
  /\ InOrder
  /\ pc \in {"os_type", "bridge"} => req.verb = "get" /\ req.sub = "none"
  /\ pc = "os_type" => Domains /\ (info = "garbage" => NotHere)
  /\ pc = "bridge" => ~Domains /\ req.search \in Names
  /\ \A r \in DOMAIN results :
       results[r].what = "garbage" => req.verb = "get" /\ results[r].obj \in DOMAIN handles
  /\ UndefinedForAReason

\* A step that leaves the handles of a GET and what it read where they are.
LEMMA ReasonsKept ==
  ASSUME Inv, Reasons, req' = req, i' = i,
         daemon' => daemon, gone \subseteq gone', Names \ world' \subseteq gone',
         handles' = handles \/ (req.verb = "post" /\ pc' \notin {"received", "resolve"}),
         objs' = objs \/ pc' = "done",
         obj' = obj \/ req.verb = "post" \/ pc' = "done",
         \A r \in DOMAIN results' :
           results'[r].what = "garbage" => r \in DOMAIN results /\ results'[r] = results[r],
         pc' # "undefined",
         pc' = "os_type" => pc = "os_type" /\ info' = info,
         pc' = "bridge" => pc = "bridge",
         pc' \in {"received", "resolve"} => pc \in {"received", "resolve"},
         pc' = "items" => \/ pc = "items"
                          \/ /\ req.body = "array" /\ req.verb # "get"
                             /\ req.verb = "patch" => Domains,
         pc' = "exec" => pc = "exec" \/ req.verb # "get",
         pc' = "next" => pc \in {"resolve", "next", "exec", "items", "os_type", "bridge"}
  PROVE  Reasons'
<1>1. Domains' = Domains
  BY DEF Domains
<1>2. InOrder'
  <2> SUFFICES ASSUME req.verb = "get", pc' \in {"next", "exec", "os_type", "bridge"}
               PROVE  /\ Len(objs) = Len(handles)
                      /\ \A j \in DOMAIN objs : j > i => objs[j] = j
                      /\ pc' # "next" => obj = i /\ i > 0
    BY DEF InOrder
  <2>1. CASE pc = "resolve"
    BY <2>1 DEF Reasons, Inv, Phases
  <2>2. CASE pc \in {"next", "exec", "os_type", "bridge"}
    BY <2>2 DEF Reasons, InOrder
  <2> QED
    BY <2>1, <2>2 DEF Reasons
<1>3. \A r \in DOMAIN results' :
        results'[r].what = "garbage" => /\ req.verb = "get" /\ results'[r].obj \in DOMAIN handles
                                        /\ handles[results'[r].obj] \in gone'
                                        /\ handles' = handles
  BY DEF Reasons, UndefinedForAReason
<1>4. UndefinedForAReason'
  BY <1>3 DEF UndefinedForAReason
<1>5. /\ pc' \in {"os_type", "bridge"} => req.verb = "get" /\ req.sub = "none"
      /\ pc' = "os_type" => Domains /\ (info' = "garbage" => NotHere')
      /\ pc' = "bridge" => ~Domains /\ req.search \in Names
  BY DEF Reasons, NotHere
<1>6. pc' \in {"received", "resolve"} => handles' = <<>>
  BY DEF Reasons
<1>7. pc' = "items" => req.body = "array" /\ req.verb # "get" /\ (req.verb = "patch" => Domains)
  BY DEF Reasons
<1> QED
  BY <1>1, <1>2, <1>3, <1>4, <1>5, <1>6, <1>7 DEF Reasons

\* The handles of what was resolved are numbered from 1.
LEMMA ResolvedReasons ==
  ASSUME Inv, Answered, Reasons, pc = "resolve", pc' = "next",
         NEW s \in Seq(Names), handles' = handles \o s,
         objs' = [j \in DOMAIN s |-> Len(handles) + j],
         UNCHANGED <<req, hostVars, i>>, results' = results
  PROVE  Reasons'
<1>1. handles = <<>> /\ results = <<>>
  BY DEF Reasons, Answered, NothingYet
<1>2. handles' = s /\ Len(handles) = 0
  BY <1>1
<1>3. objs' \in Seq(Nat) /\ Len(objs') = Len(s) /\ \A j \in DOMAIN objs' : objs'[j] = j
  <2>1. Len(s) \in Nat /\ DOMAIN s = 1 .. Len(s)
    OBVIOUS
  <2> QED
    BY <1>2, <2>1
<1>4. InOrder'
  BY <1>2, <1>3 DEF InOrder
<1> QED
  BY <1>1, <1>4 DEF Reasons, UndefinedForAReason, hostVars

\* Resolved or not, the handles are in their order.
LEMMA ResolveReasons ==
  ASSUME Inv, Answered, Reasons, ResolveOne \/ ResolveAll
  PROVE  Reasons'
<1>1. TypeOK
  BY DEF Inv
<1>2. CASE ResolveAll
  <2>1. PICK s \in [1 .. Cardinality(world) -> world] :
          /\ handles' = handles \o s
          /\ objs' = [j \in DOMAIN s |-> Len(handles) + j]
    BY <1>2 DEF ResolveAll, ListAll
  <2>2. Cardinality(world) \in Nat
    BY <1>1, FS_Subset, FS_CardinalityType DEF TypeOK
  <2>3. s \in Seq(Names)
    <3>1. s \in [1 .. Cardinality(world) -> Names]
      BY <1>1 DEF TypeOK
    <3> QED
      BY <2>2, <3>1
  <2>4. pc = "resolve" /\ pc' = "next" /\ UNCHANGED <<req, hostVars, i>> /\ results' = results
    BY <1>2 DEF ResolveAll, answerVars
  <2> HIDE DEF Inv, Answered, Reasons
  <2> QED
    BY <2>1, <2>3, <2>4, ResolvedReasons
<1>3. CASE ResolveOne /\ handles' = Append(handles, req.search) /\ objs' = <<Len(handles')>>
           /\ UNCHANGED answerVars
  <2> DEFINE s == <<req.search>>
  <2>1. handles = <<>> /\ s \in Seq(Names)
    BY <1>3 DEF ResolveOne, Reasons
  <2>2. handles' = handles \o s /\ Len(handles') = 1 /\ Len(handles) = 0
    BY <1>3, <2>1
  <2>3. objs' = [j \in DOMAIN s |-> Len(handles) + j]
    BY <1>3, <2>2
  <2>4. pc = "resolve" /\ pc' = "next" /\ UNCHANGED <<req, hostVars, i>> /\ results' = results
    BY <1>3 DEF ResolveOne, answerVars
  <2> HIDE DEF s, Inv, Answered, Reasons
  <2> QED
    BY <2>1, <2>2, <2>3, <2>4, ResolvedReasons
<1>4. CASE ResolveOne /\ Error(<<100>>) /\ UNCHANGED <<handles, open, objs>>
  <2>1. UNCHANGED <<req, i, hostVars, handles, objs, obj>> /\ results' = results
        /\ pc = "resolve" /\ pc' = "next"
    BY <1>4 DEF ResolveOne, Error
  <2>2. Names \ world' \subseteq gone'
    BY <2>1 DEF hostVars, Reasons
  <2> QED
    BY <2>1, <2>2, ReasonsKept DEF hostVars
<1> QED
  BY <1>2, <1>3, <1>4 DEF ResolveOne

\* The next object is the next handle.
LEMMA TakeReasons == ASSUME Inv, Reasons, TakeObject PROVE Reasons'
<1>1. TypeOK
  BY DEF Inv
<1>2. /\ i \in Nat /\ i + 1 \in DOMAIN objs /\ pc = "next" /\ pc' = "exec"
      /\ obj' = objs[i + 1] /\ objs' = [objs EXCEPT ![i + 1] = 0] /\ i' = i + 1
      /\ UNCHANGED <<req, hostVars, handles, answerVars>>
  BY <1>1 DEF TakeObject, MoveAssign, TypeOK
<1>3. InOrder'
  <2> SUFFICES ASSUME req.verb = "get"
               PROVE  /\ Len(objs') = Len(handles)
                      /\ \A j \in DOMAIN objs' : j > i + 1 => objs'[j] = j
                      /\ obj' = i + 1 /\ i + 1 > 0
    BY <1>2 DEF InOrder
  <2>1. Len(objs) = Len(handles) /\ \A j \in DOMAIN objs : j > i => objs[j] = j
    BY <1>2 DEF Reasons, InOrder
  <2>2. objs \in Seq(0 .. Len(handles))
    BY <1>1 DEF TypeOK
  <2>3. Len(objs') = Len(objs) /\ DOMAIN objs' = DOMAIN objs /\ DOMAIN objs = 1 .. Len(objs)
    BY <1>2, <2>2
  <2> QED
    BY <1>2, <2>1, <2>2, <2>3
<1> QED
  BY <1>2, <1>3 DEF Reasons, UndefinedForAReason, hostVars, answerVars

\* The status that is read, well or not; what follows from a null pointer; and
\* the result that has it.
LEMMA QueryReasons ==
  ASSUME Inv, Reasons, ReadInfo \/ ReadOsType \/ DescribeNetwork \/ ReadBridge \/ Subquery
  PROVE  Reasons'
<1>1. /\ TypeOK /\ req.verb = "get" /\ pc \in {"exec", "os_type", "bridge"}
      /\ obj = i /\ i > 0 /\ Len(objs) = Len(handles)
      /\ UNCHANGED <<req, hostVars, handleVars, i>>
  BY DEF Inv, ReadInfo, ReadOsType, DescribeNetwork, ReadBridge, Subquery, Query, Reasons, InOrder
<1>2. obj \in DOMAIN handles /\ handles[obj] \in Names /\ i \in Nat /\ k \in Nat
  <2>1. handles \in Seq(Names) /\ obj \in 0 .. Len(handles) /\ i \in Nat /\ k \in Nat
    BY <1>1 DEF TypeOK
  <2> QED
    BY <1>1, <2>1
<1>3. ~Here => NotHere
  BY <1>2 DEF Here, NotHere, Reasons
<1>4. CASE pc' \in {"os_type", "bridge"}
  <2>1. /\ pc = "exec" /\ req.sub = "none" /\ UNCHANGED answerVars
        /\ pc' = "os_type" => Domains /\ (info' = "garbage" => NotHere)
        /\ pc' = "bridge" => ~Domains /\ req.search \in Names
    BY <1>3, <1>4 DEF ReadInfo, ReadOsType, DescribeNetwork, ReadBridge, Subquery, Query, Leave
  <2>2. InOrder'
    BY <1>1, <1>4, <2>1 DEF Reasons, InOrder, handleVars
  <2> QED
    BY <1>1, <1>4, <2>1, <2>2 DEF Reasons, UndefinedForAReason, NotHere, Domains, handleVars,
                                  hostVars, answerVars
<1>5. CASE pc' = "undefined"
  <2>1. UNCHANGED answerVars
    BY <1>5 DEF ReadInfo, ReadOsType, DescribeNetwork, ReadBridge, Subquery, Leave
  <2>2. \/ Domains /\ req.sub = "none" /\ NotHere
        \/ /\ ~Domains /\ req.sub = "none" /\ req.search \in Names
           /\ NotHere \/ handles[obj] \in Bridgeless
        \/ req.sub = "list" /\ req.search \in Listed
    BY <1>3, <1>5 DEF ReadInfo, ReadOsType, DescribeNetwork, ReadBridge, Subquery, Leave, Reasons
  <2>3. UndefinedForAReason'
    BY <1>1, <1>2, <2>1, <2>2 DEF Reasons, UndefinedForAReason, NotHere, Domains, handleVars,
                                  hostVars, answerVars
  <2> QED
    BY <1>1, <1>5, <2>1, <2>3 DEF Reasons, InOrder, hostVars, handleVars, answerVars
<1>6. CASE pc' \notin {"undefined", "os_type", "bridge"}
  <2>1. /\ pc' = "next" /\ Here
        /\ Result("read") \/ (Result(info) /\ pc = "os_type")
    BY <1>1, <1>6 DEF ReadInfo, ReadOsType, DescribeNetwork, ReadBridge, Subquery, Leave
  <2>2. PICK what \in {"read", "garbage"} :
          Result(what) /\ (what = "garbage" => handles[obj] \in gone)
    BY <2>1 DEF Inv, Phases, TypeOK, Reasons, NotHere, Here
  <2>3. \A r \in DOMAIN results' :
          \/ r \in DOMAIN results /\ results'[r] = results[r]
          \/ results'[r].what = what /\ results'[r].obj = i
    <3> DEFINE R == [what : {"created", "deleted", "read", "garbage"}, obj : Nat, item : Nat]
               new == [what |-> what, obj |-> i, item |-> k]
    <3>1. results \in Seq(R) /\ results' = Append(results, new)
      BY <1>1, <2>2 DEF TypeOK, Result
    <3>2. new \in R /\ new.what = what /\ new.obj = i
      BY <1>2
    <3> HIDE DEF R, new
    <3> QED
      BY <3>1, <3>2
  <2>4. \A r \in DOMAIN results' : results'[r].what = "garbage" =>
          results'[r].obj \in DOMAIN handles /\ handles[results'[r].obj] \in gone
    BY <1>1, <1>2, <2>2, <2>3 DEF Reasons, UndefinedForAReason
  <2>5. UndefinedForAReason'
    BY <1>1, <2>1, <2>4 DEF UndefinedForAReason, handleVars, hostVars
  <2>6. InOrder'
    BY <1>1, <2>1 DEF Reasons, InOrder, handleVars
  <2> QED
    BY <1>1, <2>1, <2>4, <2>5, <2>6 DEF Reasons, handleVars, hostVars
<1> QED
  BY <1>4, <1>5, <1>6

\* A PATCH of what is no action, or of a request that is no string.
LEMMA AlterReasons == ASSUME Inv, Reasons, AlterUndefined \/ AlterMistyped PROVE Reasons'
<1>1. /\ req.verb = "patch" /\ pc' = "undefined"
      /\ UNCHANGED <<req, hostVars, handleVars, i, k, answerVars>>
  BY DEF AlterUndefined, AlterMistyped, Alter
<1>2. Given \notin Objects \/ (Domains /\ Given = "mistyped")
  <2>1. CASE pc = "items"
    <3>1. Given = req.items[k]
      BY <1>1, <2>1 DEF Given, Reasons
    <3> QED
      BY <2>1, <3>1 DEF AlterUndefined, AlterMistyped, Value, Objects
  <2>2. CASE pc # "items"
    <3>1. pc = "exec" /\ (Domains => req.body \in {"empty", "mistyped"})
          /\ (~Domains => req.body \in {"empty", "string", "null", "array"})
      BY <2>2 DEF AlterUndefined, AlterMistyped, Value
    <3> QED
      BY <3>1 DEF Given, Objects
  <2> QED
    BY <2>1, <2>2
<1>3. Given' = Given /\ Domains' = Domains
  BY <1>1 DEF Given, Domains
<1>4. UndefinedForAReason'
  BY <1>1, <1>2, <1>3 DEF Reasons, UndefinedForAReason, hostVars, handleVars, answerVars
<1> QED
  BY <1>1, <1>4 DEF Reasons, InOrder, hostVars, handleVars, answerVars

\* Every other step is one of ReasonsKept.
LEMMA OtherReasons ==
  ASSUME Inv, Reasons,
         \/ Others \/ Refuse \/ Open \/ SkipResolve \/ ResolveBad \/ ListThrows
         \/ NoMoreObjects \/ Return \/ StartItems
         \/ BadBody \/ EndItems \/ Create \/ CreateFails \/ CreateRefused \/ SkipItem
         \/ AlterDomain \/ AlterMistypedRefused \/ AlterNetwork
         \/ DescribeFails \/ SubqueryFails \/ UnknownSubquery
         \/ BadOption \/ Undefine \/ UndefineFails
  PROVE  Reasons'
<1>1. TypeOK /\ Names \ world \subseteq gone
  BY DEF Inv, Reasons
<1>2. CASE Others
  <2>1. /\ UNCHANGED <<req, pc, handleVars, i, info, answerVars>>
        /\ pc # "undefined" /\ (daemon' => daemon)
        /\ gone \subseteq gone' /\ Names \ world' \subseteq gone'
    BY <1>1, <1>2 DEF Others, Vanish, Appear, LoseDaemon, Running
  <2> QED
    BY <2>1, ReasonsKept DEF handleVars, answerVars
<1>3. CASE Refuse \/ Open \/ SkipResolve \/ ResolveBad \/ ListThrows \/ NoMoreObjects \/ StartItems
  <2>1. /\ UNCHANGED <<req, hostVars, handles, objs, obj, i>> /\ results' = results
        /\ pc' \in {"received", "resolve"} => pc \in {"received", "resolve"}
        /\ pc' = "items" => req.body = "array" /\ req.verb # "get" /\ (req.verb = "patch" => Domains)
        /\ pc' = "exec" => req.verb # "get"
        /\ pc' = "next" => pc = "resolve"
        /\ pc' \notin {"undefined", "os_type", "bridge"}
    BY <1>3 DEF Refuse, Open, SkipResolve, ResolveBad, ListThrows, NoMoreObjects, StartItems,
                Items, Single, Error, handleVars, answerVars
  <2> QED
    BY <1>1, <2>1, ReasonsKept DEF hostVars
<1>4. CASE Return
  <2>1. /\ UNCHANGED <<req, hostVars, handles, i>> /\ results' = results /\ pc' = "done"
    BY <1>4 DEF Return, answerVars
  <2> QED
    BY <1>1, <2>1, ReasonsKept DEF hostVars
<1>5. CASE \/ BadBody \/ EndItems \/ CreateFails \/ CreateRefused \/ SkipItem
           \/ AlterDomain \/ AlterMistypedRefused \/ AlterNetwork
           \/ DescribeFails \/ SubqueryFails \/ UnknownSubquery \/ BadOption \/ UndefineFails
  <2>1. /\ UNCHANGED <<req, hostVars, handles, objs, i>> /\ results' = results
        /\ obj' = obj \/ req.verb = "post"
    <3>1. CASE BadBody \/ EndItems \/ CreateFails \/ CreateRefused \/ SkipItem
      BY <3>1 DEF BadBody, EndItems, CreateFails, CreateRefused, SkipItem, Error, handleVars,
                  answerVars
    <3>2. CASE AlterDomain \/ AlterMistypedRefused \/ AlterNetwork
      BY <3>2 DEF AlterDomain, AlterMistypedRefused, AlterNetwork, Error, handleVars, answerVars
    <3>3. CASE DescribeFails \/ SubqueryFails \/ UnknownSubquery \/ BadOption \/ UndefineFails
      BY <3>3 DEF DescribeFails, SubqueryFails, UnknownSubquery, BadOption, UndefineFails, Error,
                  handleVars, answerVars
    <3> QED
      BY <1>5, <3>1, <3>2, <3>3
  <2>2. pc \in {"exec", "items"} /\ \E oc : Resume(oc) \/ Leave(oc)
    <3>1. CASE BadBody \/ EndItems \/ SkipItem
      BY <3>1 DEF BadBody, EndItems, SkipItem
    <3>2. CASE CreateFails
      BY <3>2 DEF CreateFails, Value
    <3>3. CASE CreateRefused
      BY <3>3 DEF CreateRefused, Value
    <3>4. CASE AlterDomain \/ AlterMistypedRefused \/ AlterNetwork
      BY <3>4 DEF AlterDomain, AlterMistypedRefused, AlterNetwork, Value
    <3>5. CASE DescribeFails \/ SubqueryFails \/ UnknownSubquery \/ BadOption \/ UndefineFails
      BY <3>5 DEF DescribeFails, SubqueryFails, UnknownSubquery, BadOption, UndefineFails,
                  Query, Vacuum
    <3> QED
      BY <1>5, <3>1, <3>2, <3>3, <3>4, <3>5
  <2>3. pc' \in {"items", "next", "return"} /\ (pc' = "items" => pc = "items")
    BY <2>2 DEF Resume, Leave
  <2> QED
    BY <1>1, <2>1, <2>2, <2>3, ReasonsKept DEF hostVars
<1>6. CASE Create \/ Undefine
  <2>1. PICK what \in {"created", "deleted"} : Result(what)
    BY <1>6 DEF Create, Undefine
  <2>2. \A r \in DOMAIN results' :
          results'[r].what = "garbage" => r \in DOMAIN results /\ results'[r] = results[r]
    BY <1>1, <2>1, ResultAdded
  <2>3. /\ pc \in {"exec", "items"} /\ pc' \in {"items", "next", "return"}
        /\ pc' = "items" => pc = "items"
    BY <1>6 DEF Create, Undefine, Vacuum, Value, Resume, Leave
  <2>4. /\ UNCHANGED <<req, objs, i>> /\ daemon' = daemon
        /\ gone \subseteq gone' /\ Names \ world' \subseteq gone'
        /\ handles' = handles \/ req.verb = "post"
        /\ obj' = obj \/ req.verb = "post"
    BY <1>1, <1>6 DEF Create, Undefine, handleVars
  <2> QED
    BY <2>2, <2>3, <2>4, ReasonsKept
<1> QED
  BY <1>2, <1>3, <1>4, <1>5, <1>6

\* What is undefined, or was never read, has a cause in the world, in the request
\* or in the few places of the code that are named, for any number of objects and
\* however they come and go.
THEOREM UndefinedHasReason == Spec => []UndefinedForAReason
<1>1. Init => Reasons
  BY DEF Init, Reasons, InOrder, UndefinedForAReason
<1>2. Inv /\ Answered /\ Reasons /\ [Next]_vars => Reasons'
  <2> SUFFICES ASSUME Inv, Answered, Reasons, [Next]_vars PROVE Reasons'
    OBVIOUS
  <2>1. CASE Step
    BY <2>1, ResolveReasons, TakeReasons, QueryReasons, AlterReasons, OtherReasons DEF Step
  <2>2. CASE Others
    BY <2>2, OtherReasons
  <2>3. CASE UNCHANGED vars
    BY <2>3 DEF Reasons, InOrder, UndefinedForAReason, NotHere, Given, Domains, vars, hostVars,
                handleVars, answerVars
  <2> QED
    BY <2>1, <2>2, <2>3 DEF Next
<1>3. Reasons => UndefinedForAReason
  BY DEF Reasons
<1> QED
  BY <1>1, <1>2, <1>3, Invariance, AnsweredHolds, PTL DEF Spec

-----------------------------------------------------------------------------
\* What has been reported on each object, and on each item, when the loops are
\* where they are.  No item is worked on but by a POST or a PATCH.
Places ==
  /\ pc \in {"received", "resolve"} => k = 0
  /\ pc = "next" => req.verb # "post"

ObjectsDone ==
  req.verb \in {"get", "delete"} /\ req.sub # "unknown" =>
    /\ k = 0 /\ pc # "items"
    /\ pc \in {"return", "done"} => i = Len(objs)
    /\ \A o \in Nat \ {0} :
         /\ pc \in {"next", "return", "done"} => Reports(o, 0) = IF o <= i THEN 1 ELSE 0
         /\ pc \in {"exec", "os_type", "bridge"} => Reports(o, 0) = IF o < i THEN 1 ELSE 0

Accounted(n) ==
  \/ Reports(0, n) = 1
  \/ Domains /\ req.items[n] \in Objects /\ Reports(0, n) = 0
  \/ ~Domains /\ Reports(0, n) = 0 /\ \E e \in DOMAIN errors : errors[e].item < n

ItemsDone ==
  req.verb = "post" /\ req.body = "array" =>
    /\ pc = "items" =>
         \A n \in DOMAIN req.items : IF n < k THEN Accounted(n) ELSE Reports(0, n) = 0
    /\ pc \in {"return", "done"} /\ conn # "none" =>
         \A n \in DOMAIN req.items : Accounted(n)

Accounts == Places /\ ObjectsDone /\ ItemsDone

\* The reports on one place, in one of the two lists.
At(q, o, n) == {r \in DOMAIN q : q[r].obj = o /\ q[r].item = n}

LEMMA ReportsAt ==
  ASSUME NEW o, NEW n
  PROVE  /\ Reports(o, n) = Cardinality(At(results, o, n)) + Cardinality(At(errors, o, n))
         /\ Reports(o, n)' = Cardinality(At(results', o, n)) + Cardinality(At(errors', o, n))
BY DEF Reports, At

LEMMA NumberAt ==
  ASSUME NEW S, NEW q \in Seq(S), NEW o, NEW n
  PROVE  IsFiniteSet(At(q, o, n)) /\ Cardinality(At(q, o, n)) \in Nat
<1>1. Len(q) \in Nat /\ DOMAIN q = 1 .. Len(q)
  OBVIOUS
<1>2. IsFiniteSet(1 .. Len(q)) /\ At(q, o, n) \subseteq 1 .. Len(q)
  BY <1>1, FS_Interval DEF At
<1> QED
  BY <1>2, FS_Subset, FS_CardinalityType

\* A report that is appended counts on its place and on no other.
LEMMA OneMore ==
  ASSUME NEW S, NEW q \in Seq(S), NEW x \in S, NEW o, NEW n
  PROVE  Cardinality(At(Append(q, x), o, n)) =
           Cardinality(At(q, o, n)) + IF x.obj = o /\ x.item = n THEN 1 ELSE 0
<1> DEFINE A == At(q, o, n)
           B == At(Append(q, x), o, n)
           last == Len(q) + 1
<1>1. Len(q) \in Nat /\ DOMAIN q = 1 .. Len(q)
  OBVIOUS
<1>2. IsFiniteSet(A) /\ Cardinality(A) \in Nat
  BY NumberAt
<1>3. /\ DOMAIN Append(q, x) = 1 .. last
      /\ Append(q, x)[last] = x
      /\ \A r \in 1 .. Len(q) : Append(q, x)[r] = q[r]
  BY <1>1
<1>4. last \notin A
  BY <1>1 DEF At
<1>5. CASE x.obj = o /\ x.item = n
  <2>1. B = A \cup {last}
    BY <1>1, <1>3, <1>5 DEF At
  <2> HIDE DEF A, B, last
  <2>2. Cardinality(B) = Cardinality(A) + 1
    BY <1>2, <1>4, <2>1, FS_AddElement
  <2> QED
    BY <1>2, <1>5, <2>2 DEF A, B
<1>6. CASE ~(x.obj = o /\ x.item = n)
  <2>1. B = A
    BY <1>1, <1>3, <1>6 DEF At
  <2> QED
    BY <1>2, <1>6, <2>1
<1> QED
  BY <1>5, <1>6

\* A handler's one report, whichever it is, is on the place the loops are at.
Report ==
  (\E c \in Int : Error(<<c>>))
    \/ \E what \in {"created", "deleted", "read", "garbage"} : Result(what)

LEMMA Reported ==
  ASSUME TypeOK, Report, NEW o, NEW n
  PROVE  /\ Reports(o, n) \in Nat
         /\ Reports(o, n)' = Reports(o, n) + IF o = i /\ n = k THEN 1 ELSE 0
<1> DEFINE E == [code : Int, obj : Nat, item : Nat]
           R == [what : {"created", "deleted", "read", "garbage"}, obj : Nat, item : Nat]
<1>1. i \in Nat /\ k \in Nat /\ errors \in Seq(E) /\ results \in Seq(R)
  BY DEF TypeOK
<1>2. CASE \E c \in Int : Error(<<c>>)
  <2>1. PICK c \in Int : Error(<<c>>)
    BY <1>2
  <2> DEFINE x == [code |-> c, obj |-> i, item |-> k]
  <2>2. x \in E /\ x.obj = i /\ x.item = k
    BY <1>1
  <2>3. errors' = Append(errors, x) /\ results' = results
    <3>1. errors' = errors \o [j \in DOMAIN <<c>> |-> [code |-> <<c>>[j], obj |-> i, item |-> k]]
      BY <2>1 DEF Error
    <3>2. [j \in DOMAIN <<c>> |-> [code |-> <<c>>[j], obj |-> i, item |-> k]] = <<x>>
      OBVIOUS
    <3>3. errors \o <<x>> = Append(errors, x)
      BY <1>1, <2>2
    <3> QED
      BY <2>1, <3>1, <3>2, <3>3 DEF Error
  <2> HIDE DEF x, E, R
  <2>4. /\ Cardinality(At(results, o, n)) \in Nat
        /\ Cardinality(At(errors, o, n)) \in Nat
        /\ Cardinality(At(errors', o, n)) =
             Cardinality(At(errors, o, n)) + IF o = i /\ n = k THEN 1 ELSE 0
    <3>1. Cardinality(At(results, o, n)) \in Nat /\ Cardinality(At(errors, o, n)) \in Nat
      BY <1>1, NumberAt
    <3>2. Cardinality(At(Append(errors, x), o, n)) =
            Cardinality(At(errors, o, n)) + IF x.obj = o /\ x.item = n THEN 1 ELSE 0
      BY <1>1, <2>2, OneMore
    <3> QED
      BY <2>2, <2>3, <3>1, <3>2
  <2> QED
    BY <2>3, <2>4, ReportsAt
<1>3. CASE \E what \in {"created", "deleted", "read", "garbage"} : Result(what)
  <2>1. PICK what \in {"created", "deleted", "read", "garbage"} : Result(what)
    BY <1>3
  <2> DEFINE x == [what |-> what, obj |-> i, item |-> k]
  <2>2. x \in R /\ x.obj = i /\ x.item = k
    BY <1>1
  <2>3. results' = Append(results, x) /\ errors' = errors
    BY <2>1 DEF Result
  <2> HIDE DEF x, E, R
  <2>4. /\ Cardinality(At(errors, o, n)) \in Nat
        /\ Cardinality(At(results, o, n)) \in Nat
        /\ Cardinality(At(results', o, n)) =
             Cardinality(At(results, o, n)) + IF o = i /\ n = k THEN 1 ELSE 0
    <3>1. Cardinality(At(results, o, n)) \in Nat /\ Cardinality(At(errors, o, n)) \in Nat
      BY <1>1, NumberAt
    <3>2. Cardinality(At(Append(results, x), o, n)) =
            Cardinality(At(results, o, n)) + IF x.obj = o /\ x.item = n THEN 1 ELSE 0
      BY <1>1, <2>2, OneMore
    <3> QED
      BY <2>2, <2>3, <3>1, <3>2
  <2> QED
    BY <2>3, <2>4, ReportsAt
<1> QED
  BY <1>2, <1>3 DEF Report

\* Nothing is reported yet.
LEMMA NoReports ==
  ASSUME NEW o, NEW n
  PROVE  /\ results = <<>> /\ errors = <<>> => Reports(o, n) = 0
         /\ UNCHANGED answerVars => Reports(o, n)' = Reports(o, n)
<1>1. Cardinality(At(<<>>, o, n)) = 0
  BY FS_EmptySet DEF At
<1> QED
  BY <1>1, ReportsAt DEF answerVars

\* Nothing is accounted for of a PATCH, nor of a POST of one value.
LEMMA NotCounted ==
  ASSUME Accounts, UNCHANGED req, pc' \notin {"received", "resolve"},
         req.verb = "patch" \/ (req.verb = "post" /\ req.body # "array" /\ pc' # "next")
  PROVE  Accounts'
BY DEF Accounts, Places, ObjectsDone, ItemsDone

\* An error of a request that is refused as a whole is on no object and no item.
LEMMA RefusalPlace ==
  ASSUME TypeOK, i = 0, k = 0, results = <<>>, errors = <<>>,
         UNCHANGED answerVars \/ \E codes \in Seq(Int) : Error(codes),
         NEW o \in Nat, NEW n \in Nat, o # 0 \/ n # 0
  PROVE  Reports(o, n)' = 0
<1>1. CASE UNCHANGED answerVars
  BY <1>1, NoReports
<1>2. CASE \E codes \in Seq(Int) : Error(codes)
  <2>1. /\ results' = <<>>
        /\ \A e \in DOMAIN errors' : errors'[e].obj = 0 /\ errors'[e].item = 0
    BY <1>2, ErrorsAdded
  <2>2. At(errors', o, n) = {} /\ At(results', o, n) = {}
    BY <2>1 DEF At
  <2>3. Cardinality(At(errors', o, n)) = 0 /\ Cardinality(At(results', o, n)) = 0
    BY <2>2, FS_EmptySet
  <2> QED
    BY <2>3, ReportsAt
<1> QED
  BY <1>1, <1>2

LEMMA FirstError ==
  ASSUME errors = <<>>, NEW c \in Int, Error(<<c>>)
  PROVE  1 \in DOMAIN errors' /\ errors'[1].item = k
<1>1. errors' = <<>> \o [j \in DOMAIN <<c>> |-> [code |-> <<c>>[j], obj |-> i, item |-> k]]
  BY DEF Error
<1>2. [j \in DOMAIN <<c>> |-> [code |-> <<c>>[j], obj |-> i, item |-> k]] =
        <<[code |-> c, obj |-> i, item |-> k]>>
  OBVIOUS
<1>3. errors' = <<[code |-> c, obj |-> i, item |-> k]>>
  BY <1>1, <1>2
<1> QED
  BY <1>3

LEMMA GatesAccounts ==
  ASSUME Inv, Answered, Accounts,
         Refuse \/ Open \/ SkipResolve \/ ResolveBad \/ ResolveOne \/ ResolveAll \/ ListThrows
  PROVE  Accounts'
<1>1. /\ TypeOK /\ pc \in {"received", "resolve"} /\ UNCHANGED <<req, i, k>>
      /\ pc' \in {"return", "resolve", "exec", "next", "threw"}
      /\ pc' \in {"exec", "next"} => (pc' = "exec" <=> req.verb = "post")
      /\ pc' \in {"return", "resolve", "exec"} => objs' = objs
  BY DEF Inv, Refuse, Open, SkipResolve, ResolveBad, ResolveOne, ResolveAll, ListThrows, handleVars
<1>2. i = 0 /\ k = 0 /\ objs = <<>> /\ results = <<>> /\ errors = <<>>
  BY <1>1 DEF Inv, Phases, Answered, NothingYet, Accounts, Places
<1>3. UNCHANGED answerVars \/ \E codes \in Seq(Int) : Error(codes)
  <2>1. CASE Refuse
    <3>1. Refusal \in Int /\ Error(<<Refusal>>)
      BY <2>1 DEF Refuse, Refusal
    <3> QED
      BY <3>1, OneError
  <2>2. CASE ResolveBad
    <3>1. <<101>> \in Seq(Int) /\ <<301, 102>> \in Seq(Int)
      OBVIOUS
    <3> QED
      BY <2>2, <3>1 DEF ResolveBad
  <2>3. CASE Open \/ ResolveOne
    <3>1. UNCHANGED answerVars \/ \E c \in {7, 10, 100} : Error(<<c>>)
      BY <2>3 DEF Open, ResolveOne
    <3> QED
      BY <3>1, OneError
  <2>4. CASE SkipResolve \/ ResolveAll \/ ListThrows
    BY <2>4 DEF SkipResolve, ResolveAll, ListThrows
  <2> QED
    BY <2>1, <2>2, <2>3, <2>4
<1>4. \A o \in Nat, n \in Nat : o # 0 \/ n # 0 => Reports(o, n)' = 0
  BY <1>1, <1>2, <1>3, RefusalPlace
<1>5. Places'
  BY <1>1, <1>2 DEF Places
<1>6. ObjectsDone'
  <2>1. pc' = "return" => i' = Len(objs')
    BY <1>1, <1>2
  <2>2. \A o \in Nat \ {0} : Reports(o, 0)' = 0 /\ ~(o <= i')
    BY <1>1, <1>2, <1>4
  <2> QED
    BY <1>1, <1>2, <2>1, <2>2 DEF ObjectsDone
<1>7. ItemsDone'
  <2> SUFFICES ASSUME pc' = "return", conn' # "none", NEW n \in DOMAIN req.items
               PROVE  Accounted(n)'
    BY <1>1 DEF ItemsDone
  <2>1. ~Domains /\ Error(<<7>>)
    BY DEF Refuse, Open, SkipResolve, ResolveBad, ResolveOne, ResolveAll, ListThrows, Inv, Phases,
           handleVars, Domains
  <2>2. 1 \in DOMAIN errors' /\ errors'[1].item = 0
    BY <1>2, <2>1, FirstError
  <2>3. n \in Nat /\ n > 0
    BY DEF Inv, TypeOK, Request
  <2>4. Reports(0, n)' = 0
    BY <1>4, <2>3
  <2>5. Domains' = Domains
    BY <1>1 DEF Domains
  <2> QED
    BY <2>1, <2>2, <2>3, <2>4, <2>5 DEF Accounted
<1> QED
  BY <1>5, <1>6, <1>7 DEF Accounts

\* Nothing is reported between two objects.
LEMMA LoopAccounts ==
  ASSUME Inv, Answered, Accounts, TakeObject \/ NoMoreObjects \/ Return
  PROVE  Accounts'
<1>1. /\ UNCHANGED <<req, k, answerVars>> /\ i \in 0 .. Len(objs) /\ Len(objs) \in Nat
      /\ \A o, n : Reports(o, n)' = Reports(o, n)
  BY NoReports DEF TakeObject, NoMoreObjects, Return, Inv, TypeOK
<1>2. errors' = errors /\ Domains' = Domains /\ \A n : Accounted(n)' <=> Accounted(n)
  BY <1>1 DEF answerVars, Domains, Accounted
<1>3. CASE TakeObject
  <2>1. pc = "next" /\ pc' = "exec" /\ i' = i + 1 /\ req.verb # "post"
    BY <1>3 DEF TakeObject, Accounts, Places
  <2>2. \A o \in Nat : o <= i <=> o < i'
    BY <1>1, <2>1
  <2> QED
    BY <1>1, <2>1, <2>2 DEF Accounts, Places, ObjectsDone, ItemsDone
<1>4. CASE NoMoreObjects
  <2>1. pc = "next" /\ pc' = "return" /\ i' = i /\ objs' = objs /\ i = Len(objs)
    BY <1>1, <1>4 DEF NoMoreObjects, handleVars
  <2>2. req.verb # "post"
    BY <2>1 DEF Accounts, Places
  <2> QED
    BY <1>1, <2>1, <2>2 DEF Accounts, Places, ObjectsDone, ItemsDone
<1>5. CASE Return
  <2>1. /\ pc = "return" /\ pc' = "done" /\ i' = i
        /\ objs' = [j \in DOMAIN objs |-> 0]
        /\ conn' # "none" => conn # "none"
    BY <1>5 DEF Return
  <2>2. Len(objs') = Len(objs)
    BY <2>1 DEF Inv, TypeOK
  <2> QED
    BY <1>1, <1>2, <2>1, <2>2 DEF Accounts, Places, ObjectsDone, ItemsDone
<1> QED
  BY <1>3, <1>4, <1>5

\* A handler of an object reports once on it and returns.
LEMMA ObjectReported ==
  ASSUME Inv, Accounts, req.verb \in {"get", "delete"}, pc \in {"exec", "os_type", "bridge"},
         UNCHANGED <<req, objs, i>>, NEW oc, Leave(oc), Report
  PROVE  Accounts'
<1>1. TypeOK /\ i \in Nat /\ pc' = "next" /\ k' = 0
  BY DEF Inv, TypeOK, Leave
<1>2. \A o \in Nat : Reports(o, 0) \in Nat
                       /\ Reports(o, 0)' = Reports(o, 0) + IF o = i /\ 0 = k THEN 1 ELSE 0
  BY <1>1, Reported
<1>3. ASSUME req.sub # "unknown", NEW o \in Nat \ {0}
      PROVE  Reports(o, 0)' = IF o <= i THEN 1 ELSE 0
  <2>1. k = 0 /\ Reports(o, 0) = IF o < i THEN 1 ELSE 0
    BY <1>3 DEF Accounts, ObjectsDone
  <2>2. Reports(o, 0)' = Reports(o, 0) + IF o = i THEN 1 ELSE 0
    BY <1>2, <2>1
  <2> QED
    BY <1>1, <2>1, <2>2
<1> QED
  BY <1>1, <1>3 DEF Accounts, Places, ObjectsDone, ItemsDone

\* The status was read, or what was done is undefined: no report yet.
LEMMA StayAccounts ==
  ASSUME Inv, Answered, Accounts,
         \/ StartItems \/ ReadInfo \/ AlterUndefined \/ AlterMistyped
         \/ /\ ReadOsType \/ DescribeNetwork \/ ReadBridge \/ Subquery
            /\ pc' \in {"undefined", "bridge"}
  PROVE  Accounts'
<1>1. /\ UNCHANGED <<req, i, answerVars>>
      /\ \A o, n : Reports(o, n)' = Reports(o, n)
  BY NoReports DEF StartItems, ReadInfo, AlterUndefined, AlterMistyped, ReadOsType,
     DescribeNetwork, ReadBridge, Subquery, Result, Leave
<1>2. CASE StartItems
  <2>1. pc = "exec" /\ pc' = "items" /\ k' = 1 /\ req.verb \notin {"get", "delete"}
    BY <1>2 DEF StartItems, Items, Single
  <2>2. ASSUME req.verb = "post", NEW n \in DOMAIN req.items
        PROVE  ~(n < k') /\ Reports(0, n)' = 0
    <3>1. results = <<>> /\ errors = <<>>
      BY <2>1, <2>2 DEF Answered, NothingYet
    <3>2. n \in Nat /\ n > 0
      BY <2>2 DEF Inv, TypeOK, Request
    <3> QED
      BY <1>1, <2>1, <3>1, <3>2, NoReports
  <2> QED
    BY <1>1, <2>1, <2>2 DEF Accounts, Places, ObjectsDone, ItemsDone
<1>3. CASE ReadInfo \/ (DescribeNetwork /\ pc' = "bridge")
  <2>1. pc = "exec" /\ pc' \in {"os_type", "bridge"} /\ k' = k /\ UNCHANGED objs /\ req.verb = "get"
    BY <1>3 DEF ReadInfo, DescribeNetwork, Query, Leave, handleVars
  <2> QED
    BY <1>1, <2>1 DEF Accounts, Places, ObjectsDone, ItemsDone
<1>4. CASE pc' = "undefined"
  <2>1. k' = k
    BY <1>4 DEF StartItems, ReadInfo, AlterUndefined, AlterMistyped, ReadOsType, DescribeNetwork,
       ReadBridge, Subquery, Result, Leave
  <2> QED
    BY <1>1, <1>4, <2>1 DEF Accounts, Places, ObjectsDone, ItemsDone
<1> QED
  BY <1>2, <1>3, <1>4 DEF AlterUndefined, AlterMistyped, ReadOsType, ReadBridge, Subquery, Leave

LEMMA ObjectsAccounts ==
  ASSUME Inv, Answered, Accounts,
         \/ ReadOsType \/ DescribeNetwork \/ ReadBridge \/ DescribeFails \/ Subquery
         \/ SubqueryFails \/ UnknownSubquery \/ BadOption \/ Undefine \/ UndefineFails
  PROVE  Accounts'
<1> HIDE DEF Inv
<1>1. pc \in {"exec", "os_type", "bridge"} /\ UNCHANGED <<req, objs, i>>
  BY DEF ReadOsType, DescribeNetwork, ReadBridge, DescribeFails, Subquery, SubqueryFails,
         UnknownSubquery, BadOption, Undefine, UndefineFails, Query, Vacuum, handleVars
<1>2. CASE /\ ReadOsType \/ DescribeNetwork \/ ReadBridge \/ Subquery
           /\ pc' \in {"undefined", "bridge"}
  BY <1>2, StayAccounts
<1>3. CASE UnknownSubquery
  BY <1>1, <1>3 DEF UnknownSubquery, Query, Leave, Accounts, Places, ObjectsDone, ItemsDone
<1>4. CASE (ReadOsType \/ ReadBridge) /\ pc' # "undefined"
  <2>1. Leave("SUCCESS") /\ ((Result(info) /\ pc = "os_type") \/ (Result("read") /\ pc = "bridge"))
    BY <1>4 DEF ReadOsType, ReadBridge
  <2>2. (pc = "os_type" => info \in {"read", "garbage"}) /\ req.verb # "post"
    BY <2>1 DEF Inv, TypeOK, Phases, Answered, PlaceOf
  <2>3. Report
    BY <2>1, <2>2 DEF Report
  <2>4. req.verb \in {"get", "delete", "patch"}
    BY <2>2 DEF Inv, TypeOK, Request
  <2>5. CASE req.verb = "patch"
    BY <1>1, <2>1, <2>5, NotCounted DEF Leave
  <2> QED
    BY <1>1, <2>1, <2>3, <2>4, <2>5, ObjectReported
<1>5. CASE (DescribeNetwork \/ Subquery) /\ pc' \notin {"undefined", "bridge"}
  <2>1. Leave("SUCCESS") /\ Result("read") /\ req.verb = "get"
    BY <1>5 DEF DescribeNetwork, Subquery, Query
  <2>2. Report
    BY <2>1 DEF Report
  <2> QED
    BY <1>1, <2>1, <2>2, ObjectReported
<1>6. CASE DescribeFails \/ SubqueryFails \/ BadOption \/ UndefineFails
  <2>1. Leave("FAILURE") /\ req.verb \in {"get", "delete"}
    BY <1>6 DEF DescribeFails, SubqueryFails, BadOption, UndefineFails, Query, Vacuum
  <2>2. \E c \in {500, 301, 201, -2, 216, -999} : Error(<<c>>)
    BY <1>6, SubqueryCodes DEF DescribeFails, BadOption, UndefineFails
  <2>3. Report
    BY <2>2 DEF Report
  <2> QED
    BY <1>1, <2>1, <2>3, ObjectReported
<1>7. CASE Undefine
  <2>1. Leave("SUCCESS") /\ Result("deleted") /\ req.verb = "delete"
    BY <1>7 DEF Undefine, Vacuum
  <2>2. Report
    BY <2>1 DEF Report
  <2> QED
    BY <1>1, <2>1, <2>2, ObjectReported
<1> QED
  BY <1>2, <1>3, <1>4, <1>5, <1>6, <1>7

\* An item of a POST is reported once, or left out by check_depends(), and the
\* loop goes on; or it is the network that fails, and the loop ends.
LEMMA ItemReported ==
  ASSUME Inv, Answered, Accounts, req.verb = "post", req.body = "array",
         pc = "items", k <= Len(req.items), UNCHANGED <<req, i>>,
         NEW oc, Resume(oc) \/ (Leave(oc) /\ ~Domains /\ \E c \in Int : Error(<<c>>)),
         Report \/ (UNCHANGED answerVars /\ Domains /\ req.items[k] \in Objects)
  PROVE  Accounts'
<1>1. /\ TypeOK /\ i = 0 /\ k \in Nat /\ k > 0 /\ req \in Request
      /\ Len(req.items) \in Nat /\ DOMAIN req.items = 1 .. Len(req.items)
      /\ Domains' = Domains
  BY DEF Inv, TypeOK, Request, Answered, PlaceOf, Domains
<1>2. ~Domains => errors = <<>>
  BY DEF Answered, NothingYet
<1>3. PICK j \in DOMAIN req.items : j = k /\ j \in Nat
  BY <1>1
<1>4. ASSUME NEW n \in DOMAIN req.items
      PROVE  /\ n # j => Reports(0, n)' = Reports(0, n)
             /\ Report /\ n = j /\ Reports(0, n) = 0 => Reports(0, n)' = 1
             /\ UNCHANGED answerVars => Reports(0, n)' = Reports(0, n)
  <2>1. ASSUME Report
        PROVE  /\ Reports(0, n) \in Nat
               /\ Reports(0, n)' = Reports(0, n) + IF 0 = i /\ n = k THEN 1 ELSE 0
    BY <1>1, <2>1, Reported
  <2>2. UNCHANGED answerVars => Reports(0, n)' = Reports(0, n)
    BY NoReports
  <2> QED
    BY <1>1, <1>3, <2>1, <2>2
<1>5. \A n \in DOMAIN req.items : IF n < k THEN Accounted(n) ELSE Reports(0, n) = 0
  BY DEF Accounts, ItemsDone
<1>6. ASSUME NEW n \in DOMAIN req.items, n < j PROVE Accounted(n)'
  <2>1. \/ Reports(0, n) = 1
        \/ Domains /\ req.items[n] \in Objects /\ Reports(0, n) = 0
    BY <1>2, <1>3, <1>5, <1>6 DEF Accounted
  <2>2. Reports(0, n)' = Reports(0, n)
    BY <1>1, <1>3, <1>4, <1>6
  <2> QED
    BY <1>1, <2>1, <2>2 DEF Accounted
<1>7. Accounted(j)'
  <2>1. Reports(0, j) = 0
    BY <1>1, <1>3, <1>5
  <2>2. Reports(0, j)' = 1 \/ (Domains /\ req.items[j] \in Objects /\ Reports(0, j)' = 0)
    BY <1>3, <1>4, <2>1
  <2> QED
    BY <1>1, <2>2 DEF Accounted
<1>8. ASSUME NEW n \in DOMAIN req.items, n > j PROVE Reports(0, n)' = 0
  BY <1>1, <1>3, <1>4, <1>5, <1>8
<1>9. \A n \in DOMAIN req.items : n < j \/ n = j \/ n > j
  BY <1>1, <1>3
<1>10. CASE Resume(oc)
  <2>1. pc' = "items" /\ k' = j + 1
    BY <1>3, <1>10 DEF Resume
  <2>2. ASSUME NEW n \in DOMAIN req.items
        PROVE  IF n < k' THEN Accounted(n)' ELSE Reports(0, n)' = 0
    <3>1. IF n < k' THEN n < j \/ n = j ELSE n > j
      BY <1>1, <1>3, <2>1
    <3> QED
      BY <1>6, <1>7, <1>8, <3>1
  <2> QED
    BY <2>1, <2>2 DEF Accounts, Places, ObjectsDone, ItemsDone
<1>11. CASE Leave(oc) /\ ~Domains /\ \E c \in Int : Error(<<c>>)
  <2>1. pc' = "return"
    BY <1>11 DEF Leave
  <2>2. 1 \in DOMAIN errors' /\ errors'[1].item = j
    BY <1>2, <1>3, <1>11, FirstError
  <2>3. ASSUME NEW n \in DOMAIN req.items PROVE Accounted(n)'
    <3>1. CASE n > j
      BY <1>1, <1>8, <1>11, <2>2, <3>1 DEF Accounted
    <3> QED
      BY <1>6, <1>7, <1>9, <3>1
  <2> QED
    BY <2>1, <2>3 DEF Accounts, Places, ObjectsDone, ItemsDone
<1> QED
  BY <1>10, <1>11

LEMMA ItemsAccounts ==
  ASSUME Inv, Answered, Accounts,
         \/ BadBody \/ EndItems \/ Create \/ CreateFails \/ CreateRefused \/ SkipItem
         \/ AlterDomain \/ AlterMistypedRefused \/ AlterNetwork
  PROVE  Accounts'
<1> HIDE DEF Inv
<1>1. /\ pc \in {"exec", "items"} /\ UNCHANGED <<req, i>>
      /\ \E oc : Resume(oc) \/ Leave(oc)
  <2>1. CASE BadBody \/ EndItems \/ SkipItem
    BY <2>1 DEF BadBody, EndItems, SkipItem
  <2>2. CASE Create \/ CreateFails
    BY <2>2 DEF Create, CreateFails, Value
  <2>3. CASE CreateRefused
    BY <2>3 DEF CreateRefused, Value
  <2>4. CASE AlterDomain \/ AlterMistypedRefused \/ AlterNetwork
    BY <2>4 DEF AlterDomain, AlterMistypedRefused, AlterNetwork, Value
  <2> QED
    BY <2>1, <2>2, <2>3, <2>4
<1>2. /\ pc' \in {"items", "next", "return"}
      /\ req.verb = "post" => pc' # "next"
  BY <1>1 DEF Resume, Leave
<1>3. req.verb \in {"post", "get", "patch", "delete"}
  BY DEF Inv, TypeOK, Request
<1>4. CASE req.verb = "patch" \/ (req.verb = "post" /\ req.body # "array")
  BY <1>1, <1>2, <1>4, NotCounted
<1>5. CASE req.verb \in {"get", "delete"}
  <2>1. EndItems \/ SkipItem
    BY <1>5 DEF BadBody, EndItems, Create, CreateFails, CreateRefused, SkipItem, AlterDomain,
       AlterMistypedRefused, AlterNetwork, Alter, Single
  <2>2. pc = "items"
    BY <2>1 DEF EndItems, SkipItem
  <2> QED
    BY <1>1, <1>2, <1>5, <2>2 DEF Accounts, Places, ObjectsDone, ItemsDone
<1>6. CASE req.verb = "post" /\ req.body = "array"
  <2>1. ~AlterDomain /\ ~AlterMistypedRefused /\ ~AlterNetwork /\ ~BadBody
    BY <1>6 DEF AlterDomain, AlterMistypedRefused, AlterNetwork, Alter, BadBody, Items
  <2>2. CASE EndItems
    <3>1. pc = "items" /\ k > Len(req.items) /\ UNCHANGED answerVars /\ pc' = "return"
      BY <1>6, <2>2 DEF EndItems, Leave
    <3>2. \A n \in DOMAIN req.items : n < k
      <4>1. k \in Nat /\ Len(req.items) \in Nat /\ DOMAIN req.items = 1 .. Len(req.items)
        BY DEF Inv, TypeOK, Request
      <4> QED
        BY <3>1, <4>1
    <3>3. \A n \in DOMAIN req.items : Accounted(n)
      BY <1>6, <3>1, <3>2 DEF Accounts, ItemsDone
    <3>4. \A n : Reports(0, n)' = Reports(0, n)
      BY <3>1, NoReports
    <3>5. \A n \in DOMAIN req.items : Accounted(n)'
      BY <1>1, <3>1, <3>3, <3>4 DEF Accounted, Domains, answerVars
    <3> QED
      BY <1>1, <1>6, <3>1, <3>5 DEF Accounts, Places, ObjectsDone, ItemsDone
  <2>3. CASE Create \/ CreateFails \/ CreateRefused \/ SkipItem
    <3>1. pc = "items" /\ k <= Len(req.items)
      BY <1>6, <2>3 DEF Create, CreateFails, CreateRefused, SkipItem, Value, Objects
    <3>2. CASE Create
      <4>1. Resume("SUCCESS") /\ Report
        BY <3>2 DEF Create, Report
      <4> QED
        BY <1>1, <1>6, <3>1, <4>1, ItemReported
    <3>3. CASE CreateFails
      <4>1. /\ \E c \in Int : Error(<<c>>)
            /\ Resume("FAILURE") \/ (Leave("FAILURE") /\ ~Domains)
        BY <3>3 DEF CreateFails
      <4> QED
        BY <1>1, <1>6, <3>1, <4>1, ItemReported DEF Report
    <3>4. CASE CreateRefused
      <4>1. /\ \E c \in {-999, 0, -1} : Error(<<c>>)
            /\ Resume("FAILURE") \/ (Leave("FAILURE") /\ ~Domains)
        BY <3>4 DEF CreateRefused
      <4>2. \E c \in Int : Error(<<c>>)
        BY <4>1
      <4> QED
        BY <1>1, <1>6, <3>1, <4>1, <4>2, ItemReported DEF Report
    <3>5. CASE SkipItem
      <4>1. /\ Resume(outcome) /\ Domains /\ req.items[k] \in Objects
            /\ UNCHANGED answerVars \/ Error(<<0>>)
        BY <1>6, <3>1, <3>5 DEF SkipItem, Value
      <4>2. Report \/ UNCHANGED answerVars
        BY <4>1 DEF Report
      <4> QED
        BY <1>1, <1>6, <3>1, <4>1, <4>2, ItemReported
    <3> QED
      BY <2>3, <3>2, <3>3, <3>4, <3>5
  <2> QED
    BY <2>1, <2>2, <2>3
<1> QED
  BY <1>3, <1>4, <1>5, <1>6

\* Every object and every item is accounted for, however many there are.
LEMMA AccountsHolds == Spec => []Accounts
<1>1. Init => Accounts
  BY DEF Init, Accounts, Places, ObjectsDone, ItemsDone
<1>2. Inv /\ Answered /\ Accounts /\ [Next]_vars => Accounts'
  <2> SUFFICES ASSUME Inv, Answered, Accounts, [Next]_vars PROVE Accounts'
    OBVIOUS
  <2>1. CASE Step
    <3>1. \/ Refuse \/ Open \/ SkipResolve \/ ResolveBad \/ ResolveOne \/ ResolveAll
          \/ ListThrows \/ TakeObject \/ NoMoreObjects \/ Return
          => Accounts'
      BY GatesAccounts, LoopAccounts
    <3>2. \/ StartItems \/ ReadInfo \/ AlterUndefined \/ AlterMistyped
          \/ BadBody \/ EndItems \/ Create \/ CreateFails \/ CreateRefused \/ SkipItem
          \/ AlterDomain \/ AlterMistypedRefused \/ AlterNetwork
          => Accounts'
      BY StayAccounts, ItemsAccounts
    <3>3. \/ ReadOsType \/ DescribeNetwork \/ ReadBridge \/ DescribeFails \/ Subquery
          \/ SubqueryFails \/ UnknownSubquery \/ BadOption \/ Undefine \/ UndefineFails
          => Accounts'
      BY ObjectsAccounts
    <3> QED
      BY <2>1, <3>1, <3>2, <3>3 DEF Step
  <2>2. CASE Others \/ UNCHANGED vars
    <3>1. UNCHANGED <<req, pc, handleVars, i, k, answerVars>>
      BY <2>2 DEF Others, Vanish, Appear, LoseDaemon, vars
    <3>2. \A o, n : Reports(o, n)' = Reports(o, n)
      BY <3>1, NoReports
    <3>3. \A n : Accounted(n)' <=> Accounted(n)
      BY <3>1, <3>2 DEF Accounted, Domains, answerVars
    <3> QED
      BY <3>1, <3>2, <3>3 DEF Accounts, Places, ObjectsDone, ItemsDone, handleVars
  <2> QED
    BY <2>1, <2>2 DEF Next
<1> QED
  BY <1>1, <1>2, Invariance, AnsweredHolds, PTL DEF Spec

\* The answer has one result or one error for every object of a GET or a DELETE
\* and for every item of a POST, but for what check_depends() leaves out and
\* what follows the first network that fails, in a request of any length.
THEOREM AllAccountedFor == Spec => []EachAccountedFor
<1>1. Inv /\ Accounts => EachAccountedFor
  <2> SUFFICES ASSUME Inv, Accounts, pc = "done" PROVE EachAccountedFor
    BY DEF EachAccountedFor
  <2>1. ASSUME req.verb \in {"get", "delete"}, req.sub # "unknown", NEW o \in DOMAIN objs
        PROVE  Reports(o, 0) = 1
    <3>1. o \in Nat \ {0} /\ o <= Len(objs)
      BY <2>1 DEF Inv, TypeOK
    <3> QED
      BY <2>1, <3>1 DEF Accounts, ObjectsDone
  <2>2. ASSUME req.verb = "post", conn = "closed", req.body = "array", NEW n \in DOMAIN req.items
        PROVE  Accounted(n)
    BY <2>2 DEF Accounts, ItemsDone
  <2> QED
    BY <2>1, <2>2 DEF EachAccountedFor, Accounted
<1> QED
  BY <1>1, Invariance, AccountsHolds, PTL
=============================================================================
