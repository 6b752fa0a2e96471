----------------------------- MODULE Ownership -----------------------------
(***************************************************************************)
(* The classes of virt_wrap that own something of libvirt's: their         *)
(* constructors, assignments and destructors, over objects whose           *)
(* references libvirt counts.  The variables of a program hold objects of  *)
(* one class; an address that was freed may be allocated again.  A few     *)
(* operations break the count: the model ends with the first of them, as   *)
(* what follows (a double free, in the end) has no meaning in C++.         *)
(***************************************************************************)
EXTENDS Integers, FiniteSets

CONSTANTS Objects, \* addresses of what libvirt allocates
          Vars,    \* the variables of the C++ program
          Null,    \* a null pointer
          Unborn   \* what a variable holds out of its lifetime

ASSUME OwnershipAssumption ==
  /\ IsFiniteSet(Vars)
  /\ Null \notin Objects /\ Unborn \notin Objects /\ Null # Unborn

VARIABLES
  cls,  \* the class of the variables
  refs, \* the references that libvirt counts; 0 is a freed address
  lent, \* connections that libvirt's own objects refer to
  ptr,  \* `underlying' of every variable
  slip  \* the operation done that does not keep the count, or "none"

ownVars == <<cls, refs, lent, ptr, slip>>

(***************************************************************************)
(* The classes, by their assignment: the old object is released and the    *)
(* other's taken, or the two are swapped.  Stream has assignments of its   *)
(* own, TypedParams has none.                                              *)
(***************************************************************************)
Resetting == {"UniqueZstring", "Domain", "Network", "NodeDevice", "Connection"}
Swapping  == {"StoragePool", "StorageVol"}
Classes   == Resetting \cup Swapping \cup {"Stream", "TypedParams"}

Alive(v)  == ptr[v] # Unborn
Owners(o) == {v \in Vars : ptr[v] = o}
Lent(o)   == IF o \in lent THEN 1 ELSE 0

\* virXRef() and virXFree() on what may be a null pointer.
Taken(r, p)    == IF p \in Objects THEN [r EXCEPT ![p] = @ + 1] ELSE r
Released(r, p) == IF p \in Objects /\ r[p] > 0 THEN [r EXCEPT ![p] = @ - 1] ELSE r

\* What is done to a null pointer harms nobody.
SlipOn(p, name) == slip' = IF p \in Objects THEN name ELSE slip

OwnInit ==
  /\ cls \in Classes
  /\ refs = [o \in Objects |-> 0]
  /\ lent = {}
  /\ ptr = [v \in Vars |-> Unborn]
  /\ slip = "none"

-----------------------------------------------------------------------------
(* Constructors *)

\* X{virXLookup...()}: libvirt returns a new object, or null.
Obtain(v) ==
  /\ ptr[v] = Unborn
  /\ \/ /\ ptr' = [ptr EXCEPT ![v] = Null]
        /\ UNCHANGED refs
     \/ \E o \in Objects :
          /\ refs[o] = 0
          /\ refs' = [refs EXCEPT ![o] = 1]
          /\ ptr' = [ptr EXCEPT ![v] = o]
  /\ UNCHANGED <<cls, lent, slip>>

\* getConnect(): libvirt lends the connection of the object; the binding
\* takes a reference of its own before it makes an owner of the pointer.
GetConnect(v) ==
  /\ cls = "Connection" /\ ptr[v] = Unborn
  /\ \E p \in lent \cup {Null} :
       /\ refs' = Taken(refs, p)
       /\ ptr' = [ptr EXCEPT ![v] = p]
  /\ UNCHANGED <<cls, lent, slip>>

\* The moved-from variable is left null, but for TypedParams, whose move
\* constructor is defaulted and copies the pointer.
MoveConstruct(v, w) ==
  /\ ptr[v] = Unborn /\ Alive(w)
  /\ IF cls = "TypedParams"
       THEN /\ ptr' = [ptr EXCEPT ![v] = ptr[w]]
            /\ SlipOn(ptr[w], "params moved")
       ELSE /\ ptr' = [ptr EXCEPT ![v] = ptr[w], ![w] = Null]
            /\ UNCHANGED slip
  /\ UNCHANGED <<cls, refs, lent>>

\* Stream takes a reference; the copy of a Connection is defaulted and takes
\* none.  The other classes are not copyable.
CopyConstruct(v, w) ==
  /\ ptr[v] = Unborn /\ Alive(w)
  /\ ptr' = [ptr EXCEPT ![v] = ptr[w]]
  /\ \/ /\ cls = "Stream"
        /\ refs' = Taken(refs, ptr[w])
        /\ UNCHANGED slip
     \/ /\ cls = "Connection"
        /\ SlipOn(ptr[w], "connection copied")
        /\ UNCHANGED refs
  /\ UNCHANGED <<cls, lent>>

-----------------------------------------------------------------------------
(* Assignments; v and w may be the same variable *)

\* this->~X(); underlying = oth.underlying; oth.underlying = nullptr
Take(v, w) == ptr' = [[ptr EXCEPT ![v] = ptr[w]] EXCEPT ![w] = Null]

\* Slip: the old object is not released.
MoveOnto_KeepsOld(v, w) ==
  /\ cls \in Resetting /\ Alive(v) /\ Alive(w)
  /\ Take(v, w)
  /\ UNCHANGED <<cls, refs, lent, slip>>

MoveOnto(v, w) ==
  /\ cls \in Resetting /\ Alive(v) /\ Alive(w)
  /\ refs' = Released(refs, ptr[v])
  /\ Take(v, w)
  /\ UNCHANGED <<cls, lent, slip>>

\* std::swap(underlying, oth.underlying)
SwapWith(v, w) ==
  /\ cls \in Swapping /\ Alive(v) /\ Alive(w)
  /\ ptr' = [ptr EXCEPT ![v] = ptr[w], ![w] = ptr[v]]
  /\ UNCHANGED <<cls, refs, lent, slip>>

\* The pointer is overwritten: nobody owns the old stream any more.
MoveOntoStream(v, w) ==
  /\ cls = "Stream" /\ Alive(v) /\ Alive(w)
  /\ Take(v, w)
  /\ SlipOn(ptr[v], "moved onto a stream")
  /\ UNCHANGED <<cls, refs, lent>>

\* The old reference goes before the new one is taken: the last owner that
\* is assigned to itself takes a reference on a freed stream.
CopyOntoStream(v, w) ==
  /\ cls = "Stream" /\ Alive(v) /\ Alive(w)
  /\ LET left == Released(refs, ptr[v]) IN
       IF ptr[w] \in Objects /\ left[ptr[w]] = 0
         THEN refs' = left /\ slip' = "stream copied onto itself"
         ELSE refs' = Taken(left, ptr[w]) /\ UNCHANGED slip
  /\ ptr' = [ptr EXCEPT ![v] = ptr[w]]
  /\ UNCHANGED <<cls, lent>>

-----------------------------------------------------------------------------
Destroy(v) ==
  /\ Alive(v)
  /\ refs' = Released(refs, ptr[v])
  /\ ptr' = [ptr EXCEPT ![v] = Unborn]
  /\ UNCHANGED <<cls, lent, slip>>

\* Connection::ref(): a reference that no variable gives back.
Ref(v) ==
  /\ cls = "Connection" /\ ptr[v] \in Objects
  /\ refs' = Taken(refs, ptr[v])
  /\ SlipOn(ptr[v], "ref() called")
  /\ UNCHANGED <<cls, lent, ptr>>

\* libvirt's objects take a reference on their connection and drop it.
Lend(o) ==
  /\ cls = "Connection" /\ o \notin lent /\ refs[o] > 0
  /\ lent' = lent \cup {o}
  /\ refs' = Taken(refs, o)
  /\ UNCHANGED <<cls, ptr, slip>>

GiveBack(o) ==
  /\ o \in lent
  /\ lent' = lent \ {o}
  /\ refs' = Released(refs, o)
  /\ UNCHANGED <<cls, ptr, slip>>

Operation(v) == Obtain(v) \/ GetConnect(v) \/ Destroy(v) \/ Ref(v)
Transfer(v, w) ==
  \/ MoveConstruct(v, w) \/ CopyConstruct(v, w) \/ MoveOnto(v, w)
  \/ SwapWith(v, w) \/ MoveOntoStream(v, w) \/ CopyOntoStream(v, w)

OwnNext ==
  /\ slip = "none"
  /\ \/ \E v \in Vars : Operation(v)
     \/ \E v, w \in Vars : Transfer(v, w)
     \/ \E o \in Objects : Lend(o) \/ GiveBack(o)

OwnSpec == OwnInit /\ [][OwnNext]_ownVars

-----------------------------------------------------------------------------
(* Properties *)

OwnTypeOK ==
  /\ cls \in Classes
  /\ refs \in [Objects -> Nat]
  /\ lent \subseteq Objects
  /\ ptr \in [Vars -> Objects \cup {Null, Unborn}]
  /\ slip \in {"none", "params moved", "connection copied", "moved onto a stream",
               "stream copied onto itself", "ref() called", "domain of a freed record"}

Counted == \A o \in Objects : refs[o] = Cardinality(Owners(o)) + Lent(o)

\* What libvirt counts is what the program holds: after any sequence of
\* constructions, moves, copies and assignments, on any variables (a variable
\* and itself included), every object has exactly the references of the
\* variables that own it: nothing is freed under an owner, freed twice or
\* lost.  The code breaks it by five operations, and by each of them (and by
\* one call of Bindings).
OwnersCounted == slip = "none" <=> Counted

\* An object of a class that cannot be copied has one owner at most.
Movable == Swapping \cup (Resetting \ {"Connection"})
OneOwner ==
  cls \in Movable => \A v, w \in Vars : ptr[v] = ptr[w] /\ ptr[v] \in Objects => v = w
=============================================================================
