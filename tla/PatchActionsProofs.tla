------------------------- MODULE PatchActionsProofs -------------------------
(***************************************************************************)
(* Proofs about PatchActions, for every set of requests and every number   *)
(* of domains.                                                             *)
(***************************************************************************)
EXTENDS PatchActions, TLAPS

\* Only an action that was called succeeds: without it, ChainHolds does not
\* carry over to an action whose dependencies have outcome SUCCESS.
SuccessWasCalled ==
  \A r \in Reached : OutcomesOn(r[1])[r[2]] = "SUCCESS" => r \in called

Inv ==
  /\ TypeOK
  /\ OneOutcomeEach
  /\ called \subseteq Reached
  /\ SuccessWasCalled
  /\ ChainHolds
  /\ NothingElseSkipped

USE RequestsAssumption, NObjectsAssumption, NotIntAssumption

\* A request starts with no outcome and nothing called.
LEMMA InitInv == Init => Inv
<1> SUFFICES ASSUME Init PROVE Inv
  OBVIOUS
<1>1. Len(actions) \in Nat
  BY DEF Init
<1>2. TypeOK
  BY <1>1 DEF Init, TypeOK
<1>3. Reached = {}
  BY DEF Init, Reached
<1> QED
  BY <1>2, <1>3 DEF Init, Inv, OneOutcomeEach, SuccessWasCalled, ChainHolds, NothingElseSkipped

\* The outcomes of the current domain grow by one, the others stay.
LEMMA PushOutcomes ==
  ASSUME Inv, Active, NEW x \in Outcome, outcomes' = Append(outcomes, x), next' = next + 1,
         UNCHANGED <<actions, obj, done>>
  PROVE  /\ next \in 1 .. Len(actions) /\ obj \in 1 .. NObjects
         /\ OneOutcomeEach'
         /\ Reached' = Reached \cup {Self} /\ Self \notin Reached
         /\ \A r \in Reached : /\ OutcomesOn(r[1])'[r[2]] = OutcomesOn(r[1])[r[2]]
                               /\ \A d : DepHolds(r[1], r[2], d)' <=> DepHolds(r[1], r[2], d)
         /\ \A r \in {Self} : /\ OutcomesOn(r[1])'[r[2]] = x
                              /\ \A d : DepHolds(r[1], r[2], d)' <=> Succeeded(d)
<1> USE DEF Inv, TypeOK, Active
<1>1. actions \in Seq(Action) /\ Len(actions) \in Nat
  OBVIOUS
<1>2. next \in 1 .. Len(actions) /\ obj \in 1 .. NObjects
  BY <1>1
<1>3. Len(outcomes) = next - 1 /\ Len(outcomes') = next /\ outcomes'[next] = x
  BY DEF OneOutcomeEach
<1>4. \A j \in 1 .. next - 1 : outcomes'[j] = outcomes[j]
  BY <1>3
<1>5. OneOutcomeEach'
  BY <1>2, <1>3 DEF OneOutcomeEach
<1>6. Reached' = Reached \cup {Self} /\ Self \notin Reached
  BY <1>1, <1>2 DEF Reached, Self
<1>7. ASSUME NEW r \in Reached, NEW j \in 1 .. r[2]
      PROVE  OutcomesOn(r[1])'[j] = OutcomesOn(r[1])[j]
  <2>1. r[1] \in Nat /\ r[2] \in Nat /\ (r[1] < obj \/ (r[1] = obj /\ r[2] < next))
    BY <1>1 DEF Reached
  <2>2. CASE r[1] < obj
    BY <2>1, <2>2 DEF OutcomesOn
  <2>3. CASE r[1] = obj /\ r[2] < next
    <3>1. j \in 1 .. next - 1
      BY <1>2, <2>1, <2>3
    <3>2. outcomes'[j] = outcomes[j]
      BY <1>4, <3>1
    <3> QED
      BY <1>2, <2>3, <3>2 DEF OutcomesOn
  <2> QED
    BY <2>1, <2>2, <2>3
<1>8. \A r \in Reached : r[2] \in 1 .. Len(actions)
  BY <1>1 DEF Reached
<1>9. ASSUME NEW r \in Reached, NEW d
      PROVE  DepHolds(r[1], r[2], d)' <=> DepHolds(r[1], r[2], d)
  <2>1. CASE d \in 0 .. r[2] - 2
    <3>1. d + 1 \in 1 .. r[2]
      BY <1>1, <1>8, <2>1
    <3> QED
      BY <1>7, <3>1 DEF DepHolds
  <2>2. CASE d \notin 0 .. r[2] - 2
    BY <2>2 DEF DepHolds
  <2> QED
    BY <2>1, <2>2
<1>10. ASSUME NEW r \in {Self} PROVE OutcomesOn(r[1])' = outcomes' /\ r[2] = next
  BY <1>2 DEF OutcomesOn, Self
<1>11. ASSUME NEW r \in {Self}, NEW d PROVE DepHolds(r[1], r[2], d)' <=> Succeeded(d)
  <2>1. CASE d \in 0 .. next - 2
    <3>1. d + 1 \in 1 .. next - 1 /\ d \in Int /\ d >= 0 /\ d < Len(outcomes)
      BY <1>2, <1>3, <2>1
    <3>2. outcomes'[d + 1] = outcomes[d + 1]
      BY <1>4, <3>1
    <3> QED
      BY <1>10, <2>1, <3>1, <3>2 DEF DepHolds, Succeeded
  <2>2. CASE d \notin 0 .. next - 2
    <3>1. ~(d \in Int /\ d >= 0 /\ d < Len(outcomes))
      BY <1>2, <1>3, <2>2
    <3> QED
      BY <1>10, <2>2, <3>1 DEF DepHolds, Succeeded
  <2> QED
    BY <2>1, <2>2
<1>12. ASSUME NEW r \in Reached PROVE OutcomesOn(r[1])'[r[2]] = OutcomesOn(r[1])[r[2]]
  <2>1. r[2] \in 1 .. r[2]
    BY <1>1, <1>8
  <2> QED
    BY <1>7, <2>1
<1> QED
  BY <1>2, <1>3, <1>5, <1>6, <1>9, <1>10, <1>11, <1>12

\* An action that is not called keeps the invariant: the chain is broken, or
\* the outcome is not SKIPPED.
LEMMA NotCalledStep ==
  ASSUME Inv, Active, NEW x \in Outcome, outcomes' = Append(outcomes, x), next' = next + 1,
         UNCHANGED <<actions, obj, done, called>>,
         x # "SUCCESS",
         x = "SKIPPED" => \E n \in DOMAIN Current.deps : ~Succeeded(Current.deps[n])
  PROVE  (OneOutcomeEach /\ called \subseteq Reached /\ SuccessWasCalled /\ ChainHolds /\ NothingElseSkipped)'
<1> USE PushOutcomes
<1>1. (called \subseteq Reached)' /\ OneOutcomeEach'
  BY DEF Inv
<1>2. ChainHolds'
  <2>1. \A c \in called : c \in Reached
    BY DEF Inv
  <2> QED
    BY <2>1 DEF ChainHolds, Inv
<1>3. NothingElseSkipped'
  <2>1. ASSUME NEW r \in Reached, OutcomesOn(r[1])'[r[2]] = "SKIPPED"
        PROVE  /\ r \notin called
               /\ \E n \in DOMAIN actions[r[2]].deps : ~DepHolds(r[1], r[2], actions[r[2]].deps[n])'
    BY <2>1 DEF NothingElseSkipped, Inv
  <2>2. ASSUME NEW r \in {Self}, OutcomesOn(r[1])'[r[2]] = "SKIPPED"
        PROVE  /\ r \notin called
               /\ \E n \in DOMAIN actions[r[2]].deps : ~DepHolds(r[1], r[2], actions[r[2]].deps[n])'
    <3>1. r[2] = next /\ r \notin called
      BY DEF Self, Inv
    <3>2. \E n \in DOMAIN actions[next].deps : ~Succeeded(actions[next].deps[n])
      BY <2>2 DEF Current
    <3> QED
      BY <3>1, <3>2
  <2> QED
    BY <2>1, <2>2 DEF NothingElseSkipped
<1>4. SuccessWasCalled'
  BY DEF SuccessWasCalled, Inv
<1> QED
  BY <1>1, <1>2, <1>3, <1>4

\* An action of the current domain whose outcome is SUCCESS was called.
LEMMA SucceededWasCalled ==
  ASSUME Inv, Active, NEW d, Succeeded(d)
  PROVE  <<obj, d + 1>> \in called
<1>1. Len(actions) \in Nat /\ next \in 1 .. Len(actions) /\ obj \in 1 .. NObjects
  BY DEF Inv, TypeOK, Active
<1>2. Len(outcomes) = next - 1
  BY DEF Inv, OneOutcomeEach
<1>3. d \in 0 .. next - 2
  BY <1>1, <1>2 DEF Succeeded
<1>4. d + 1 \in 1 .. Len(actions) /\ d + 1 < next
  BY <1>1, <1>3
<1>5. <<obj, d + 1>> \in Reached
  BY <1>1, <1>4 DEF Reached
<1>6. OutcomesOn(obj)[d + 1] = "SUCCESS"
  BY <1>1 DEF OutcomesOn, Succeeded
<1> QED
  BY <1>5, <1>6 DEF Inv, SuccessWasCalled

\* A called action keeps the invariant: its chain holds.
LEMMA CalledStep ==
  ASSUME Inv, NEW x \in {"SUCCESS", "FAILURE"}, Active, Called(x)
  PROVE  (OneOutcomeEach /\ called \subseteq Reached /\ SuccessWasCalled /\ ChainHolds /\ NothingElseSkipped)'
<1>1. /\ outcomes' = Append(outcomes, x) /\ next' = next + 1 /\ called' = called \cup {Self}
      /\ UNCHANGED <<actions, obj, done>> /\ Holds
  BY DEF Called
<1>2. x \in Outcome
  BY DEF Outcome
<1> USE <1>1, <1>2, PushOutcomes
<1>3. (called \subseteq Reached)' /\ OneOutcomeEach'
  BY DEF Inv
<1>4. ChainHolds'
  <2>1. ASSUME NEW r \in {Self}, NEW n \in DOMAIN actions[r[2]].deps
        PROVE  /\ DepHolds(r[1], r[2], actions[r[2]].deps[n])'
               /\ <<r[1], actions[r[2]].deps[n] + 1>> \in called
    <3>1. r[2] = next /\ r[1] = obj
      BY DEF Self
    <3>2. Succeeded(actions[next].deps[n])
      BY <3>1 DEF Holds, Current
    <3>3. <<obj, actions[next].deps[n] + 1>> \in called
      BY <3>2, SucceededWasCalled
    <3> QED
      BY <3>1, <3>2, <3>3
  <2>2. actions[next].deps # NotInt
    BY DEF Holds, Current
  <2>3. ASSUME NEW c \in called
        PROVE  /\ actions[c[2]].deps # NotInt
               /\ \A n \in DOMAIN actions[c[2]].deps :
                    /\ DepHolds(c[1], c[2], actions[c[2]].deps[n])'
                    /\ <<c[1], actions[c[2]].deps[n] + 1>> \in called
    <3>1. c \in Reached
      BY DEF Inv
    <3> QED
      BY <3>1 DEF ChainHolds, Inv
  <2>4. ASSUME NEW c \in {Self}
        PROVE  actions[c[2]].deps # NotInt
    BY <2>2 DEF Self
  <2> QED
    BY <2>1, <2>3, <2>4 DEF ChainHolds
<1>5. NothingElseSkipped'
  BY DEF NothingElseSkipped, Inv, Self
<1>6. SuccessWasCalled'
  BY DEF SuccessWasCalled, Inv
<1> QED
  BY <1>3, <1>4, <1>5, <1>6

\* Going on to the next domain changes nothing about those before it.
LEMMA NextObjectStep ==
  ASSUME Inv, NextObject
  PROVE  (OneOutcomeEach /\ called \subseteq Reached /\ SuccessWasCalled /\ ChainHolds /\ NothingElseSkipped)'
<1> USE DEF Inv, TypeOK, NextObject
<1>1. /\ obj \in 1 .. NObjects /\ next = Len(actions) + 1 /\ Len(actions) \in Nat
      /\ Len(done) = obj - 1 /\ Len(outcomes) = Len(actions)
  BY DEF OneOutcomeEach
<1>2. /\ Len(done') = obj /\ done'[obj] = outcomes
      /\ \A o \in 1 .. obj - 1 : done'[o] = done[o]
  BY <1>1
<1>3. OneOutcomeEach'
  BY <1>1, <1>2 DEF OneOutcomeEach
<1>4. Reached' = Reached
  BY <1>1 DEF Reached
<1>5. ASSUME NEW r \in Reached PROVE OutcomesOn(r[1])' = OutcomesOn(r[1])
  BY <1>1, <1>2 DEF OutcomesOn, Reached
<1>6. ASSUME NEW r \in Reached, NEW d
      PROVE  DepHolds(r[1], r[2], d)' <=> DepHolds(r[1], r[2], d)
  BY <1>5 DEF DepHolds
<1>7. (called \subseteq Reached)'
  BY <1>4
<1>8. SuccessWasCalled'
  BY <1>4, <1>5 DEF SuccessWasCalled
<1>9. ChainHolds'
  <2>1. \A c \in called : c \in Reached
    OBVIOUS
  <2> QED
    BY <1>6, <2>1 DEF ChainHolds
<1>10. NothingElseSkipped'
  BY <1>4, <1>5, <1>6 DEF NothingElseSkipped
<1> QED
  BY <1>3, <1>7, <1>8, <1>9, <1>10

\* The types are kept.
LEMMA TypeStep ==
  ASSUME Inv, Next
  PROVE  TypeOK'
<1> USE DEF Inv, TypeOK
<1>1. Len(actions) \in Nat
  OBVIOUS
<1>2. ASSUME Active, NEW x \in Outcome, outcomes' = Append(outcomes, x), next' = next + 1,
             UNCHANGED <<actions, obj, done>>, called' \in {called, called \cup {Self}},
             lasterr' \in {lasterr, NoError, Self},
             \/ UNCHANGED errors
             \/ \E l \in {NoError, Self, lasterr} : Report(l)
      PROVE  TypeOK'
  <2>1. Self \in (1 .. NObjects) \X (1 .. Len(actions)) /\ Self \in Nat \X Nat
    BY <1>1, <1>2 DEF Self, Active
  <2>2. /\ actions' \in Requests /\ obj' \in 1 .. NObjects + 1
        /\ next' \in 1 .. Len(actions') + 1 /\ outcomes' \in Seq(Outcome)
        /\ done' \in Seq(Seq(Outcome))
    BY <1>1, <1>2 DEF Active
  <2>3. called' \subseteq (1 .. NObjects) \X (1 .. Len(actions'))
    BY <1>2, <2>1
  <2>4. lasterr' \in (Nat \X Nat) \cup {NoError}
    BY <1>2, <2>1
  <2>5. errors' \subseteq [by : Nat \X Nat, libvirt : (Nat \X Nat) \cup {NoError}]
    BY <1>2, <2>1 DEF Report
  <2> QED
    BY <2>2, <2>3, <2>4, <2>5
<1>3. CASE Broken
  BY <1>2, <1>3 DEF Broken, Outcome
<1>4. CASE Malformed
  BY <1>2, <1>4 DEF Malformed, Outcome
<1>5. CASE LibvirtAccepts
  BY <1>2, <1>5 DEF LibvirtAccepts, Called, Holds, Outcome
<1>6. CASE LibvirtRefuses
  BY <1>2, <1>6 DEF LibvirtRefuses, Called, Holds, Outcome
<1>7. CASE PrerequisiteFails
  BY <1>2, <1>7 DEF PrerequisiteFails, Called, Holds, Outcome
<1>8. CASE SignalRefused
  BY <1>2, <1>8 DEF SignalRefused, Called, Holds, Outcome
<1>9. CASE KeysRefused
  BY <1>2, <1>9 DEF KeysRefused, Called, Holds, Outcome
<1>10. CASE BadValue
  BY <1>2, <1>10 DEF BadValue, Called, Holds, Outcome
<1>11. CASE UnknownAction
  BY <1>2, <1>11 DEF UnknownAction, Called, Holds, Outcome
<1>12. CASE MissingArgument
  BY <1>2, <1>12 DEF MissingArgument, Called, Holds, Outcome
<1>13. CASE NextObject
  BY <1>1, <1>13 DEF NextObject
<1> QED
  BY <1>3, <1>4, <1>5, <1>6, <1>7, <1>8, <1>9, <1>10, <1>11, <1>12, <1>13 DEF Next

\* The invariant is inductive.
LEMMA InvStep == Inv /\ [Next]_vars => Inv'
<1> SUFFICES ASSUME Inv, [Next]_vars PROVE Inv'
  OBVIOUS
<1>1. CASE Broken
  <2>1. Active /\ "SKIPPED" \in Outcome
    BY <1>1 DEF Broken, Outcome
  <2>2. /\ outcomes' = Append(outcomes, "SKIPPED") /\ next' = next + 1
        /\ UNCHANGED <<actions, obj, done, called>>
        /\ \E n \in DOMAIN Current.deps : ~Succeeded(Current.deps[n])
    BY <1>1 DEF Broken
  <2> QED
    BY <1>1, <2>1, <2>2, NotCalledStep, TypeStep DEF Inv, Next
<1>2. CASE Malformed
  <2>1. /\ Active /\ "FAILURE" \in Outcome
        /\ outcomes' = Append(outcomes, "FAILURE") /\ next' = next + 1
        /\ UNCHANGED <<actions, obj, done, called>>
    BY <1>2 DEF Malformed, Outcome
  <2> QED
    BY <1>2, <2>1, NotCalledStep, TypeStep DEF Inv, Next
<1>3. CASE Active /\ (\/ LibvirtAccepts \/ LibvirtRefuses \/ PrerequisiteFails
                      \/ SignalRefused \/ KeysRefused \/ BadValue \/ MissingArgument
                      \/ UnknownAction)
  <2>1. PICK x \in {"SUCCESS", "FAILURE"} : Called(x)
    BY <1>3 DEF LibvirtAccepts, LibvirtRefuses, PrerequisiteFails, SignalRefused,
                KeysRefused, BadValue, MissingArgument, UnknownAction
  <2> QED
    BY <1>3, <2>1, CalledStep, TypeStep DEF Inv, Next
<1>4. CASE NextObject
  BY <1>4, NextObjectStep, TypeStep DEF Inv, Next
<1>5. CASE UNCHANGED vars
  <2>1. TypeOK' /\ OneOutcomeEach' /\ Reached' = Reached
    BY <1>5 DEF vars, Inv, TypeOK, OneOutcomeEach, Reached
  <2>2. \A o : OutcomesOn(o)' = OutcomesOn(o)
    BY <1>5 DEF vars, OutcomesOn
  <2>3. \A o, i, d : DepHolds(o, i, d)' <=> DepHolds(o, i, d)
    BY <2>2 DEF DepHolds
  <2> QED
    BY <1>5, <2>1, <2>2, <2>3 DEF vars, Inv, SuccessWasCalled, ChainHolds, NothingElseSkipped
<1> QED
  BY <1>1, <1>2, <1>3, <1>4, <1>5 DEF Next

\* The inductive invariant holds throughout every request.
THEOREM InvHolds == Spec => []Inv
BY InitInv, InvStep, PTL DEF Spec

\* check_depends(): an action is only performed on a domain after all it
\* depends on have been performed on that domain, and have succeeded.
THEOREM DependenciesHold == Spec => []ChainHolds
<1>1. Inv => ChainHolds
  BY DEF Inv
<1> QED
  BY <1>1, InvHolds, PTL

\* handle_depends(): the outcomes vector and the array of actions stay aligned,
\* for every domain, whichever paths the actions take.
THEOREM OutcomesAligned == Spec => []OneOutcomeEach
<1>1. Inv => OneOutcomeEach
  BY DEF Inv
<1> QED
  BY <1>1, InvHolds, PTL

\* handle_depends(): an action is only left out for a dependency that does not
\* hold, on the same domain.
THEOREM SkippedForAReason == Spec => []NothingElseSkipped
<1>1. Inv => NothingElseSkipped
  BY DEF Inv
<1> QED
  BY <1>1, InvHolds, PTL

\* The state of a PATCH request keeps its types.
THEOREM TypeCorrect == Spec => []TypeOK
<1>1. Inv => TypeOK
  BY DEF Inv
<1> QED
  BY <1>1, InvHolds, PTL

-----------------------------------------------------------------------------
(* Failures and errors *)

\* An error is about an action that was reached, so that the next action's
\* success is not reported as one.
Reported == FailuresReported /\ \A e \in errors : e.by \in Reached

\* An outcome comes with its error, or is one of those that have none.
LEMMA PushReports ==
  ASSUME Inv, Reported, Active, NEW x \in Outcome,
         outcomes' = Append(outcomes, x), next' = next + 1, UNCHANGED <<actions, obj, done>>,
         \/ errors' = errors /\ (x = "FAILURE" => Current.kind \in {"keys", "silent"})
         \/ x = "FAILURE" /\ \E l \in {NoError, Self, lasterr} : Report(l)
  PROVE  Reported'
<1>1. /\ Reached' = Reached \cup {Self} /\ Self \notin Reached
      /\ \A r \in Reached : OutcomesOn(r[1])'[r[2]] = OutcomesOn(r[1])[r[2]]
      /\ \A r \in {Self} : OutcomesOn(r[1])'[r[2]] = x
  BY PushOutcomes
<1>2. \A e \in errors' : e \in errors \/ e.by = Self
  BY DEF Report
<1>3. errors \subseteq errors'
  BY DEF Report
<1>4. (\A e \in errors : e.by \in Reached)'
  BY <1>1, <1>2 DEF Reported
<1>5. ASSUME NEW r \in Reached
      PROVE  LET o == r[1]  i == r[2] IN
               /\ (OutcomesOn(o)'[i] = "FAILURE" /\ actions[i].kind \notin {"keys", "silent"})
                    => \E e \in errors' : e.by = r
               /\ (\E e \in errors' : e.by = r) => OutcomesOn(o)'[i] = "FAILURE"
  <2>1. (\E e \in errors' : e.by = r) <=> (\E e \in errors : e.by = r)
    BY <1>1, <1>2, <1>3
  <2> QED
    BY <1>1, <2>1 DEF Reported, FailuresReported
<1>6. /\ (x = "FAILURE" /\ actions[Self[2]].kind \notin {"keys", "silent"})
           => \E e \in errors' : e.by = Self
      /\ (\E e \in errors' : e.by = Self) => x = "FAILURE"
  <2>1. CASE errors' = errors /\ (x = "FAILURE" => Current.kind \in {"keys", "silent"})
    <3>1. \A e \in errors' : e.by # Self
      BY <1>1, <2>1 DEF Reported
    <3>2. actions[Self[2]] = Current
      BY DEF Self, Current
    <3> QED
      BY <2>1, <3>1, <3>2
  <2>2. ASSUME x = "FAILURE", NEW l \in {NoError, Self, lasterr}, Report(l)
        PROVE  \E e \in errors' : e.by = Self
    <3>1. [by |-> Self, libvirt |-> l] \in errors'
      BY <2>2 DEF Report
    <3> QED
      BY <3>1
  <2> QED
    BY <2>1, <2>2
<1>7. ASSUME NEW r \in {Self}
      PROVE  LET o == r[1]  i == r[2] IN
               /\ (OutcomesOn(o)'[i] = "FAILURE" /\ actions[i].kind \notin {"keys", "silent"})
                    => \E e \in errors' : e.by = r
               /\ (\E e \in errors' : e.by = r) => OutcomesOn(o)'[i] = "FAILURE"
  <2>1. OutcomesOn(r[1])'[r[2]] = x
    BY <1>1
  <2> QED
    BY <1>6, <2>1
<1>8. actions' = actions
  OBVIOUS
<1> QED
  BY <1>1, <1>4, <1>5, <1>7, <1>8 DEF Reported, FailuresReported

LEMMA NextObjectReports ==
  ASSUME Inv, Reported, NextObject PROVE Reported'
<1> USE DEF Inv, TypeOK, NextObject
<1>1. /\ obj \in 1 .. NObjects /\ next = Len(actions) + 1 /\ Len(actions) \in Nat
      /\ Len(done) = obj - 1
  BY DEF OneOutcomeEach
<1>2. /\ done'[obj] = outcomes
      /\ \A o \in 1 .. obj - 1 : done'[o] = done[o]
  BY <1>1
<1>3. Reached' = Reached
  BY <1>1 DEF Reached
<1>4. \A r \in Reached : OutcomesOn(r[1])' = OutcomesOn(r[1])
  BY <1>1, <1>2 DEF OutcomesOn, Reached
<1> QED
  BY <1>3, <1>4 DEF Reported, FailuresReported

LEMMA StepReports == Inv /\ Reported /\ [Next]_vars => Reported'
<1> SUFFICES ASSUME Inv, Reported, [Next]_vars PROVE Reported'
  OBVIOUS
<1> USE DEF Outcome
<1>1. CASE Broken
  BY <1>1, PushReports DEF Broken
<1>2. CASE Malformed
  BY <1>2, PushReports DEF Malformed
<1>3. CASE LibvirtAccepts \/ SignalRefused
  BY <1>3, PushReports DEF LibvirtAccepts, SignalRefused, Called, Holds
<1>4. CASE KeysRefused \/ MissingArgument
  BY <1>4, PushReports DEF KeysRefused, MissingArgument, Called, Holds
<1>5. CASE LibvirtRefuses \/ PrerequisiteFails
  BY <1>5, PushReports DEF LibvirtRefuses, PrerequisiteFails, Called, Holds
<1>6. CASE BadValue \/ UnknownAction
  BY <1>6, PushReports DEF BadValue, UnknownAction, Called, Holds
<1>7. CASE NextObject
  BY <1>7, NextObjectReports
<1>8. CASE UNCHANGED vars
  BY <1>8 DEF vars, Reported, FailuresReported, Reached, OutcomesOn
<1> QED
  BY <1>1, <1>2, <1>3, <1>4, <1>5, <1>6, <1>7, <1>8 DEF Next

\* alter(): a failure is told to the client, and a success is not reported as
\* an error, but for the actions that fail silently; for any arrays of actions
\* on any number of domains.
THEOREM FailuresAreReported == Spec => []FailuresReported
<1>1. Init => Reported
  <2> SUFFICES ASSUME Init PROVE Reported
    OBVIOUS
  <2>1. Reached = {} /\ errors = {}
    BY DEF Init, Reached
  <2> QED
    BY <2>1 DEF Reported, FailuresReported
<1>2. Inv /\ Reported /\ [Next]_vars => Reported'
  BY StepReports
<1>3. Reported => FailuresReported
  BY DEF Reported
<1> QED
  BY <1>1, <1>2, <1>3, InvHolds, PTL DEF Spec

-----------------------------------------------------------------------------
(* libvirt's last error *)

\* What lies between a refusal nobody reported and now made no libvirt call and
\* took no error.
Silent(o, from, to) ==
  \A j \in from .. to : <<o, j>> \in called => actions[j].kind \in {"syntax", "silent"}

\* A last error is a refusal on the current domain that was not reported, so
\* that the error which takes it fits.
Leftover ==
  /\ LibvirtErrorFits
  /\ lasterr # NoError =>
       /\ lasterr[1] = obj /\ lasterr[2] \in 1 .. next - 1
       /\ actions[lasterr[2]].kind \in {"signal", "keys"}
       /\ Silent(obj, lasterr[2] + 1, next - 1)

\* The errors so far are not touched by an action after those they are about.
LEMMA OldErrorsFit ==
  ASSUME Inv, Reported, Leftover, Active, UNCHANGED <<actions, obj>>,
         called' \in {called, called \cup {Self}}, NEW e \in errors, e.libvirt \notin {NoError, e.by}
  PROVE  /\ e.libvirt[1] = e.by[1] /\ e.libvirt[2] < e.by[2]
         /\ actions[e.libvirt[2]].kind \in {"signal", "keys"}
         /\ actions[e.by[2]].kind = "unknown"
         /\ \A j \in e.libvirt[2] + 1 .. e.by[2] - 1 :
              <<e.by[1], j>> \in called' => actions[j].kind \in {"syntax", "silent"}
<1>1. e.by \in Reached /\ e.libvirt \in Nat \X Nat
  BY DEF Reported, Inv, TypeOK
<1>2. /\ e.libvirt[1] = e.by[1] /\ e.libvirt[2] < e.by[2]
      /\ actions[e.libvirt[2]].kind \in {"signal", "keys"}
      /\ actions[e.by[2]].kind = "unknown"
      /\ \A j \in e.libvirt[2] + 1 .. e.by[2] - 1 :
           <<e.by[1], j>> \in called => actions[j].kind \in {"syntax", "silent"}
  BY DEF Leftover, LibvirtErrorFits
<1>3. /\ e.by[1] \in Nat /\ e.by[2] \in Nat /\ e.libvirt[2] \in Nat /\ obj \in Nat /\ next \in Nat
      /\ e.by[1] < obj \/ (e.by[1] = obj /\ e.by[2] < next)
  BY <1>1 DEF Reached, Inv, TypeOK
<1>4. \A j \in e.libvirt[2] + 1 .. e.by[2] - 1 : <<e.by[1], j>> # Self
  BY <1>3 DEF Self
<1> QED
  BY <1>2, <1>4

\* An error that takes no other action's message keeps those that do fitting.
LEMMA ErrorsFit ==
  ASSUME Inv, Reported, Leftover, Active, UNCHANGED <<actions, obj>>,
         called' \in {called, called \cup {Self}},
         UNCHANGED errors \/ Report(NoError) \/ Report(Self)
  PROVE  LibvirtErrorFits'
<1>1. \A e \in errors' : e \in errors \/ e.libvirt \in {NoError, e.by}
  BY DEF Report
<1> QED
  BY <1>1, OldErrorsFit DEF LibvirtErrorFits

\* An action that leaves no error behind, and takes its own or none.
LEMMA NoneLeft ==
  ASSUME Inv, Reported, Leftover, Active, NEW x, Called(x), lasterr' = NoError,
         UNCHANGED errors \/ Report(NoError) \/ Report(Self)
  PROVE  Leftover'
<1>1. LibvirtErrorFits'
  BY ErrorsFit DEF Called
<1> QED
  BY <1>1 DEF Leftover

\* A refusal that is not reported becomes the last error.
LEMMA LeftBehind ==
  ASSUME Inv, Reported, Leftover, Active, NEW x, Called(x), lasterr' = Self, UNCHANGED errors,
         Current.kind \in {"signal", "keys"}
  PROVE  Leftover'
<1>1. LibvirtErrorFits'
  BY ErrorsFit DEF Called
<1>2. next \in Nat \ {0} /\ next' = next + 1 /\ UNCHANGED <<actions, obj>>
  BY DEF Called, Inv, TypeOK
<1>3. lasterr'[1] = obj /\ lasterr'[2] = next
  BY DEF Self
<1>4. actions[next].kind \in {"signal", "keys"}
  BY DEF Current
<1>5. Silent(obj, next + 1, next)'
  BY <1>2 DEF Silent
<1>6. next \in 1 .. next' - 1 /\ next' - 1 = next
  BY <1>2
<1> QED
  BY <1>1, <1>2, <1>3, <1>4, <1>5, <1>6 DEF Leftover, Silent

\* An action that makes no libvirt call leaves the last error as it was.
LEMMA LastErrorStays ==
  ASSUME Inv, Reported, Leftover, Active, next' = next + 1, UNCHANGED <<actions, obj, lasterr>>,
         UNCHANGED errors \/ Report(NoError),
         \/ UNCHANGED called
         \/ called' = called \cup {Self} /\ Current.kind \in {"syntax", "silent"}
  PROVE  Leftover'
<1>1. LibvirtErrorFits'
  BY ErrorsFit
<1>2. ASSUME lasterr # NoError
      PROVE  /\ lasterr[1] = obj /\ lasterr[2] \in 1 .. next' - 1
             /\ actions[lasterr[2]].kind \in {"signal", "keys"}
             /\ \A j \in lasterr[2] + 1 .. next' - 1 :
                  <<obj, j>> \in called' => actions[j].kind \in {"syntax", "silent"}
  <2>1. /\ lasterr[1] = obj /\ lasterr[2] \in 1 .. next - 1
        /\ actions[lasterr[2]].kind \in {"signal", "keys"}
        /\ Silent(obj, lasterr[2] + 1, next - 1)
    BY <1>2 DEF Leftover
  <2>2. next \in Nat
    BY DEF Inv, TypeOK
  <2>3. \A j \in lasterr[2] + 1 .. next' - 1 : j = next \/ j \in lasterr[2] + 1 .. next - 1
    BY <2>1, <2>2
  <2>4. <<obj, next>> \in called' => actions[next].kind \in {"syntax", "silent"}
    <3>1. Self \notin called
      BY <2>2 DEF Inv, Reached, Self
    <3> QED
      BY <3>1 DEF Self, Current
  <2>5. lasterr[2] \in 1 .. next' - 1
    BY <2>1, <2>2
  <2>6. ASSUME NEW j \in lasterr[2] + 1 .. next' - 1, <<obj, j>> \in called'
        PROVE  actions[j].kind \in {"syntax", "silent"}
    <3>1. CASE j = next
      BY <2>4, <2>6, <3>1
    <3>2. CASE j # next
      <4>1. j \in lasterr[2] + 1 .. next - 1
        BY <2>3, <3>2
      <4>2. <<obj, j>> \in called
        BY <2>6, <3>2 DEF Self
      <4> QED
        BY <2>1, <4>1, <4>2 DEF Silent
    <3> QED
      BY <3>1, <3>2
  <2> QED
    BY <2>1, <2>5, <2>6 DEF Silent
<1>3. lasterr' = lasterr /\ obj' = obj /\ actions' = actions
  OBVIOUS
<1>4. (lasterr # NoError => Silent(obj, lasterr[2] + 1, next - 1))'
  BY <1>2, <1>3 DEF Silent
<1> QED
  BY <1>1, <1>2, <1>3, <1>4 DEF Leftover

\* Error 123 or 300 takes the last error, whose action it comes after.
LEMMA UnknownTakes ==
  ASSUME Inv, Reported, Leftover, Active, UnknownAction
  PROVE  Leftover'
<1>1. /\ UNCHANGED <<actions, obj>> /\ called' = called \cup {Self} /\ lasterr' = NoError
      /\ errors' = errors \cup {[by |-> Self, libvirt |-> lasterr]} /\ Current.kind = "unknown"
  BY DEF UnknownAction, Called, Report
<1>2. ASSUME lasterr # NoError
      PROVE  /\ lasterr[1] = Self[1] /\ lasterr[2] < Self[2]
             /\ actions[lasterr[2]].kind \in {"signal", "keys"}
             /\ actions[Self[2]].kind = "unknown"
             /\ \A j \in lasterr[2] + 1 .. Self[2] - 1 :
                  <<Self[1], j>> \in called' => actions[j].kind \in {"syntax", "silent"}
  <2>1. next \in Nat /\ Self[1] = obj /\ Self[2] = next
    BY DEF Inv, TypeOK, Self
  <2>2. \A j \in lasterr[2] + 1 .. next - 1 : <<obj, j>> # Self
    BY <1>2, <2>1 DEF Self, Leftover
  <2> QED
    BY <1>1, <1>2, <2>1, <2>2 DEF Leftover, Silent, Current
<1>3. \A e \in errors' : e \in errors \/ (e.by = Self /\ e.libvirt = lasterr)
  BY <1>1
<1>4. LibvirtErrorFits'
  BY <1>1, <1>2, <1>3, OldErrorsFit DEF LibvirtErrorFits
<1> QED
  BY <1>1, <1>4 DEF Leftover

LEMMA StepLeavesOver == Inv /\ Reported /\ Leftover /\ [Next]_vars => Leftover'
<1> SUFFICES ASSUME Inv, Reported, Leftover, [Next]_vars PROVE Leftover'
  OBVIOUS
<1>1. CASE Broken
  BY <1>1, LastErrorStays DEF Broken
<1>2. CASE Malformed
  BY <1>2, LastErrorStays DEF Malformed
<1>3. CASE LibvirtAccepts
  BY <1>3, NoneLeft DEF LibvirtAccepts, Called, Holds
<1>4. CASE LibvirtRefuses \/ PrerequisiteFails
  BY <1>4, NoneLeft DEF LibvirtRefuses, PrerequisiteFails, Called, Holds
<1>5. CASE SignalRefused \/ KeysRefused
  BY <1>5, LeftBehind DEF SignalRefused, KeysRefused, Called, Holds
<1>6. CASE BadValue \/ MissingArgument
  BY <1>6, LastErrorStays DEF BadValue, MissingArgument, Called, Holds
<1>7. CASE UnknownAction
  BY <1>7, UnknownTakes DEF UnknownAction, Called, Holds
<1>8. CASE NextObject
  BY <1>8 DEF NextObject, Leftover, LibvirtErrorFits
<1>9. CASE UNCHANGED vars
  BY <1>9 DEF vars, Leftover, LibvirtErrorFits, Silent
<1> QED
  BY <1>1, <1>2, <1>3, <1>4, <1>5, <1>6, <1>7, <1>8, <1>9 DEF Next

\* JsonRes::error(): the libvirt message in an error is about the action the
\* error is about, or left over from a send_signal or send_keys on the same
\* domain that reported nothing; never from another domain of the request.
THEOREM MessagesFit == Spec => []LibvirtErrorFits
<1>1. Init => Reported /\ Leftover
  <2> SUFFICES ASSUME Init PROVE Reported /\ Leftover
    OBVIOUS
  <2>1. Reached = {} /\ errors = {} /\ lasterr = NoError
    BY DEF Init, Reached
  <2> QED
    BY <2>1 DEF Reported, FailuresReported, Leftover, LibvirtErrorFits
<1>2. Inv /\ Reported /\ Leftover /\ [Next]_vars => (Reported /\ Leftover)'
  BY StepReports, StepLeavesOver
<1>3. Leftover => LibvirtErrorFits
  BY DEF Leftover
<1> QED
  BY <1>1, <1>2, <1>3, InvHolds, PTL DEF Spec
=============================================================================
