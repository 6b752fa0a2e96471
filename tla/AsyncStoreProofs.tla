-------------------------- MODULE AsyncStoreProofs --------------------------
(***************************************************************************)
(* Proofs about AsyncStore, for every set of threads and of tasks and      *)
(* every number of keys.  Inv is the inductive invariant; all theorems     *)
(* about safety follow from it.                                            *)
(***************************************************************************)
EXTENDS AsyncStore, FiniteSetTheorems, TLAPS

\* A thread inside launch() holds a task of its own, which is in no entry yet.
JobsHeld ==
  /\ \A t \in Threads : pc[t] # "idle" => job[t] \in Tasks /\ task[job[t]] = "called"
  /\ \A t, u \in Threads : pc[t] # "idle" /\ pc[u] # "idle" /\ job[t] = job[u] => t = u

Inv ==
  /\ TypeOK
  /\ OneSearch
  /\ JobsHeld
  /\ TicketsKept
  /\ NoOrphans
  /\ ExpiryFollowsTask

USE NKeysAssumption, ClockAssumption, NoneAssumption, FreeAssumption
USE DEF Keys, IndexMax, Element, Entry, NoKey, InitExpire, Enter, SearchFrom, Allocate, NotFound, TakeOut

\* The next key that get_free_id() probes is a value of IndexType.
LEMMA ProbeIsKey == ASSUME probe \in Keys PROVE NextProbe \in Keys
BY DEF NextProbe

\* What the invariant says of the last answer.
AnswerOK(a) ==
  a \in [status : {"none", "non_existent", "in_progress", "finished"},
         key : Keys \cup {NoKey}, body : Tasks \cup {NoTask}]

\* The answer of a step that is no call of value_if_ready().
LEMMA NoAnswerOK == AnswerOK(NoAnswer)
BY DEF AnswerOK, NoAnswer

\* Initially nothing is stored.
LEMMA InitInv == Init => Inv
<1> SUFFICES ASSUME Init PROVE Inv
  OBVIOUS
<1>1. TypeOK
  <2>1. IndexMax \in Keys
    OBVIOUS
  <2> QED
    BY <2>1, NoAnswerOK DEF Init, TypeOK, AnswerOK
<1>2. OneSearch /\ JobsHeld
  BY DEF Init, OneSearch, JobsHeld
<1>3. Outstanding = {} /\ Used = {}
  BY DEF Init, Outstanding, Used
<1> QED
  BY <1>1, <1>2, <1>3 DEF Inv, TicketsKept, NoOrphans, ExpiryFollowsTask

\* Every step keeps the types.
LEMMA TypeStep == Inv /\ [NextWithGc]_vars => TypeOK'
<1> SUFFICES ASSUME Inv, [NextWithGc]_vars PROVE TypeOK'
  OBVIOUS
<1> USE NoAnswerOK DEF Inv, TypeOK, AnswerOK, storeVars, threadVars, taskVars
<1>1. ASSUME NEW t \in Threads, NEW k \in Tasks, Refuse(t, k) PROVE TypeOK'
  BY <1>1 DEF Refuse
<1>2. ASSUME NEW t \in Threads, NEW k \in Tasks, Admit(t, k) PROVE TypeOK'
  BY <1>2 DEF Admit
<1>3. ASSUME NEW t \in Threads, LockForLaunch(t) PROVE TypeOK'
  BY <1>3 DEF LockForLaunch
<1>4. ASSUME NEW t \in Threads, ProbeTaken(t) PROVE TypeOK'
  BY <1>4, ProbeIsKey DEF ProbeTaken
<1>5. ASSUME NEW t \in Threads, Insert(t) PROVE TypeOK'
  BY <1>5, ProbeIsKey DEF Insert, JobsHeld
<1>6. ASSUME NEW t \in Threads, StartFails(t) PROVE TypeOK'
  BY <1>6 DEF StartFails
<1>7. ASSUME NEW k \in Tasks, RunTask(k) PROVE TypeOK'
  <2>1. CASE FcnReturns(k)
    BY <2>1 DEF FcnReturns
  <2>2. CASE FcnThrows(k)
    BY <2>2 DEF FcnThrows
  <2>3. CASE Housekeep(k)
    <3>1. id[k] \in Used /\ elems[id[k]].fut = k
      BY <2>3 DEF Housekeep, Outstanding, TicketsKept
    <3>2. elems' = [elems EXCEPT ![id[k]] = Entry(now + DefaultExpire, k)]
      BY <2>3, <3>1 DEF Housekeep, Used
    <3>3. now + DefaultExpire \in Int
      OBVIOUS
    <3>4. elems' \in [Keys -> Element \cup {Free}]
      BY <3>2, <3>3
    <3> QED
      BY <2>3, <3>4 DEF Housekeep
  <2>4. CASE BecomeReady(k)
    BY <2>4 DEF BecomeReady
  <2> QED
    BY <1>7, <2>1, <2>2, <2>3, <2>4 DEF RunTask
<1>8. ASSUME NEW t \in Threads, NEW i \in Keys, ValueIfReady(t, i) PROVE TypeOK'
  <2>1. CASE MissingEntry(t, i)
    BY <2>1 DEF MissingEntry
  <2>2. CASE StillRunning(t, i)
    BY <2>2 DEF StillRunning
  <2>3. CASE Extract(t, i)
    <3>1. elems[i].fut \in Tasks
      BY <2>3 DEF Extract, Ready
    <3>2. CASE task[elems[i].fut] = "ready"
      <4>1. answer' = [status |-> "finished", key |-> i, body |-> elems[i].fut]
        BY <2>3, <3>2 DEF Extract
      <4>2. AnswerOK(answer')
        BY <3>1, <4>1
      <4> QED
        BY <2>3, <3>1, <3>2, <4>2 DEF Extract
    <3>3. CASE task[elems[i].fut] # "ready"
      BY <2>3, <3>1, <3>3 DEF Extract
    <3> QED
      BY <3>2, <3>3
  <2> QED
    BY <1>8, <2>1, <2>2, <2>3 DEF ValueIfReady
<1>9. CASE Tick
  BY <1>9 DEF Tick
<1>10. CASE Gc
  BY <1>10 DEF Gc
<1>11. CASE UNCHANGED vars
  BY <1>11 DEF vars
<1> QED
  BY <1>1, <1>2, <1>3, <1>4, <1>5, <1>6, <1>7, <1>8, <1>9, <1>10, <1>11
  DEF NextWithGc, Next, Launch

\* The parts of the invariant that relate the entries, the tasks and the
\* threads.
Parts == OneSearch /\ JobsHeld /\ TicketsKept /\ NoOrphans /\ ExpiryFollowsTask

\* They are about these variables only.
LEMMA PartsQuiet ==
  Inv /\ UNCHANGED <<elems, mut, pc, job, task, id>> => Parts'
BY DEF Inv, Parts, OneSearch, JobsHeld, TicketsKept, NoOrphans, ExpiryFollowsTask,
       Outstanding, Used

\* The steps of launch().
LEMMA LaunchParts == ASSUME Inv, NEW t \in Threads, Launch(t) PROVE Parts'
<1> USE DEF Inv, storeVars, threadVars, taskVars
<1>1. ASSUME NEW k \in Tasks, Refuse(t, k) PROVE Parts'
  <2>1. /\ task[k] = "new" /\ task' = [task EXCEPT ![k] = "refused"]
        /\ UNCHANGED <<elems, mut, pc, job, id>>
    BY <1>1 DEF Refuse
  <2>2. Outstanding' = Outstanding /\ Used' = Used
    BY <2>1 DEF Outstanding, Used, TypeOK
  <2>3. OneSearch' /\ JobsHeld'
    BY <2>1 DEF OneSearch, JobsHeld, TypeOK
  <2>4. TicketsKept' /\ NoOrphans'
    BY <2>1, <2>2 DEF TicketsKept, NoOrphans
  <2>5. ExpiryFollowsTask'
    BY <2>1, <2>2 DEF ExpiryFollowsTask, TypeOK
  <2> QED
    BY <2>3, <2>4, <2>5 DEF Parts
<1>2. ASSUME NEW k \in Tasks, Admit(t, k) PROVE Parts'
  <2>1. /\ task[k] = "new" /\ task' = [task EXCEPT ![k] = "called"]
        /\ pc[t] = "idle" /\ pc' = [pc EXCEPT ![t] = "locking"]
        /\ job' = [job EXCEPT ![t] = k]
        /\ UNCHANGED <<elems, mut, id>>
    BY <1>2 DEF Admit
  <2>2. Outstanding' = Outstanding /\ Used' = Used
    BY <2>1 DEF Outstanding, Used, TypeOK
  <2>3. OneSearch'
    BY <2>1 DEF OneSearch, TypeOK
  <2>4. JobsHeld'
    BY <2>1 DEF JobsHeld, TypeOK
  <2>5. TicketsKept' /\ NoOrphans'
    BY <2>1, <2>2 DEF TicketsKept, NoOrphans
  <2>6. ExpiryFollowsTask'
    BY <2>1, <2>2 DEF ExpiryFollowsTask, TypeOK
  <2> QED
    BY <2>3, <2>4, <2>5, <2>6 DEF Parts
<1>3. CASE LockForLaunch(t)
  <2>1. /\ mut = Nobody /\ mut' = t
        /\ pc[t] = "locking" /\ pc' = [pc EXCEPT ![t] = "searching"]
        /\ UNCHANGED <<elems, job, task, id>>
    BY <1>3 DEF LockForLaunch
  <2>2. OneSearch' /\ JobsHeld'
    BY <2>1 DEF OneSearch, JobsHeld, TypeOK
  <2>3. TicketsKept' /\ NoOrphans' /\ ExpiryFollowsTask'
    BY <2>1 DEF TicketsKept, NoOrphans, ExpiryFollowsTask, Outstanding, Used
  <2> QED
    BY <2>2, <2>3 DEF Parts
<1>4. CASE ProbeTaken(t) \/ StartFails(t)
  BY <1>4, PartsQuiet DEF ProbeTaken, StartFails
<1>5. CASE Insert(t)
  <2> DEFINE k == job[t]
             i == NextProbe
  <2>1. /\ k \in Tasks /\ i \in Keys
        /\ task[k] = "called" /\ k \notin Outstanding
        /\ \A u \in Threads : u # t /\ pc[u] # "idle" => job[u] # k
    BY <1>5, ProbeIsKey DEF Insert, JobsHeld, TypeOK, Outstanding
  <2>2. /\ elems[i] = Free /\ elems' = [elems EXCEPT ![i] = Entry(InitExpire, k)]
        /\ task' = [task EXCEPT ![k] = "running"]
        /\ id' = [id EXCEPT ![k] = i]
        /\ pc[t] = "searching" /\ pc' = [pc EXCEPT ![t] = "idle"]
        /\ mut' = Nobody /\ job' = [job EXCEPT ![t] = NoTask]
    BY <1>5 DEF Insert
  <2> HIDE DEF k, i
  <2>3. Entry(InitExpire, k) \in Element
    BY <2>1
  <2>4. Outstanding' = Outstanding \cup {k} /\ Used' = Used \cup {i} /\ i \notin Used
    BY <2>1, <2>2, <2>3 DEF Outstanding, Used, TypeOK
  <2>5. OneSearch'
    BY <2>1, <2>2 DEF OneSearch, TypeOK
  <2>6. JobsHeld'
    <3>1. \A u \in Threads : pc'[u] # "idle" => u # t /\ pc[u] # "idle" /\ job'[u] = job[u]
      BY <2>2 DEF TypeOK
    <3>2. \A u \in Threads : pc'[u] # "idle" => task'[job'[u]] = task[job[u]]
      BY <2>1, <2>2, <3>1 DEF TypeOK
    <3> QED
      BY <3>1, <3>2 DEF JobsHeld
  <2>7. TicketsKept'
    BY <2>1, <2>2, <2>4 DEF TicketsKept, TypeOK
  <2>8. NoOrphans'
    BY <2>1, <2>2, <2>4 DEF NoOrphans, TypeOK, Used
  <2>9. ExpiryFollowsTask'
    <3>1. ASSUME NEW j \in Outstanding
          PROVE  (elems'[id'[j]].expires = InitExpire)
                   <=> (task'[j] \in {"running", "returned", "threw"})
      BY <2>1, <2>2, <2>4 DEF ExpiryFollowsTask, TicketsKept, TypeOK, Outstanding
    <3> QED
      BY <2>1, <2>2, <2>4, <3>1 DEF ExpiryFollowsTask, TypeOK
  <2> QED
    BY <2>5, <2>6, <2>7, <2>8, <2>9 DEF Parts
<1> QED
  BY <1>1, <1>2, <1>3, <1>4, <1>5 DEF Launch

\* The steps of a task's thread.
LEMMA RunParts == ASSUME Inv, NEW k \in Tasks, RunTask(k) PROVE Parts'
<1> USE DEF Inv, storeVars, threadVars, taskVars
<1>1. ASSUME NEW s \in {"returned", "threw", "ready"},
             task' = [task EXCEPT ![k] = s],
             task[k] \in {"running", "housekept"},
             task[k] = "housekept" <=> s = "ready",
             UNCHANGED <<elems, mut, pc, job, id>>
      PROVE  Parts'
  <2>1. Outstanding' = Outstanding /\ Used' = Used
    BY <1>1 DEF Outstanding, Used, TypeOK
  <2>2. OneSearch' /\ JobsHeld'
    BY <1>1 DEF OneSearch, JobsHeld, TypeOK
  <2>3. TicketsKept' /\ NoOrphans'
    BY <1>1, <2>1 DEF TicketsKept, NoOrphans
  <2>4. ExpiryFollowsTask'
    BY <1>1, <2>1 DEF ExpiryFollowsTask, TypeOK
  <2> QED
    BY <2>2, <2>3, <2>4 DEF Parts
<1>2. CASE FcnReturns(k)
  BY <1>1, <1>2 DEF FcnReturns
<1>3. CASE FcnThrows(k)
  BY <1>1, <1>3 DEF FcnThrows
<1>4. CASE BecomeReady(k)
  BY <1>1, <1>4 DEF BecomeReady
<1>5. CASE Housekeep(k)
  <2>1. /\ task[k] = "returned" /\ task' = [task EXCEPT ![k] = "housekept"]
        /\ UNCHANGED <<mut, pc, job, id>>
    BY <1>5 DEF Housekeep
  <2>2. id[k] \in Used /\ elems[id[k]].fut = k
    BY <2>1 DEF TicketsKept, Outstanding
  <2>3. elems' = [elems EXCEPT ![id[k]] = Entry(now + DefaultExpire, k)]
    BY <1>5, <2>2 DEF Housekeep, Used
  <2>4. Entry(now + DefaultExpire, k) \in Element /\ now + DefaultExpire # InitExpire
    BY DEF TypeOK
  <2>5. Outstanding' = Outstanding /\ Used' = Used /\ k \in Outstanding
    BY <2>1, <2>2, <2>3, <2>4 DEF Outstanding, Used, TypeOK
  <2>6. OneSearch' /\ JobsHeld'
    BY <2>1 DEF OneSearch, JobsHeld, TypeOK
  <2>7. \A i \in Keys : elems'[i] = IF i = id[k] THEN Entry(now + DefaultExpire, k) ELSE elems[i]
    BY <2>3 DEF TypeOK
  <2>8. TicketsKept' /\ NoOrphans'
    BY <2>1, <2>2, <2>5, <2>7 DEF TicketsKept, NoOrphans, Used
  <2>9. \A j \in Outstanding : id[j] \in Keys /\ (j # k => id[j] # id[k])
    BY <2>2 DEF TicketsKept, Used
  <2>10. ExpiryFollowsTask'
    <3>1. ASSUME NEW j \in Outstanding
          PROVE  (elems'[id[j]].expires = InitExpire)
                   <=> (task'[j] \in {"running", "returned", "threw"})
      <4>1. CASE j = k
        BY <2>1, <2>4, <2>7, <2>9, <4>1 DEF TypeOK
      <4>2. CASE j # k
        BY <2>1, <2>7, <2>9, <4>2 DEF TypeOK, ExpiryFollowsTask
      <4> QED
        BY <4>1, <4>2
    <3> QED
      BY <2>1, <2>5, <3>1 DEF ExpiryFollowsTask
  <2> QED
    BY <2>6, <2>8, <2>10 DEF Parts
<1> QED
  BY <1>2, <1>3, <1>4, <1>5 DEF RunTask

\* Taking entries out of the store, one by value_if_ready() or several by
\* gc(): the tasks of the erased entries are the ones that leave Outstanding.
LEMMA EraseParts ==
  ASSUME Inv, NEW S \in SUBSET Used,
         NEW s \in {"delivered", "rethrown", "discarded"},
         \A i \in S : task[elems[i].fut] \in {"ready", "threw"},
         elems' = [i \in Keys |-> IF i \in S THEN Free ELSE elems[i]],
         task' = [k \in Tasks |-> IF \E i \in S : elems[i].fut = k THEN s ELSE task[k]],
         UNCHANGED <<mut, pc, job, id>>
  PROVE  Parts'
<1> USE DEF Inv
<1>1. Used' = Used \ S
  BY DEF Used
<1>2. \A i \in S : elems[i].fut \in Tasks
  BY DEF NoOrphans, Outstanding
<1>3. Outstanding' = {k \in Outstanding : id[k] \notin S}
  <2>1. \A k \in Outstanding : (\E i \in S : elems[i].fut = k) <=> id[k] \in S
    BY DEF NoOrphans, TicketsKept
  <2>2. \A k \in Tasks : k \notin Outstanding => ~ \E i \in S : elems[i].fut = k
    BY DEF NoOrphans
  <2> QED
    BY <2>1, <2>2 DEF Outstanding
<1>4. \A k \in Outstanding : id[k] \notin S => task'[k] = task[k] /\ elems'[id[k]] = elems[id[k]]
  BY DEF NoOrphans, TicketsKept, Used, Outstanding
<1>5. OneSearch'
  BY DEF OneSearch
<1>6. JobsHeld'
  BY <1>2 DEF JobsHeld, NoOrphans, Outstanding
<1>7. TicketsKept'
  <2>1. ASSUME NEW k \in Outstanding, id[k] \notin S
        PROVE  id[k] \in Used' /\ elems'[id[k]].fut = k
    BY <1>1, <1>4, <2>1 DEF TicketsKept
  <2> QED
    BY <1>3, <2>1 DEF TicketsKept
<1>8. NoOrphans'
  <2>1. \A i \in Used \ S : elems'[i] = elems[i] /\ elems[i].fut \in Outstanding
    BY DEF Used, NoOrphans
  <2> QED
    BY <1>1, <1>3, <2>1 DEF NoOrphans
<1>9. ExpiryFollowsTask'
  BY <1>3, <1>4 DEF ExpiryFollowsTask
<1> QED
  BY <1>5, <1>6, <1>7, <1>8, <1>9 DEF Parts

\* value_if_ready().
LEMMA RetrieveParts ==
  ASSUME Inv, NEW t \in Threads, NEW i \in Keys, ValueIfReady(t, i) PROVE Parts'
<1> USE DEF storeVars, threadVars, taskVars
<1>1. CASE MissingEntry(t, i) \/ StillRunning(t, i)
  BY <1>1, PartsQuiet DEF MissingEntry, StillRunning
<1>2. CASE Extract(t, i)
  <2>1. PICK s \in {"delivered", "rethrown"} :
          /\ elems' = [elems EXCEPT ![i] = Free]
          /\ task' = [task EXCEPT ![elems[i].fut] = s]
    BY <1>2 DEF Extract
  <2>2. /\ i \in Used /\ elems[i].fut \in Tasks /\ task[elems[i].fut] \in {"ready", "threw"}
        /\ UNCHANGED <<mut, pc, job, id>>
    BY <1>2 DEF Extract, Ready, Used, Inv, TypeOK
  <2>3. elems' = [j \in Keys |-> IF j \in {i} THEN Free ELSE elems[j]]
    BY <2>1 DEF Inv, TypeOK
  <2>4. task' = [k \in Tasks |-> IF \E j \in {i} : elems[j].fut = k THEN s ELSE task[k]]
    BY <2>1 DEF Inv, TypeOK
  <2>5. {i} \in SUBSET Used /\ \A j \in {i} : task[elems[j].fut] \in {"ready", "threw"}
    BY <2>2
  <2>6. s \in {"delivered", "rethrown", "discarded"}
    OBVIOUS
  <2> HIDE DEF Inv, Parts
  <2> QED
    BY <2>2, <2>3, <2>4, <2>5, <2>6, EraseParts
<1> QED
  BY <1>1, <1>2 DEF ValueIfReady

\* gc(), whatever the clock says of the entries it erases.
LEMMA GcParts == ASSUME Inv, Gc PROVE Parts'
<1> DEFINE S == {i \in Keys : Discarded(i)}
<1>1. S \in SUBSET Used /\ \A i \in S : task[elems[i].fut] \in {"ready", "threw"}
  BY DEF Discarded, Used, Ready
<1>2. elems' = [i \in Keys |-> IF i \in S THEN Free ELSE elems[i]]
  BY DEF Gc
<1>3. task' = [k \in Tasks |-> IF \E i \in S : elems[i].fut = k THEN "discarded" ELSE task[k]]
  BY DEF Gc, Discarded
<1>4. UNCHANGED <<mut, pc, job, id>>
  BY DEF Gc, threadVars
<1> QED
  BY <1>1, <1>2, <1>3, <1>4, EraseParts

\* The invariant is inductive, with and without a caller of gc().
LEMMA StepInv == Inv /\ [NextWithGc]_vars => Inv'
<1> SUFFICES ASSUME Inv, [NextWithGc]_vars PROVE Parts'
  BY TypeStep DEF Inv, Parts
<1>1. CASE UNCHANGED vars \/ Tick
  BY <1>1, PartsQuiet DEF vars, storeVars, threadVars, taskVars, Tick
<1> QED
  BY <1>1, LaunchParts, RunParts, RetrieveParts, GcParts DEF NextWithGc, Next

\* The invariant holds, whether or not gc() has a caller.
THEOREM InvWithGc == SpecWithGc => []Inv
BY InitInv, StepInv, PTL DEF SpecWithGc

\* ... and so it does in the program as it is.
THEOREM InvHolds == Spec => []Inv
<1>1. Inv /\ [Next]_vars => Inv'
  BY StepInv DEF NextWithGc
<1> QED
  BY InitInv, <1>1, PTL DEF Spec

\* The variables keep their types.
THEOREM TypeCorrect == Spec => []TypeOK
BY InvHolds, PTL DEF Inv

\* Every task in the store owns the entry under the key that launch() returned
\* for it: no launch() hands out a key in use, no housekeeping of a lambda
\* misses its entry, no retrieval takes another task's.
THEOREM TicketsAreKept == Spec => []TicketsKept
BY InvHolds, PTL DEF Inv

\* Every entry is that of a task in the store, with a valid future.
THEOREM NoOrphanEntries == Spec => []NoOrphans
BY InvHolds, PTL DEF Inv

\* An entry has the initial expiry until its task's housekeeping, never after.
THEOREM ExpiryIsSetOnCompletion == Spec => []ExpiryFollowsTask
BY InvHolds, PTL DEF Inv

\* get_free_id() runs in one thread at a time, the one that holds the mutex.
THEOREM OneSearchAtATime == Spec => []OneSearch
BY InvHolds, PTL DEF Inv

-----------------------------------------------------------------------------
\* What a client is told fits the task whose key it asked for.
LEMMA AnswersStep == Inv /\ AnswersFit /\ [Next]_vars => AnswersFit'
<1> SUFFICES ASSUME Inv, AnswersFit, [Next]_vars PROVE AnswersFit'
  OBVIOUS
<1>1. CASE answer' = NoAnswer
  BY <1>1 DEF AnswersFit, NoAnswer
<1>2. CASE UNCHANGED vars
  BY <1>2 DEF AnswersFit, Outstanding, vars, taskVars
<1>3. ASSUME NEW t \in Threads, NEW i \in Keys, ValueIfReady(t, i) PROVE AnswersFit'
  <2>1. CASE MissingEntry(t, i)
    <3>1. \A k \in Outstanding : id[k] # i
      BY <2>1 DEF MissingEntry, Inv, TicketsKept, Used
    <3> QED
      BY <2>1, <3>1 DEF MissingEntry, AnswersFit, Outstanding, taskVars
  <2>2. CASE StillRunning(t, i)
    <3>1. elems[i].fut \in Outstanding /\ id[elems[i].fut] = i
      BY <2>2 DEF StillRunning, Inv, NoOrphans, Used
    <3> QED
      BY <2>2, <3>1 DEF StillRunning, AnswersFit, Outstanding, taskVars
  <2>3. CASE Extract(t, i) /\ answer' # NoAnswer
    <3>1. elems[i].fut \in Tasks /\ id[elems[i].fut] = i
      BY <2>3 DEF Extract, Inv, NoOrphans, Used, Outstanding
    <3>2. /\ answer' = [status |-> "finished", key |-> i, body |-> elems[i].fut]
          /\ task' = [task EXCEPT ![elems[i].fut] = "delivered"] /\ id' = id
      BY <2>3 DEF Extract
    <3>3. task'[elems[i].fut] = "delivered"
      BY <3>1, <3>2 DEF Inv, TypeOK
    <3> QED
      BY <3>1, <3>2, <3>3 DEF AnswersFit
  <2> QED
    BY <1>1, <1>3, <2>1, <2>2, <2>3 DEF ValueIfReady
<1> QED
  BY <1>1, <1>2, <1>3 DEF Next, Launch, RunTask, Refuse, Admit, LockForLaunch, ProbeTaken, Insert,
     StartFails, FcnReturns, FcnThrows, Housekeep, BecomeReady, Tick

\* Every answer of value_if_ready() fits: a body is that of the task the key
\* was given to, complete; a task in the store is never reported missing.
THEOREM AnswersAreRight == Spec => []AnswersFit
<1>1. Init => AnswersFit
  BY DEF Init, AnswersFit, NoAnswer
<1> QED
  BY <1>1, InvHolds, AnswersStep, PTL DEF Spec

-----------------------------------------------------------------------------
(* The store implements AsyncResults. *)

\* A step that leaves tasks, keys and the server alone is a stutter.
LEMMA Stutter == UNCHANGED <<task, id, terminated>> => UNCHANGED Results!vars
BY DEF Results!vars, clientStatus

\* A step that moves one task on moves it on in the abstract.
LEMMA Moves ==
  ASSUME TypeOK, NEW k \in Tasks, NEW s \in {"refused", "running", "ready", "threw", "delivered", "rethrown"},
         task' = [task EXCEPT ![k] = s]
  PROVE  Results!Become(k, IF s = "running" THEN "pending" ELSE s)
BY DEF Results!Become, clientStatus, TypeOK

\* Every step of the store is a step of AsyncResults or a stutter.
LEMMA ResultsStep == Inv /\ [Next]_vars => [Results!Next]_Results!vars
<1> SUFFICES ASSUME Inv, [Next]_vars PROVE Results!Next \/ UNCHANGED Results!vars
  OBVIOUS
<1> USE DEF storeVars, threadVars, taskVars
<1>0. TypeOK
  BY DEF Inv
<1>1. ASSUME ~terminated, NEW t \in Threads, Launch(t) PROVE Results!Next \/ UNCHANGED Results!vars
  <2>1. ASSUME NEW k \in Tasks, Refuse(t, k) PROVE Results!Refuse(k)
    <3>1. Results!Become(k, "refused")
      BY <1>0, <2>1, Moves DEF Refuse
    <3> QED
      BY <2>1, <3>1 DEF Refuse, Results!Refuse, clientStatus
  <2>2. ASSUME NEW k \in Tasks, Admit(t, k) PROVE UNCHANGED Results!vars
    BY <1>0, <2>2 DEF Admit, Results!vars, clientStatus, TypeOK
  <2>3. CASE LockForLaunch(t) \/ ProbeTaken(t)
    BY <2>3, Stutter DEF LockForLaunch, ProbeTaken
  <2>4. CASE Insert(t)
    <3>1. job[t] \in Tasks /\ task[job[t]] = "called"
      BY <2>4 DEF Insert, Inv, JobsHeld
    <3>2. Results!Become(job[t], "pending")
      BY <1>0, <2>4, <3>1, Moves DEF Insert
    <3>3. NextProbe \in Keys
      BY <1>0, ProbeIsKey DEF TypeOK
    <3>4. \A k \in Results!Stored : k \in Outstanding
      BY <1>0 DEF Results!Stored, clientStatus, Outstanding, TypeOK
    <3>5. \A k \in Results!Stored : id[k] # NextProbe
      BY <2>4, <3>4 DEF Insert, Inv, TicketsKept, Used
    <3>6. clientStatus[job[t]] = "new"
      BY <3>1 DEF clientStatus
    <3>7. Results!Accept(job[t], NextProbe)
      BY <2>4, <3>2, <3>5, <3>6 DEF Insert, Results!Accept
    <3> QED
      BY <1>1, <3>1, <3>3, <3>7 DEF Results!Next
  <2>5. CASE StartFails(t)
    BY <1>1, <2>5 DEF StartFails, Results!Next, Results!Crash, clientStatus
  <2> QED
    BY <1>1, <2>1, <2>2, <2>3, <2>4, <2>5 DEF Launch, Results!Next
<1>2. ASSUME ~terminated, NEW k \in Tasks, RunTask(k) PROVE Results!Next \/ UNCHANGED Results!vars
  <2>1. CASE FcnThrows(k)
    <3>1. Results!Become(k, "threw") /\ clientStatus[k] = "pending"
      BY <1>0, <2>1, Moves DEF FcnThrows, clientStatus
    <3> QED
      BY <1>2, <2>1, <3>1 DEF FcnThrows, Results!Next, Results!Complete
  <2>2. CASE BecomeReady(k)
    <3>1. Results!Become(k, "ready") /\ clientStatus[k] = "pending"
      BY <1>0, <2>2, Moves DEF BecomeReady, clientStatus
    <3> QED
      BY <1>2, <2>2, <3>1 DEF BecomeReady, Results!Next, Results!Complete
  <2>3. CASE FcnReturns(k) \/ Housekeep(k)
    BY <1>0, <2>3 DEF FcnReturns, Housekeep, Results!vars, clientStatus, TypeOK
  <2> QED
    BY <1>2, <2>1, <2>2, <2>3 DEF RunTask
<1>3. ASSUME ~terminated, NEW t \in Threads, NEW i \in Keys, ValueIfReady(t, i)
      PROVE  Results!Next \/ UNCHANGED Results!vars
  <2>1. CASE MissingEntry(t, i) \/ StillRunning(t, i)
    BY <2>1, Stutter DEF MissingEntry, StillRunning
  <2>2. CASE Extract(t, i)
    <3> DEFINE k == elems[i].fut
    <3>1. k \in Tasks /\ task[k] \in {"ready", "threw"} /\ clientStatus[k] = task[k]
      BY <1>0, <2>2 DEF Extract, Ready, TypeOK, clientStatus
    <3>2. CASE task[k] = "ready"
      <4>1. task' = [task EXCEPT ![k] = "delivered"] /\ UNCHANGED <<id, terminated>>
        BY <2>2, <3>2 DEF Extract
      <4>2. Results!Become(k, "delivered")
        BY <1>0, <3>1, <4>1, Moves
      <4> QED
        BY <1>3, <3>1, <3>2, <4>1, <4>2 DEF Results!Next, Results!HandOut
    <3>3. CASE task[k] = "threw"
      <4>1. task' = [task EXCEPT ![k] = "rethrown"] /\ terminated' = TRUE /\ id' = id
        BY <2>2, <3>3 DEF Extract
      <4>2. Results!Become(k, "rethrown")
        BY <1>0, <3>1, <4>1, Moves
      <4> QED
        BY <1>3, <3>1, <3>3, <4>1, <4>2 DEF Results!Next, Results!HandOut
    <3> QED
      BY <3>1, <3>2, <3>3
  <2> QED
    BY <1>3, <2>1, <2>2 DEF ValueIfReady
<1>4. CASE Tick \/ UNCHANGED vars
  BY <1>4, Stutter DEF Tick, vars
<1> QED
  BY <1>1, <1>2, <1>3, <1>4 DEF Next

\* For the clients the store is a set of results, each with a key of its own
\* and handed out at most once: Spec implements the safety part of AsyncResults.
THEOREM Refinement == Spec => Results!Spec
<1>1. Init => Results!Init
  BY DEF Init, Results!Init, clientStatus
<1> QED
  BY <1>1, InvHolds, ResultsStep, PTL DEF Spec, Results!Spec

-----------------------------------------------------------------------------
(* With one io thread (http_threads = 1) nothing comes between the size    *)
(* check of launch() and the insertion, and the store never fills up.      *)

Room ==
  /\ Cardinality(Used) <= NKeys - 1
  /\ (\E t \in Threads : pc[t] # "idle") => Cardinality(Used) <= NKeys - 2

\* The number of entries is a number, and what a change of one key does to it.
LEMMA UsedFinite ==
  /\ IsFiniteSet(Used) /\ Cardinality(Used) \in Nat
  /\ Cardinality(Keys) = NKeys
<1>1. IsFiniteSet(Keys) /\ Cardinality(Keys) = NKeys
  BY FS_Interval
<1>2. Used \subseteq Keys
  BY DEF Used
<1> QED
  BY <1>1, <1>2, FS_Subset, FS_CardinalityType

LEMMA RoomStep ==
  (\A t, u \in Threads : t = u) /\ Inv /\ Room /\ [Next]_vars => Room'
<1> SUFFICES ASSUME \A t, u \in Threads : t = u, Inv, Room, [Next]_vars PROVE Room'
  OBVIOUS
<1> USE UsedFinite DEF storeVars, threadVars, taskVars
<1>1. CASE UNCHANGED <<elems, pc>>
  BY <1>1 DEF Room, Used
<1>2. ASSUME NEW t \in Threads, NEW k \in Tasks, Admit(t, k) PROVE Room'
  <2>1. Used' = Used /\ Cardinality(Used) # NKeys - 1
    BY <1>2 DEF Admit, Used
  <2> QED
    BY <2>1 DEF Room
<1>3. ASSUME NEW t \in Threads, LockForLaunch(t) PROVE Room'
  <2>1. Used' = Used /\ pc[t] # "idle"
    BY <1>3 DEF LockForLaunch, Used
  <2> QED
    BY <2>1 DEF Room
<1>4. ASSUME NEW t \in Threads, Insert(t) PROVE Room'
  <2>1. /\ NextProbe \in Keys /\ elems' = [elems EXCEPT ![NextProbe] = Entry(InitExpire, job[t])]
        /\ pc[t] = "searching" /\ pc' = [pc EXCEPT ![t] = "idle"] /\ job[t] \in Tasks
    BY <1>4, ProbeIsKey DEF Insert, Inv, JobsHeld, TypeOK
  <2>2. Used' \subseteq Used \cup {NextProbe}
    BY <2>1 DEF Used, Inv, TypeOK
  <2>3. Cardinality(Used') <= Cardinality(Used \cup {NextProbe})
    BY <2>2, FS_Subset, FS_AddElement
  <2>4. Cardinality(Used \cup {NextProbe}) <= Cardinality(Used) + 1
    <3> HIDE DEF Used, NextProbe
    <3>1. Cardinality(Used \cup {NextProbe})
            = IF NextProbe \in Used THEN Cardinality(Used) ELSE Cardinality(Used) + 1
      BY FS_AddElement, Zenon
    <3> QED
      BY <3>1
  <2>5. Cardinality(Used) <= NKeys - 2
    BY <2>1 DEF Room
  <2>6. Cardinality(Used') \in Nat /\ Cardinality(Used \cup {NextProbe}) \in Nat
    BY <2>2, FS_Subset, FS_AddElement, FS_CardinalityType
  <2>7. \A u \in Threads : pc'[u] = "idle"
    BY <2>1 DEF Inv, TypeOK
  <2> QED
    BY <2>3, <2>4, <2>5, <2>6, <2>7 DEF Room
<1>5. ASSUME NEW k \in Tasks, Housekeep(k) PROVE Room'
  <2>1. id[k] \in Used /\ pc' = pc
    BY <1>5 DEF Housekeep, Inv, TicketsKept, Outstanding
  <2>2. Used' \subseteq Used
    BY <1>5, <2>1 DEF Housekeep, Used, Inv, TypeOK
  <2>3. Cardinality(Used') <= Cardinality(Used) /\ Cardinality(Used') \in Nat
    BY <2>2, FS_Subset, FS_CardinalityType
  <2> QED
    BY <2>1, <2>3 DEF Room
<1>6. ASSUME NEW t \in Threads, NEW i \in Keys, Extract(t, i) PROVE Room'
  <2>1. Used' \subseteq Used /\ pc' = pc
    BY <1>6 DEF Extract, Used, Inv, TypeOK
  <2>2. Cardinality(Used') <= Cardinality(Used) /\ Cardinality(Used') \in Nat
    BY <2>1, FS_Subset, FS_CardinalityType
  <2> QED
    BY <2>1, <2>2 DEF Room
<1> QED
  BY <1>1, <1>2, <1>3, <1>4, <1>5, <1>6
  DEF Next, vars, Launch, RunTask, ValueIfReady, Refuse, ProbeTaken, StartFails, FcnReturns, FcnThrows,
      BecomeReady, MissingEntry, StillRunning, Tick

\* With one io thread, launch() never searches a full store for a key: the
\* size check alone keeps get_free_id() from running for ever.
THEOREM OneThreadNeverSpins ==
  ASSUME \A t, u \in Threads : t = u
  PROVE  Spec => []FullStoreRefuses
<1>1. Init => Room
  <2> SUFFICES ASSUME Init PROVE Room
    OBVIOUS
  <2>1. Used = {} /\ \A t \in Threads : pc[t] = "idle"
    BY DEF Init, Used
  <2> QED
    BY <2>1, FS_EmptySet DEF Room
<1>2. Room => FullStoreRefuses
  BY UsedFinite DEF Room, FullStoreRefuses
<1> QED
  BY <1>1, <1>2, RoomStep, InvHolds, PTL DEF Spec
-----------------------------------------------------------------------------
(* The keys come in order: a search starts at the last key given out, and  *)
(* no entry leaves the store while it runs, because it holds the mutex.    *)

\* The key d places after the last one.
KeyAfter(d) == (last_id + d) % NKeys

\* All keys between the last one given out and the one the search stands at
\* are in use.
ProbesInOrder ==
  (\E t \in Threads : pc[t] = "searching")
    => \E s \in 0 .. NKeys : probe = KeyAfter(s) /\ \A e \in 1 .. s : KeyAfter(e) \in Used

\* Counting on from a key goes round at most once in NKeys steps.
LEMMA Round ==
  ASSUME NEW k \in Keys, NEW d \in 0 .. NKeys
  PROVE  (k + d) % NKeys = IF k + d < NKeys THEN k + d ELSE k + d - NKeys
<1>1. ASSUME NEW a \in 0 .. NKeys - 1 PROVE a % NKeys = a
  OBVIOUS
<1>2. ASSUME NEW a \in NKeys .. 2 * NKeys - 1 PROVE a % NKeys = a - NKeys
  OBVIOUS
<1>3. CASE k + d < NKeys
  BY <1>1, <1>3
<1>4. CASE k + d >= NKeys
  BY <1>2, <1>4
<1> QED
  BY <1>3, <1>4

\* The key that follows the key s places after the last one is s + 1 places
\* after it, or the first one again after a whole round.
LEMMA NextInOrder ==
  ASSUME last_id \in Keys, NEW s \in 0 .. NKeys, probe = KeyAfter(s)
  PROVE  NextProbe = KeyAfter(IF s = NKeys THEN 1 ELSE s + 1)
<1>1. KeyAfter(s) = IF last_id + s < NKeys THEN last_id + s ELSE last_id + s - NKeys
  BY Round DEF KeyAfter
<1>2. probe \in Keys /\ 1 \in 0 .. NKeys
  BY <1>1
<1>3. NextProbe = IF probe + 1 < NKeys THEN probe + 1 ELSE probe + 1 - NKeys
  BY <1>2, Round DEF NextProbe
<1>4. CASE s = NKeys
  <2>1. KeyAfter(1) = IF last_id + 1 < NKeys THEN last_id + 1 ELSE last_id + 1 - NKeys
    BY <1>2, Round DEF KeyAfter
  <2> QED
    BY <1>1, <1>3, <1>4, <2>1
<1>5. CASE s < NKeys
  <2>1. s + 1 \in 0 .. NKeys
    BY <1>5
  <2>2. KeyAfter(s + 1)
          = IF last_id + (s + 1) < NKeys THEN last_id + (s + 1) ELSE last_id + (s + 1) - NKeys
    BY <2>1, Round DEF KeyAfter
  <2> QED
    BY <1>1, <1>3, <1>5, <2>2
<1> QED
  BY <1>4, <1>5

LEMMA OrderStep == Inv /\ ProbesInOrder /\ [Next]_vars => ProbesInOrder'
<1> SUFFICES ASSUME Inv, ProbesInOrder, [Next]_vars PROVE ProbesInOrder'
  OBVIOUS
<1> USE DEF storeVars, threadVars, taskVars
<1>1. CASE UNCHANGED <<elems, last_id, probe, pc>>
  BY <1>1 DEF ProbesInOrder, KeyAfter, Used
\* A thread that enters launch() is not searching yet.
<1>2. ASSUME NEW t \in Threads, NEW k \in Tasks, Admit(t, k) PROVE ProbesInOrder'
  <2>1. UNCHANGED <<elems, last_id, probe>> /\ \A u \in Threads : pc'[u] = "searching" => pc[u] = "searching"
    BY <1>2 DEF Admit, Inv, TypeOK
  <2> QED
    BY <2>1 DEF ProbesInOrder, KeyAfter, Used
\* A search starts at the last key, nothing passed over.
<1>3. ASSUME NEW t \in Threads, LockForLaunch(t) PROVE ProbesInOrder'
  <2>1. UNCHANGED <<elems, last_id>> /\ probe' = last_id /\ last_id \in Keys
    BY <1>3 DEF LockForLaunch, Inv, TypeOK
  <2>2. 0 \in 0 .. NKeys /\ KeyAfter(0) = last_id
    <3>1. 0 \in 0 .. NKeys /\ last_id + 0 = last_id /\ last_id < NKeys
      BY <2>1
    <3>2. (last_id + 0) % NKeys = last_id
      BY <2>1, <3>1, Round
    <3> QED
      BY <3>1, <3>2 DEF KeyAfter
  <2>3. probe' = KeyAfter(0)' /\ \A e \in 1 .. 0 : KeyAfter(e)' \in Used'
    BY <2>1, <2>2 DEF KeyAfter
  <2> QED
    BY <2>2, <2>3 DEF ProbesInOrder
\* The key it leaves behind is in use.
<1>4. ASSUME NEW t \in Threads, ProbeTaken(t) PROVE ProbesInOrder'
  <2>1. /\ UNCHANGED <<elems, last_id, pc>> /\ probe' = NextProbe /\ elems[NextProbe] # Free
        /\ pc[t] = "searching" /\ last_id \in Keys /\ probe \in Keys
    BY <1>4 DEF ProbeTaken, Inv, TypeOK
  <2>2. PICK s \in 0 .. NKeys : probe = KeyAfter(s) /\ \A e \in 1 .. s : KeyAfter(e) \in Used
    BY <2>1 DEF ProbesInOrder
  <2> DEFINE n == IF s = NKeys THEN 1 ELSE s + 1
  <2>3. NextProbe = KeyAfter(n)
    BY <2>1, <2>2, NextInOrder
  <2>4. NextProbe \in Used
    BY <2>1, ProbeIsKey DEF Used
  <2>5. n \in 0 .. NKeys /\ \A e \in 1 .. n : e \in 1 .. s \/ e = n
    OBVIOUS
  <2> HIDE DEF n
  <2>6. \A e \in 1 .. n : KeyAfter(e) \in Used
    BY <2>2, <2>3, <2>4, <2>5
  <2>7. probe' = KeyAfter(n)' /\ \A e \in 1 .. n : KeyAfter(e)' \in Used'
    BY <2>1, <2>3, <2>6 DEF KeyAfter, Used
  <2> QED
    BY <2>5, <2>7 DEF ProbesInOrder
\* The search ends with the allocation, and it was the only one.
<1>5. ASSUME NEW t \in Threads, Insert(t) PROVE ProbesInOrder'
  <2>1. pc' = [pc EXCEPT ![t] = "idle"] /\ \A u \in Threads : pc[u] = "searching" => u = t
    BY <1>5 DEF Insert, Inv, OneSearch
  <2>2. \A u \in Threads : pc'[u] # "searching"
    BY <2>1 DEF Inv, TypeOK
  <2> QED
    BY <2>2 DEF ProbesInOrder
\* What writes the store under the mutex does so while nobody searches.
<1>6. ASSUME mut = Nobody, UNCHANGED pc PROVE ProbesInOrder'
  <2>1. \A u \in Threads : pc'[u] # "searching"
    BY <1>6 DEF Inv, OneSearch
  <2> QED
    BY <2>1 DEF ProbesInOrder
<1>7. ASSUME NEW k \in Tasks, Housekeep(k) PROVE ProbesInOrder'
  BY <1>6, <1>7 DEF Housekeep
<1>8. ASSUME NEW t \in Threads, NEW i \in Keys, Extract(t, i) PROVE ProbesInOrder'
  BY <1>6, <1>8 DEF Extract
<1> QED
  BY <1>1, <1>2, <1>3, <1>4, <1>5, <1>7, <1>8
  DEF Next, vars, Launch, RunTask, ValueIfReady, Refuse, StartFails, FcnReturns, FcnThrows,
      BecomeReady, MissingEntry, StillRunning, Tick

\* Only the insertion gives out a key.
LEMMA OnlyInsertGivesKeys ==
  ASSUME [Next]_vars, id' # id
  PROVE  \E t \in Threads : Insert(t)
BY DEF Next, vars, storeVars, threadVars, taskVars, Launch, RunTask, ValueIfReady, Refuse, Admit,
       LockForLaunch, ProbeTaken, StartFails, FcnReturns, FcnThrows, Housekeep, BecomeReady,
       MissingEntry, StillRunning, Extract, Tick

\* What the search has passed over is all that lies before the key it gives.
LEMMA InOrder ==
  ASSUME Inv, ProbesInOrder, [Next]_vars, id' # id,
         NEW d \in 1 .. NKeys, \A e \in 1 .. d : KeyAfter(e) # last_id'
  PROVE  KeyAfter(d) \in Used
<1>1. PICK t \in Threads : Insert(t)
  BY OnlyInsertGivesKeys
<1>2. pc[t] = "searching" /\ last_id' = NextProbe /\ last_id \in Keys
  BY <1>1 DEF Insert, Inv, TypeOK
<1>3. PICK s \in 0 .. NKeys : probe = KeyAfter(s) /\ \A e \in 1 .. s : KeyAfter(e) \in Used
  BY <1>2 DEF ProbesInOrder
<1>4. last_id' = KeyAfter(IF s = NKeys THEN 1 ELSE s + 1)
  BY <1>2, <1>3, NextInOrder
<1>5. CASE d \in 1 .. s
  BY <1>3, <1>5
<1>6. CASE d > s
  <2>1. s + 1 \in 1 .. d /\ s # NKeys
    BY <1>6
  <2> QED
    BY <1>4, <2>1
<1> QED
  BY <1>5, <1>6

\* get_free_id() gives out the first free key after the last one, whatever
\* the other threads do meanwhile ("ids are incremental").
THEOREM KeysAreIncremental == Spec => IdsIncremental
<1>1. Init => ProbesInOrder
  BY DEF Init, ProbesInOrder
<1>2. Inv /\ ProbesInOrder /\ [Next]_vars
        => [\A d \in 1 .. NKeys :
              (id' # id /\ \A e \in 1 .. d : (last_id + e) % NKeys # last_id')
                => (last_id + d) % NKeys \in Used]_vars
  BY InOrder DEF KeyAfter
<1> QED
  BY <1>1, <1>2, InvHolds, OrderStep, PTL DEF Spec, IdsIncremental
=============================================================================
