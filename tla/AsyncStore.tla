----------------------------- MODULE AsyncStore -----------------------------
(***************************************************************************)
(* The store of asynchronous requests, struct AsyncStore of                *)
(* include/wrapper/handlers/async/async_store.hpp.                         *)
(*                                                                         *)
(* Io threads call launch() and value_if_ready(); every launch starts a    *)
(* thread of its own (std::async) that runs the task, takes the store's    *)
(* mutex once to set the entry's expiry, and then makes its future ready.  *)
(* The grain is that of the mutex: what the code does while it holds `mut' *)
(* is one step, except for the search of get_free_id(), which may not end  *)
(* and is therefore one step per probe.  The size check of launch(), made  *)
(* before the mutex is taken, is a step of its own.                        *)
(***************************************************************************)
EXTENDS Integers, FiniteSets

CONSTANTS Threads,       \* the io threads of main(), which serve the requests
          Tasks,         \* the asynchronous requests that are ever made
          NKeys,         \* the number of values of IndexType (2^32 in the code)
          DefaultExpire, \* default_expire, in clock ticks
          MaxTime,       \* bound on the clock, for model checking only
          Free,          \* the value of elems at a key that is not in the map
          NoTask, Nobody \* "no task" and "no thread"

ASSUME NKeysAssumption == NKeys \in Nat \ {0}
ASSUME ClockAssumption == DefaultExpire \in Nat /\ MaxTime \in Nat
ASSUME NoneAssumption  == NoTask \notin Tasks /\ Nobody \notin Threads

\* The values of IndexType; std::numeric_limits<IndexType>::max() is the last.
Keys == 0 .. NKeys - 1
IndexMax == NKeys - 1

\* An Element: when it expires, and the task whose future it holds (NoTask:
\* a future without a shared state).
Element == [expires : Int, fut : Tasks \cup {NoTask}]
ASSUME FreeAssumption == Free \notin Element

NoKey == -1

(***************************************************************************)
(* seconds::max() converted to the nanoseconds of the system clock         *)
(* overflows: (2^63 - 1) * 10^9 wraps to -10^9, one second before the      *)
(* epoch.  The entry of a running task thus carries a time in the past.    *)
(***************************************************************************)
InitExpire == -1

VARIABLES
  elems,       \* elems[i]: the entry under key i, or Free
  last_id,     \* the last key allocated
  mut,         \* the io thread that holds the mutex across steps, or Nobody
  pc,          \* pc[t]: where io thread t is in launch(), "idle" outside it
  job,         \* job[t]: the task t is launching, or NoTask
  probe,       \* the local `id' of get_free_id(), run by the mutex's holder
  task,        \* task[k]: how far task k is
  id,          \* id[k]: the key launch() gave task k, captured by its lambda
  now,         \* the clock
  answer,      \* what value_if_ready() returned, if the last step was a call
  terminated   \* an exception left an io thread: std::terminate()

storeVars == <<elems, last_id>>
threadVars == <<mut, pc, job, probe>>
taskVars == <<task, id>>
vars == <<storeVars, threadVars, taskVars, now, answer, terminated>>

Entry(e, f) == [expires |-> e, fut |-> f]

Used == {i \in Keys : elems[i] # Free}

\* future_status(): the future of a task is ready once its lambda has
\* returned, or has left by an exception.
Ready(k) == k # NoTask /\ task[k] \in {"ready", "threw"}

\* The tasks that are in the store: launched, and not yet taken out of it.
Outstanding ==
  {k \in Tasks : task[k] \in {"running", "returned", "housekept", "ready", "threw"}}

NoAnswer == [status |-> "none", key |-> NoKey, body |-> NoTask]

Init ==
  /\ elems = [i \in Keys |-> Free]
  /\ last_id = IndexMax
  /\ mut = Nobody
  /\ pc = [t \in Threads |-> "idle"]
  /\ job = [t \in Threads |-> NoTask]
  /\ probe = IndexMax
  /\ task = [k \in Tasks |-> "new"]
  /\ id = [k \in Tasks |-> NoKey]
  /\ now = 0
  /\ answer = NoAnswer
  /\ terminated = FALSE

-----------------------------------------------------------------------------
(* launch() *)

\* A full store: the call returns std::nullopt, the client gets a 500.
\* Neither this test nor the next takes the mutex.
Refuse(t, k) ==
  /\ pc[t] = "idle" /\ task[k] = "new"
  /\ Cardinality(Used) = IndexMax
  /\ task' = [task EXCEPT ![k] = "refused"]
  /\ answer' = NoAnswer
  /\ UNCHANGED <<storeVars, threadVars, id, now, terminated>>

Enter(t, k) ==
  /\ pc[t] = "idle" /\ task[k] = "new"
  /\ pc' = [pc EXCEPT ![t] = "locking"]
  /\ job' = [job EXCEPT ![t] = k]
  /\ task' = [task EXCEPT ![k] = "called"]
  /\ answer' = NoAnswer
  /\ UNCHANGED <<storeVars, mut, probe, id, now, terminated>>

\* Slip: the size is not checked.
Admit_NoCheck(t, k) == Enter(t, k)

Admit(t, k) == Cardinality(Used) # IndexMax /\ Enter(t, k)

\* The lock_guard, and the first line of get_free_id().
SearchFrom(t, start) ==
  /\ pc[t] = "locking" /\ mut = Nobody
  /\ mut' = t
  /\ pc' = [pc EXCEPT ![t] = "searching"]
  /\ probe' = start
  /\ answer' = NoAnswer
  /\ UNCHANGED <<storeVars, job, taskVars, now, terminated>>

\* Slip: every search starts at key 0.
LockForLaunch_FromZero(t) == SearchFrom(t, IndexMax)

LockForLaunch(t) == SearchFrom(t, last_id)

\* ++id on a std::uint32_t
NextProbe == (probe + 1) % NKeys

\* One iteration of get_free_id() on a key in use.
ProbeTaken(t) ==
  /\ pc[t] = "searching"
  /\ elems[NextProbe] # Free
  /\ probe' = NextProbe
  /\ answer' = NoAnswer
  /\ UNCHANGED <<storeVars, mut, pc, job, taskVars, now, terminated>>

\* The key is free: allocate it, emplace the entry, start the task's thread,
\* unlock, and return the key.
Allocate(t, holder) ==
  /\ pc[t] = "searching"
  /\ last_id' = NextProbe
  /\ elems' = [elems EXCEPT ![NextProbe] = Entry(InitExpire, job[t])]
  /\ task' = [task EXCEPT ![job[t]] = "running"]
  /\ id' = [id EXCEPT ![job[t]] = NextProbe]
  /\ mut' = holder
  /\ pc' = [pc EXCEPT ![t] = "idle"]
  /\ job' = [job EXCEPT ![t] = NoTask]
  /\ probe' = NextProbe
  /\ answer' = NoAnswer
  /\ UNCHANGED <<now, terminated>>

\* Slips: the key may be in use; the mutex stays locked.
Insert_AnyKey(t) == Allocate(t, Nobody)
Insert_KeepsMutex(t) == elems[NextProbe] = Free /\ Allocate(t, mut)

Insert(t) == elems[NextProbe] = Free /\ Allocate(t, Nobody)

\* std::async cannot start a thread: std::system_error leaves launch(), and
\* nothing on the way to ioc.run() catches it.
StartFails(t) ==
  /\ pc[t] = "searching"
  /\ elems[NextProbe] = Free
  /\ terminated' = TRUE
  /\ answer' = NoAnswer
  /\ UNCHANGED <<storeVars, threadVars, taskVars, now>>

-----------------------------------------------------------------------------
(* The lambda that launch() hands to std::async *)

\* fcn() returns the response body ...
FcnReturns(k) ==
  /\ task[k] = "running"
  /\ task' = [task EXCEPT ![k] = "returned"]
  /\ answer' = NoAnswer
  /\ UNCHANGED <<storeVars, threadVars, id, now, terminated>>

\* ... or throws: the housekeeping is skipped and the future, now ready,
\* holds the exception.
FcnThrows(k) ==
  /\ task[k] = "running"
  /\ task' = [task EXCEPT ![k] = "threw"]
  /\ answer' = NoAnswer
  /\ UNCHANGED <<storeVars, threadVars, id, now, terminated>>

\* elems[id] is operator[]: were the key absent, it would insert an entry
\* with an invalid future.
\* Slip: the expiry is not set.
Housekeep_NoExpiry(k) ==
  /\ task[k] = "returned" /\ mut = Nobody
  /\ task' = [task EXCEPT ![k] = "housekept"]
  /\ answer' = NoAnswer
  /\ UNCHANGED <<storeVars, threadVars, id, now, terminated>>

Housekeep(k) ==
  /\ task[k] = "returned" /\ mut = Nobody
  /\ elems' = [elems EXCEPT ![id[k]] =
                 Entry(now + DefaultExpire, IF @ = Free THEN NoTask ELSE @.fut)]
  /\ task' = [task EXCEPT ![k] = "housekept"]
  /\ answer' = NoAnswer
  /\ UNCHANGED <<last_id, threadVars, id, now, terminated>>

\* The lambda returns, and with it the mutex is long released.
BecomeReady(k) ==
  /\ task[k] = "housekept"
  /\ task' = [task EXCEPT ![k] = "ready"]
  /\ answer' = NoAnswer
  /\ UNCHANGED <<storeVars, threadVars, id, now, terminated>>

-----------------------------------------------------------------------------
(* value_if_ready(), for any key a client may write in the request *)

NotFound(t, i) ==
  /\ pc[t] = "idle" /\ mut = Nobody
  /\ answer' = [status |-> "non_existent", key |-> i, body |-> NoTask]
  /\ UNCHANGED <<storeVars, threadVars, taskVars, now, terminated>>

\* Slip: a task that is still running is reported missing.
MissingEntry_WhileRunning(t, i) ==
  (elems[i] # Free => ~Ready(elems[i].fut)) /\ NotFound(t, i)

MissingEntry(t, i) == elems[i] = Free /\ NotFound(t, i)

StillRunning(t, i) ==
  /\ pc[t] = "idle" /\ mut = Nobody
  /\ elems[i] # Free /\ ~Ready(elems[i].fut)
  /\ answer' = [status |-> "in_progress", key |-> i, body |-> NoTask]
  /\ UNCHANGED <<storeVars, threadVars, taskVars, now, terminated>>

\* The entry is extracted, then its future read: fut.get() returns the body
\* or rethrows the task's exception, which no caller catches.
TakeOut(t, i, rest) ==
  /\ pc[t] = "idle" /\ mut = Nobody
  /\ elems[i] # Free
  /\ LET k == elems[i].fut IN
       /\ Ready(k)
       /\ elems' = rest
       /\ IF task[k] = "ready"
            THEN /\ answer' = [status |-> "finished", key |-> i, body |-> k]
                 /\ task' = [task EXCEPT ![k] = "delivered"]
                 /\ UNCHANGED terminated
            ELSE /\ answer' = NoAnswer
                 /\ task' = [task EXCEPT ![k] = "rethrown"]
                 /\ terminated' = TRUE
  /\ UNCHANGED <<last_id, threadVars, id, now>>

\* Slips: the status of the future is not tested; the entry is read but not
\* extracted.
Extract_AnyTime(t, i) ==
  /\ pc[t] = "idle" /\ mut = Nobody
  /\ elems[i] # Free /\ elems[i].fut # NoTask
  /\ elems' = [elems EXCEPT ![i] = Free]
  /\ task' = [task EXCEPT ![elems[i].fut] = "delivered"]
  /\ answer' = [status |-> "finished", key |-> i, body |-> elems[i].fut]
  /\ UNCHANGED <<last_id, threadVars, id, now, terminated>>
Extract_KeepsEntry(t, i) == TakeOut(t, i, elems)

Extract(t, i) == TakeOut(t, i, [elems EXCEPT ![i] = Free])

ValueIfReady(t, i) == MissingEntry(t, i) \/ StillRunning(t, i) \/ Extract(t, i)

-----------------------------------------------------------------------------
Tick ==
  /\ now < MaxTime
  /\ now' = now + 1
  /\ answer' = NoAnswer
  /\ UNCHANGED <<storeVars, threadVars, taskVars, terminated>>

Launch(t) ==
  \/ \E k \in Tasks : Refuse(t, k) \/ Admit(t, k)
  \/ LockForLaunch(t)
  \/ ProbeTaken(t)
  \/ Insert(t)
  \/ StartFails(t)

RunTask(k) == FcnReturns(k) \/ FcnThrows(k) \/ Housekeep(k) \/ BecomeReady(k)

Next ==
  /\ ~terminated
  /\ \/ \E t \in Threads : Launch(t)
     \/ \E k \in Tasks : RunTask(k)
     \/ \E t \in Threads, i \in Keys : ValueIfReady(t, i)
     \/ Tick

Spec == Init /\ [][Next]_vars

(***************************************************************************)
(* Fairness.  A thread inside launch() and a task's thread keep running    *)
(* (the operating system schedules them); a running task is handle_json(), *)
(* whose libvirt calls return.  Weak fairness on the mutex is enough here: *)
(* launches are finitely many, so the mutex is eventually free for good    *)
(* unless somebody keeps it for ever.  Clients keep asking for their keys. *)
(***************************************************************************)
LaunchStep(t) == ~terminated /\ (LockForLaunch(t) \/ ProbeTaken(t) \/ Insert(t))
Fairness ==
  /\ \A t \in Threads : WF_vars(LaunchStep(t))
  /\ \A k \in Tasks : WF_vars(~terminated /\ RunTask(k))
  /\ \A i \in Keys : WF_vars(~terminated /\ \E t \in Threads : Extract(t, i))

FairSpec == Spec /\ Fairness

-----------------------------------------------------------------------------
(* gc(), which nothing in the program calls: NextWithGc adds a caller.  As *)
(* gc() takes no mutex, the model gives it the kindest one, which runs it  *)
(* while no other thread is inside the store.                              *)

\* Slip: the comparison corrected, the test of the future forgotten.
Discarded_NotReady(i) == elems[i] # Free /\ elems[i].expires <= now

Discarded(i) ==
  /\ elems[i] # Free
  /\ elems[i].expires > now
  /\ Ready(elems[i].fut)

Gc ==
  /\ mut = Nobody
  /\ \E i \in Keys : Discarded(i)
  /\ elems' = [i \in Keys |-> IF Discarded(i) THEN Free ELSE elems[i]]
  /\ task' = [k \in Tasks |->
                IF Ready(k) /\ \E i \in Keys : Discarded(i) /\ elems[i].fut = k
                THEN "discarded" ELSE task[k]]
  /\ answer' = NoAnswer
  /\ UNCHANGED <<last_id, threadVars, id, now, terminated>>

NextWithGc == Next \/ (~terminated /\ Gc)
SpecWithGc == Init /\ [][NextWithGc]_vars
FairSpecWithGc == SpecWithGc /\ Fairness

-----------------------------------------------------------------------------
(* Properties *)

TypeOK ==
  /\ elems \in [Keys -> Element \cup {Free}]
  /\ last_id \in Keys
  /\ mut \in Threads \cup {Nobody}
  /\ pc \in [Threads -> {"idle", "locking", "searching"}]
  /\ job \in [Threads -> Tasks \cup {NoTask}]
  /\ probe \in Keys
  /\ task \in [Tasks -> {"new", "refused", "called", "running", "returned", "housekept",
                         "ready", "threw", "delivered", "rethrown", "discarded"}]
  /\ id \in [Tasks -> Keys \cup {NoKey}]
  /\ now \in Nat
  /\ answer \in [status : {"none", "non_existent", "in_progress", "finished"},
                 key : Keys \cup {NoKey}, body : Tasks \cup {NoTask}]
  /\ terminated \in BOOLEAN

\* A launch() on a full store returns std::nullopt; it does not go on to
\* search for a key that is not there, with the mutex held
\* ("std::nullopt if the store is full").
FullStoreRefuses ==
  \A t \in Threads : pc[t] = "searching" => Used # Keys

\* Every task in the store owns the entry under the key its client was given:
\* get_free_id() never hands out a key that is in use, and the lambda's
\* elems[id] finds the entry launch() made, under whatever order of launches,
\* completions and retrievals.
TicketsKept ==
  \A k \in Outstanding : id[k] \in Used /\ elems[id[k]].fut = k

\* No orphan entries: every entry holds the valid future of one task, which
\* is still in the store.  A housekeeping that ran on an erased key, or a
\* retrieval that left the entry behind, would break this.
NoOrphans ==
  \A i \in Used : elems[i].fut \in Outstanding /\ id[elems[i].fut] = i

\* An entry carries the initial expiry until its task has completed, and a
\* real one, which lies in the future of the completion, afterwards
\* ("expiration since initial request until task completion").
ExpiryFollowsTask ==
  \A k \in Outstanding :
    (elems[id[k]].expires = InitExpire) <=> (task[k] \in {"running", "returned", "threw"})

\* A search for a key only runs under the mutex, by one thread at a time.
OneSearch ==
  \A t \in Threads : pc[t] = "searching" <=> mut = t

\* What a client is told under a key is about the task whose key it is: the
\* body is that task's, complete, and a task not yet taken out of the store is
\* never reported missing.
AnswersFit ==
  /\ answer.status = "finished" =>
       /\ id[answer.body] = answer.key
       /\ task[answer.body] = "delivered"
  /\ answer.status = "non_existent" => \A k \in Outstanding : id[k] # answer.key
  /\ answer.status = "in_progress" => \E k \in Outstanding : id[k] = answer.key

\* "ids are incremental": a launch() takes the first key after the last one,
\* round the whole range, that is free.  It does not pass over a key that
\* another thread has freed meanwhile.
IdsIncremental ==
  [][\A d \in 1 .. NKeys :
       (id' # id /\ \A e \in 1 .. d : (last_id + e) % NKeys # last_id')
         => (last_id + d) % NKeys \in Used]_vars

\* Every launch() that got past the size check returns.
LaunchReturns ==
  \A t \in Threads : (pc[t] # "idle") ~> (pc[t] = "idle" \/ terminated)

\* A task that was launched is retrieved in the end: the store does not lose
\* it, and nothing in the store keeps its thread from becoming ready.
TaskRetrieved ==
  \A k \in Tasks :
    (task[k] = "running") ~> (task[k] \in {"delivered", "rethrown"} \/ terminated)

\* A mutex that is kept stops one or the other, and so does a search that
\* never ends, which only one of a full store is.
NothingStuck == []FullStoreRefuses => (LaunchReturns /\ TaskRetrieved)

\* "Discard expired entries": gc() only discards an entry whose time has come.
GcDiscardsExpired ==
  [][\A k \in Tasks : (task[k] # "discarded" /\ task'[k] = "discarded")
                      => elems[id[k]].expires <= now]_vars

-----------------------------------------------------------------------------
(* What the store promises its clients: AsyncResults. *)
clientStatus ==
  [k \in Tasks |->
     CASE task[k] \in {"new", "called"} -> "new"
       [] task[k] \in {"running", "returned", "housekept"} -> "pending"
       [] OTHER -> task[k]]

Results == INSTANCE AsyncResults WITH ticket <- id, status <- clientStatus, down <- terminated

\* The store is a set of results, each handed out once under a key of its own,
\* and each task that is launched gets a result, unless a launch searches a
\* full store: it keeps the mutex that the tasks wait for.
ImplementsResults == Results!Spec /\ ([]FullStoreRefuses => Results!Fairness)
=============================================================================
