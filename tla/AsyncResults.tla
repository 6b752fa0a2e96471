---------------------------- MODULE AsyncResults ----------------------------
(***************************************************************************)
(* What the store of asynchronous requests promises: a task that is        *)
(* accepted gets a key no other stored task has; it ends in a result or an *)
(* exception; its result is handed out at most once, and only under that   *)
(* key; an exception that is asked for brings the server down.             *)
(***************************************************************************)
EXTENDS Integers

CONSTANTS Tasks,
          Keys     \* what a task can be stored under

VARIABLES status,  \* status[k]: how far task k is, seen from outside
          ticket,  \* ticket[k]: the key of task k, -1 before it has one
          down     \* the server has stopped

vars == <<status, ticket, down>>

Stored == {k \in Tasks : status[k] \in {"pending", "ready", "threw"}}

Init ==
  /\ status = [k \in Tasks |-> "new"]
  /\ ticket = [k \in Tasks |-> -1]
  /\ down = FALSE

Become(k, s) == status' = [status EXCEPT ![k] = s]

Accept(k, i) ==
  /\ status[k] = "new"
  /\ \A other \in Stored : ticket[other] # i
  /\ ticket' = [ticket EXCEPT ![k] = i]
  /\ Become(k, "pending")
  /\ UNCHANGED down

Refuse(k) ==
  /\ status[k] = "new"
  /\ Become(k, "refused")
  /\ UNCHANGED <<ticket, down>>

Complete(k) ==
  /\ status[k] = "pending"
  /\ Become(k, "ready") \/ Become(k, "threw")
  /\ UNCHANGED <<ticket, down>>

HandOut(k) ==
  /\ \/ status[k] = "ready" /\ Become(k, "delivered") /\ UNCHANGED down
     \/ status[k] = "threw" /\ Become(k, "rethrown") /\ down' = TRUE
  /\ UNCHANGED ticket

Crash == down' = TRUE /\ UNCHANGED <<status, ticket>>

Next ==
  /\ ~down
  /\ \/ \E k \in Tasks : Refuse(k) \/ Complete(k) \/ HandOut(k)
     \/ \E k \in Tasks, i \in Keys : Accept(k, i)
     \/ Crash

Fairness == \A k \in Tasks : WF_vars(~down /\ Complete(k))

Spec == Init /\ [][Next]_vars
=============================================================================
