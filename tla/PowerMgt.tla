------------------------------ MODULE PowerMgt ------------------------------
(***************************************************************************)
(* The power_mgt action of a PATCH (include/wrapper/                       *)
(* domain_actions_table.hpp): the state of the domain is read, then the    *)
(* prerequisite of the request is tested, the flags are read, and libvirt  *)
(* is called.  Requests of several clients work on the same domain, and so *)
(* do its guest and the other clients of libvirt; between two of these     *)
(* steps it may be in another state, or gone with the daemon or without.   *)
(***************************************************************************)
EXTENDS Integers, Sequences

CONSTANTS Workers, \* the requests to virthttp that are in progress
          Asked    \* for each of them, the power_mgt actions it may consist of

\* What the states mean to the code: "blocked" is any other that is active, and
\* "shutoff" any that is not.
State == {"running", "paused", "blocked", "shutoff"}

\* "other" is no power_mgt request, and "malformed" a value without one.
NeedsRunning == {"shutdown", "reboot", "suspend"}
NoFlags      == {"reset", "suspend", "resume"}
Kind         == {"shutdown", "destroy", "start", "reboot", "reset", "suspend", "resume",
                 "other", "malformed"}

\* `type': absent, or flags that are right or wrong for the request.
Action == [request : Kind, type : {"absent", "right", "wrong"}]

ASSUME AskedAssumption == Asked \in [Workers -> SUBSET Seq(Action)]

VARIABLES
  dom,       \* the state the domain is in, or "gone"
  todo,      \* the actions that a request has yet to perform
  pc,        \* where its current action is
  dom_state, \* the state that getInfo() returned
  seen,      \* the states the domain has been in since the action began (history)
  answer     \* the code of its last answer: 0 for a success, -1 before any

vars == <<dom, todo, pc, dom_state, seen, answer>>

Init ==
  /\ dom \in State
  /\ todo \in {t \in [Workers -> UNION {Asked[w] : w \in Workers}] : \A w \in Workers : t[w] \in Asked[w]}
  /\ pc = [w \in Workers |-> "idle"]
  /\ dom_state = [w \in Workers |-> "shutoff"]
  /\ seen = [w \in Workers |-> {}]
  /\ answer = [w \in Workers |-> -1]

Request(w) == Head(todo[w]).request
Type(w)    == Head(todo[w]).type

-----------------------------------------------------------------------------
\* The domain enters state s, and whoever works on it may see that.
Becomes(s) ==
  /\ dom' = s
  /\ seen' = [w \in Workers |-> IF pc[w] = "idle" THEN {} ELSE seen[w] \cup {s}]

Answer(w, code) ==
  /\ answer' = [answer EXCEPT ![w] = code]
  /\ todo' = [todo EXCEPT ![w] = Tail(@)]
  /\ pc' = [pc EXCEPT ![w] = "idle"]
  /\ UNCHANGED dom_state

Malformed(w) ==
  /\ pc[w] = "idle" /\ todo[w] # <<>> /\ Request(w) = "malformed"
  /\ Answer(w, 300)
  /\ UNCHANGED <<dom, seen>>

Started(w) == pc[w] = "idle" /\ todo[w] # <<>> /\ Request(w) # "malformed"

\* Slip: the state is read once for all actions of the PATCH.
GetInfo_Once(w) ==
  /\ Started(w)
  /\ \E s \in State :
       /\ dom # "gone" => s = dom
       /\ dom_state' = IF answer[w] = -1 THEN [dom_state EXCEPT ![w] = s] ELSE dom_state
  /\ seen' = [seen EXCEPT ![w] = {dom}]
  /\ pc' = [pc EXCEPT ![w] = "prereq"]
  /\ UNCHANGED <<dom, todo, answer>>

\* If it fails, nobody is told: virDomainInfo is what was in memory.
GetInfo(w) ==
  /\ Started(w)
  /\ \E s \in State : (dom # "gone" => s = dom) /\ dom_state' = [dom_state EXCEPT ![w] = s]
  /\ seen' = [seen EXCEPT ![w] = {dom}]
  /\ pc' = [pc EXCEPT ![w] = "prereq"]
  /\ UNCHANGED <<dom, todo, answer>>

\* virDomainIsActive() # 0: an error, -1, is as good as active.
IsActive == dom # "shutoff"

\* The code of the prerequisite that does not hold, 0 if it does.
Prerequisite(w) ==
  CASE Request(w) \in NeedsRunning         -> IF dom_state[w] = "running" THEN 0 ELSE 201
    [] Request(w) = "resume"               -> IF dom_state[w] = "paused" THEN 0 ELSE 211
    [] Request(w) \in {"destroy", "reset"} -> IF IsActive THEN 0 ELSE 210
    [] Request(w) = "start"                -> IF IsActive THEN 203 ELSE 0
    [] OTHER                               -> 300

Refused(w) ==
  /\ pc[w] = "prereq" /\ Prerequisite(w) # 0
  /\ Answer(w, Prerequisite(w))
  /\ UNCHANGED <<dom, seen>>

\* Slip: a domain that is paused is asked, too.
Passed_Active(w) ==
  /\ pc[w] = "prereq"
  /\ \/ Prerequisite(w) = 0
     \/ Request(w) \in NeedsRunning /\ dom_state[w] # "shutoff"
  /\ IF Type(w) = "wrong" \/ (Type(w) = "right" /\ Request(w) \in NoFlags)
     THEN Answer(w, 301) /\ UNCHANGED <<dom, seen>>
     ELSE pc' = [pc EXCEPT ![w] = "call"]
          /\ UNCHANGED <<dom, todo, dom_state, seen, answer>>

\* The flags are looked at after the prerequisite.
Passed(w) ==
  /\ pc[w] = "prereq" /\ Prerequisite(w) = 0
  /\ IF Type(w) = "wrong" \/ (Type(w) = "right" /\ Request(w) \in NoFlags)
     THEN Answer(w, 301) /\ UNCHANGED <<dom, seen>>
     ELSE pc' = [pc EXCEPT ![w] = "call"]
          /\ UNCHANGED <<dom, todo, dom_state, seen, answer>>

\* What libvirt takes, and the state it leaves: a guest that is told to shut down
\* or reboot does so when it likes.
Taken(r) == IF r = "start" THEN dom = "shutoff" ELSE dom \notin {"shutoff", "gone"}
After(r) ==
  CASE r = "destroy" -> "shutoff" [] r = "suspend" -> "paused"
    [] r \in {"start", "resume"} -> "running" [] OTHER -> dom

Call(w) ==
  /\ pc[w] = "call" /\ Taken(Request(w))
  /\ Becomes(After(Request(w)))
  /\ Answer(w, 0)

Failure ==
  [shutdown |-> 200, destroy |-> 209, start |-> 202, reboot |-> 213, reset |-> 214,
   suspend |-> 215, resume |-> 212]

\* libvirt refuses, for whatever reason.
CallFails(w) ==
  /\ pc[w] = "call"
  /\ Answer(w, Failure[Request(w)])
  /\ UNCHANGED <<dom, seen>>

\* The guest, the other clients of libvirt, and the daemon.
Changes(s) ==
  /\ s # dom
  /\ Becomes(s)
  /\ UNCHANGED <<todo, pc, dom_state, answer>>

Next ==
  \/ \E w \in Workers :
       Malformed(w) \/ GetInfo(w) \/ Refused(w) \/ Passed(w) \/ Call(w) \/ CallFails(w)
  \/ \E s \in State \cup {"gone"} : Changes(s)

Spec == Init /\ [][Next]_vars

-----------------------------------------------------------------------------
TypeOK ==
  /\ dom \in State \cup {"gone"}
  /\ todo \in [Workers -> Seq(Action)]
  /\ pc \in [Workers -> {"idle", "prereq", "call"}]
  /\ \A w \in Workers : pc[w] # "idle" => todo[w] # <<>> /\ Request(w) # "malformed"
  /\ \A w \in Workers : pc[w] = "call" => Request(w) # "other" /\ Type(w) # "wrong"
  /\ dom_state \in [Workers -> State]
  /\ seen \in [Workers -> SUBSET (State \cup {"gone"})]
  /\ answer \in [Workers -> Nat \cup {-1}]

\* Worker w is answered with one of these codes.
Answers(w, codes) == todo'[w] # todo[w] /\ answer'[w] \in codes

\* A request is only refused for a state that the domain was in while its own
\* action was at work, not before; or libvirt did not answer.
RefusedForAReason ==
  [][\A w \in Workers : "gone" \notin seen[w] =>
       /\ Answers(w, {201}) => seen[w] # {"running"}
       /\ Answers(w, {203}) => seen[w] # {"shutoff"}
       /\ Answers(w, {210}) => "shutoff" \in seen[w]
       /\ Answers(w, {211}) => seen[w] # {"paused"}]_vars

\* libvirt is only called for a domain that was in the state the request needs,
\* while the action was at work; or libvirt did not answer.
CalledForAReason ==
  \A w \in Workers : pc[w] = "call" /\ "gone" \notin seen[w] =>
    CASE Request(w) \in NeedsRunning         -> "running" \in seen[w]
      [] Request(w) = "resume"               -> "paused" \in seen[w]
      [] Request(w) \in {"destroy", "reset"} -> seen[w] # {"shutoff"}
      [] Request(w) = "start"                -> "shutoff" \in seen[w]
=============================================================================
