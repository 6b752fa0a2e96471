--------------------------- MODULE PowerMgtProofs ---------------------------
(***************************************************************************)
(* Proofs about PowerMgt, for any number of requests and actions: what a   *)
(* request is refused for, and what it calls libvirt for, has been true of *)
(* the domain while its action was at work.                                *)
(***************************************************************************)
EXTENDS PowerMgt, TLAPS

USE AskedAssumption

\* Once an action is at work it has seen every state of the domain, and what
\* getInfo() returned is one of them unless libvirt had no domain to ask.
Watched ==
  \A w \in Workers : pc[w] # "idle" =>
    /\ dom \in seen[w]
    /\ pc[w] = "prereq" /\ "gone" \notin seen[w] => dom_state[w] \in seen[w]

Inv == TypeOK /\ Watched /\ CalledForAReason

-----------------------------------------------------------------------------
LEMMA InitInv == Init => Inv
<1> SUFFICES ASSUME Init PROVE Inv
  OBVIOUS
<1>1. todo \in [Workers -> Seq(Action)]
  BY DEF Init
<1>2. TypeOK
  <2>1. /\ dom \in State /\ pc = [w \in Workers |-> "idle"]
        /\ dom_state \in [Workers -> State] /\ seen = [w \in Workers |-> {}]
        /\ answer = [w \in Workers |-> -1]
    BY DEF Init, State
  <2>2. answer \in [Workers -> Nat \cup {-1}]
    BY <2>1
  <2>3. \A w \in Workers : pc[w] = "idle"
    BY <2>1
  <2>4. /\ pc \in [Workers -> {"idle", "prereq", "call"}]
        /\ seen \in [Workers -> SUBSET (State \cup {"gone"})]
    BY <2>1
  <2> QED
    BY <1>1, <2>1, <2>2, <2>3, <2>4 DEF TypeOK
<1> QED
  BY <1>2 DEF Init, Inv, Watched, CalledForAReason

\* An answer ends the action of its worker and disturbs no other.
LEMMA AnswerKeeps ==
  ASSUME Inv, NEW w \in Workers, pc[w] # "idle" \/ todo[w] # <<>>, NEW code \in Nat,
         Answer(w, code), UNCHANGED <<dom, seen>>
  PROVE  Inv'
<1>1. todo[w] \in Seq(Action) /\ todo[w] # <<>>
  BY DEF Inv, TypeOK
<1>2. Tail(todo[w]) \in Seq(Action)
  BY <1>1
<1>3. \A u \in Workers : u # w => pc'[u] = pc[u] /\ todo'[u] = todo[u]
  BY DEF Inv, TypeOK, Answer
<1>4. pc'[w] = "idle"
  BY DEF Inv, TypeOK, Answer
<1>5. TypeOK'
  BY <1>2, <1>3, <1>4 DEF Inv, TypeOK, Answer, Request, Type
<1>6. Watched'
  BY <1>3, <1>4 DEF Inv, Watched, Answer
<1>7. CalledForAReason'
  BY <1>3, <1>4 DEF Inv, CalledForAReason, Request
<1> QED
  BY <1>5, <1>6, <1>7 DEF Inv

\* What is seen in addition does no harm.
LEMMA BecomesKeeps ==
  ASSUME Inv, NEW s \in State \cup {"gone"}, Becomes(s), UNCHANGED <<todo, pc, dom_state, answer>>
  PROVE  Inv'
<1>1. \A w \in Workers : pc[w] # "idle" => seen'[w] = seen[w] \cup {s}
  BY DEF Becomes, Inv, TypeOK
<1>2. TypeOK'
  BY DEF Inv, TypeOK, Becomes, Request, Type
<1>3. Watched'
  BY <1>1 DEF Inv, Watched, Becomes
<1>4. CalledForAReason'
  <2> SUFFICES ASSUME NEW w \in Workers, pc[w] = "call", "gone" \notin seen'[w]
               PROVE  CASE Request(w) \in NeedsRunning         -> "running" \in seen'[w]
                        [] Request(w) = "resume"               -> "paused" \in seen'[w]
                        [] Request(w) \in {"destroy", "reset"} -> seen'[w] # {"shutoff"}
                        [] Request(w) = "start"                -> "shutoff" \in seen'[w]
    BY DEF CalledForAReason, Request
  <2>1. /\ "gone" \notin seen[w] /\ seen[w] \subseteq seen'[w] /\ seen[w] # {}
        /\ Request(w) \in Kind \ {"other", "malformed"}
    <3>1. todo[w] \in Seq(Action) /\ todo[w] # <<>>
      BY DEF Inv, TypeOK
    <3>2. Head(todo[w]) \in Action
      BY <3>1
    <3> QED
      BY <1>1, <3>2 DEF Inv, TypeOK, Watched, Request, Action
  <2>2. CASE Request(w) \in NeedsRunning
    BY <2>1, <2>2 DEF Inv, CalledForAReason, NeedsRunning
  <2>3. CASE Request(w) = "resume"
    BY <2>1, <2>3 DEF Inv, CalledForAReason, NeedsRunning
  <2>4. CASE Request(w) \in {"destroy", "reset"}
    BY <2>1, <2>4 DEF Inv, CalledForAReason, NeedsRunning
  <2>5. CASE Request(w) = "start"
    BY <2>1, <2>5 DEF Inv, CalledForAReason, NeedsRunning
  <2> QED
    BY <2>1, <2>2, <2>3, <2>4, <2>5 DEF Kind, NeedsRunning
<1> QED
  BY <1>2, <1>3, <1>4 DEF Inv

\* A prerequisite that holds has been seen to hold.
LEMMA PassedKeeps ==
  ASSUME Inv, NEW w \in Workers, Passed(w) PROVE Inv'
<1>1. pc[w] = "prereq" /\ Prerequisite(w) = 0
  BY DEF Passed
<1>2. CASE Answer(w, 301) /\ UNCHANGED <<dom, seen>>
  BY <1>1, <1>2, AnswerKeeps
<1>3. CASE /\ Type(w) # "wrong"
           /\ pc' = [pc EXCEPT ![w] = "call"]
           /\ UNCHANGED <<dom, todo, dom_state, seen, answer>>
  <2>1. /\ \A u \in Workers : u # w => pc'[u] = pc[u]
        /\ pc'[w] = "call"
    BY <1>3 DEF Inv, TypeOK
  <2>2. Request(w) # "other" /\ Request(w) # "malformed"
    BY <1>1 DEF Prerequisite, NeedsRunning, Inv, TypeOK
  <2>3. TypeOK'
    BY <1>1, <1>3, <2>1, <2>2 DEF Inv, TypeOK, Request, Type
  <2>4. Watched'
    BY <1>1, <1>3, <2>1 DEF Inv, Watched
  <2>5. /\ dom \in seen[w]
        /\ "gone" \notin seen[w] => dom_state[w] \in seen[w]
    BY <1>1 DEF Inv, Watched
  <2>6. ASSUME "gone" \notin seen[w]
        PROVE  CASE Request(w) \in NeedsRunning         -> "running" \in seen[w]
                 [] Request(w) = "resume"               -> "paused" \in seen[w]
                 [] Request(w) \in {"destroy", "reset"} -> seen[w] # {"shutoff"}
                 [] Request(w) = "start"                -> "shutoff" \in seen[w]
    <3>1. CASE Request(w) \in NeedsRunning
      <4>1. dom_state[w] = "running"
        BY <1>1, <3>1 DEF Prerequisite, NeedsRunning
      <4> QED
        BY <2>5, <2>6, <3>1, <4>1 DEF NeedsRunning
    <3>2. CASE Request(w) = "resume"
      BY <1>1, <2>5, <2>6, <3>2 DEF Prerequisite, NeedsRunning
    <3>3. CASE Request(w) \in {"destroy", "reset"}
      <4>1. dom # "shutoff"
        BY <1>1, <3>3 DEF Prerequisite, NeedsRunning, IsActive
      <4>2. seen[w] # {"shutoff"}
        BY <2>5, <4>1
      <4> QED
        BY <3>3, <4>2 DEF NeedsRunning
    <3>4. CASE Request(w) = "start"
      BY <1>1, <2>5, <3>4 DEF Prerequisite, NeedsRunning, IsActive
    <3>5. CASE Request(w) \notin NeedsRunning \cup {"resume", "destroy", "reset", "start"}
      BY <1>1, <3>5 DEF Prerequisite
    <3> QED
      BY <3>1, <3>2, <3>3, <3>4, <3>5
  <2>7. CalledForAReason'
    BY <1>3, <2>1, <2>6 DEF Inv, CalledForAReason, Request
  <2> QED
    BY <2>3, <2>4, <2>7 DEF Inv
<1> QED
  BY <1>2, <1>3 DEF Passed

LEMMA GetInfoKeeps ==
  ASSUME Inv, NEW w \in Workers, GetInfo(w) PROVE Inv'
<1>1. /\ \A u \in Workers : u # w => /\ pc'[u] = pc[u] /\ seen'[u] = seen[u]
                                     /\ dom_state'[u] = dom_state[u]
      /\ pc'[w] = "prereq" /\ seen'[w] = {dom}
      /\ UNCHANGED <<dom, todo, answer>>
  BY DEF GetInfo, Inv, TypeOK
<1>2. dom # "gone" => dom_state'[w] = dom
  BY DEF GetInfo, Inv, TypeOK
<1>3. TypeOK'
  BY <1>1 DEF Inv, TypeOK, GetInfo, Started, Request, Type
<1>4. Watched'
  BY <1>1, <1>2 DEF Inv, Watched
<1>5. CalledForAReason'
  BY <1>1 DEF Inv, CalledForAReason, Request
<1> QED
  BY <1>3, <1>4, <1>5 DEF Inv

LEMMA CallKeeps ==
  ASSUME Inv, NEW w \in Workers, Call(w) PROVE Inv'
<1>1. todo[w] \in Seq(Action) /\ todo[w] # <<>> /\ pc[w] = "call"
  BY DEF Inv, TypeOK, Call
<1> DEFINE s == After(Request(w))
<1>2. s \in State \cup {"gone"}
  BY DEF After, State, Inv, TypeOK
<1>3. Tail(todo[w]) \in Seq(Action)
  BY <1>1
<1>4. /\ \A u \in Workers : u # w => pc'[u] = pc[u] /\ todo'[u] = todo[u]
      /\ pc'[w] = "idle" /\ UNCHANGED dom_state /\ dom' = s
  BY DEF Inv, TypeOK, Call, Answer, Becomes
<1>5. \A u \in Workers : pc[u] # "idle" => seen'[u] = seen[u] \cup {s}
  BY DEF Call, Becomes, Inv, TypeOK
<1> HIDE DEF s
<1>6. seen' \in [Workers -> SUBSET (State \cup {"gone"})]
  BY <1>2 DEF Call, Becomes, Inv, TypeOK, s
<1>7. TypeOK'
  BY <1>2, <1>3, <1>4, <1>6 DEF Inv, TypeOK, Call, Answer, Request, Type
<1>8. Watched'
  BY <1>4, <1>5 DEF Inv, Watched
<1>9. CalledForAReason'
  <2> SUFFICES ASSUME NEW u \in Workers, pc'[u] = "call", "gone" \notin seen'[u]
               PROVE  CASE Request(u) \in NeedsRunning         -> "running" \in seen'[u]
                        [] Request(u) = "resume"               -> "paused" \in seen'[u]
                        [] Request(u) \in {"destroy", "reset"} -> seen'[u] # {"shutoff"}
                        [] Request(u) = "start"                -> "shutoff" \in seen'[u]
    BY <1>4 DEF CalledForAReason, Request
  <2>1. /\ "gone" \notin seen[u] /\ seen[u] \subseteq seen'[u] /\ pc[u] = "call"
        /\ Request(u) \in Kind \ {"other", "malformed"} /\ seen[u] # {}
    <3>1. todo[u] \in Seq(Action) /\ todo[u] # <<>> /\ pc[u] = "call"
      BY <1>4 DEF Inv, TypeOK
    <3>2. Head(todo[u]) \in Action
      BY <3>1
    <3> QED
      BY <1>5, <3>1, <3>2 DEF Inv, TypeOK, Watched, Request, Action
  <2>2. CASE Request(u) \in NeedsRunning
    BY <2>1, <2>2 DEF Inv, CalledForAReason, NeedsRunning
  <2>3. CASE Request(u) = "resume"
    BY <2>1, <2>3 DEF Inv, CalledForAReason, NeedsRunning
  <2>4. CASE Request(u) \in {"destroy", "reset"}
    BY <2>1, <2>4 DEF Inv, CalledForAReason, NeedsRunning
  <2>5. CASE Request(u) = "start"
    BY <2>1, <2>5 DEF Inv, CalledForAReason, NeedsRunning
  <2> QED
    BY <2>1, <2>2, <2>3, <2>4, <2>5 DEF Kind, NeedsRunning
<1> QED
  BY <1>7, <1>8, <1>9 DEF Inv

-----------------------------------------------------------------------------
LEMMA Codes ==
  ASSUME Inv, NEW w \in Workers
  PROVE  /\ Prerequisite(w) \in {0, 201, 203, 210, 211, 300}
         /\ pc[w] = "call" => Failure[Request(w)] \in {200, 202, 209, 212, 213, 214, 215}
<1>1. Prerequisite(w) \in {0, 201, 203, 210, 211, 300}
  BY DEF Prerequisite, NeedsRunning
<1>2. ASSUME pc[w] = "call"
      PROVE  Failure[Request(w)] \in {200, 202, 209, 212, 213, 214, 215}
  <2>1. todo[w] \in Seq(Action) /\ todo[w] # <<>>
    BY <1>2 DEF Inv, TypeOK
  <2>2. Head(todo[w]) \in Action
    BY <2>1
  <2>3. Request(w) \in {"shutdown", "destroy", "start", "reboot", "reset", "suspend", "resume"}
    BY <1>2, <2>2 DEF Inv, TypeOK, Request, Action, Kind
  <2> QED
    BY <2>3 DEF Failure
<1> QED
  BY <1>1, <1>2

LEMMA StepInv == Inv /\ [Next]_vars => Inv'
<1> SUFFICES ASSUME Inv, [Next]_vars PROVE Inv'
  OBVIOUS
<1>1. ASSUME NEW w \in Workers, Malformed(w) PROVE Inv'
  BY <1>1, AnswerKeeps DEF Malformed
<1>2. ASSUME NEW w \in Workers, GetInfo(w) PROVE Inv'
  BY <1>2, GetInfoKeeps
<1>3. ASSUME NEW w \in Workers, Refused(w) PROVE Inv'
  <2>1. Prerequisite(w) \in Nat /\ pc[w] # "idle"
    BY <1>3, Codes DEF Refused
  <2> QED
    BY <1>3, <2>1, AnswerKeeps DEF Refused
<1>4. ASSUME NEW w \in Workers, Passed(w) PROVE Inv'
  BY <1>4, PassedKeeps
<1>5. ASSUME NEW w \in Workers, Call(w) PROVE Inv'
  BY <1>5, CallKeeps
<1>6. ASSUME NEW w \in Workers, CallFails(w) PROVE Inv'
  <2>1. Failure[Request(w)] \in Nat /\ pc[w] # "idle"
    BY <1>6, Codes DEF CallFails
  <2> QED
    BY <1>6, <2>1, AnswerKeeps DEF CallFails
<1>7. ASSUME NEW s \in State \cup {"gone"}, Changes(s) PROVE Inv'
  BY <1>7, BecomesKeeps DEF Changes
<1>8. CASE UNCHANGED vars
  BY <1>8 DEF Inv, TypeOK, Watched, CalledForAReason, vars, Request, Type
<1> QED
  BY <1>1, <1>2, <1>3, <1>4, <1>5, <1>6, <1>7, <1>8 DEF Next

LEMMA InvHolds == Spec => []Inv
BY InitInv, StepInv, PTL DEF Spec

\* Requests, states and answers keep their types; in particular an action that
\* gets as far as libvirt is one of the seven that the switch knows.
THEOREM TypeCorrect == Spec => []TypeOK
<1>1. Inv => TypeOK
  BY DEF Inv
<1> QED
  BY <1>1, InvHolds, PTL

\* Whatever the other requests, the guest and the daemon do meanwhile, libvirt is
\* only called for a domain that was in the state the request needs while the
\* action was at work, or libvirt did not answer.
THEOREM CallsHaveReason == Spec => []CalledForAReason
<1>1. Inv => CalledForAReason
  BY DEF Inv
<1> QED
  BY <1>1, InvHolds, PTL

-----------------------------------------------------------------------------
(* Refusals *)

Reasons(w) ==
  "gone" \notin seen[w] =>
    /\ Answers(w, {201}) => seen[w] # {"running"}
    /\ Answers(w, {203}) => seen[w] # {"shutoff"}
    /\ Answers(w, {210}) => "shutoff" \in seen[w]
    /\ Answers(w, {211}) => seen[w] # {"paused"}

\* A step that gives w no answer, or none of the four codes, needs no reason.
LEMMA OtherAnswers ==
  ASSUME NEW w \in Workers,
         todo'[w] = todo[w] \/ answer'[w] \notin {201, 203, 210, 211}
  PROVE  Reasons(w)
BY DEF Reasons, Answers

LEMMA AnswerIs ==
  ASSUME Inv, NEW w \in Workers, NEW u \in Workers, NEW code, Answer(u, code)
  PROVE  IF u = w THEN answer'[w] = code ELSE todo'[w] = todo[w]
BY DEF Answer, Inv, TypeOK

LEMMA RefusedReasons ==
  ASSUME Inv, NEW w \in Workers, Refused(w) PROVE Reasons(w)
<1> SUFFICES ASSUME "gone" \notin seen[w] PROVE Reasons(w)
  BY DEF Reasons
<1>1. /\ answer'[w] = Prerequisite(w) /\ dom \in seen[w] /\ dom_state[w] \in seen[w]
  BY AnswerIs DEF Refused, Inv, Watched
<1>2. CASE Prerequisite(w) = 201
  <2>1. dom_state[w] # "running"
    BY <1>2 DEF Prerequisite, NeedsRunning
  <2> QED
    BY <1>1, <1>2, <2>1 DEF Reasons, Answers
<1>3. CASE Prerequisite(w) = 203
  <2>1. dom # "shutoff"
    BY <1>3 DEF Prerequisite, NeedsRunning, IsActive
  <2> QED
    BY <1>1, <1>3, <2>1 DEF Reasons, Answers
<1>4. CASE Prerequisite(w) = 210
  <2>1. dom = "shutoff"
    BY <1>4 DEF Prerequisite, NeedsRunning, IsActive
  <2> QED
    BY <1>1, <1>4, <2>1 DEF Reasons, Answers
<1>5. CASE Prerequisite(w) = 211
  <2>1. dom_state[w] # "paused"
    BY <1>5 DEF Prerequisite, NeedsRunning
  <2> QED
    BY <1>1, <1>5, <2>1 DEF Reasons, Answers
<1>6. CASE Prerequisite(w) \notin {201, 203, 210, 211}
  BY <1>1, <1>6, OtherAnswers
<1> QED
  BY <1>2, <1>3, <1>4, <1>5, <1>6

\* A request is only refused for a state that the domain was in while its own
\* action was at work, and not for one that an earlier action of the same PATCH,
\* or another client, has read.
THEOREM RefusalsHaveReason == Spec => RefusedForAReason
<1>1. Inv /\ [Next]_vars => [\A w \in Workers : Reasons(w)]_vars
  <2> SUFFICES ASSUME Inv, Next, NEW w \in Workers PROVE Reasons(w)
    OBVIOUS
  <2>1. ASSUME NEW u \in Workers, Malformed(u) PROVE Reasons(w)
    BY <2>1, AnswerIs, OtherAnswers DEF Malformed
  <2>2. ASSUME NEW u \in Workers, GetInfo(u) PROVE Reasons(w)
    BY <2>2, OtherAnswers DEF GetInfo
  <2>3. ASSUME NEW u \in Workers, Refused(u) PROVE Reasons(w)
    BY <2>3, RefusedReasons, AnswerIs, OtherAnswers DEF Refused
  <2>4. ASSUME NEW u \in Workers, Passed(u) PROVE Reasons(w)
    BY <2>4, AnswerIs, OtherAnswers DEF Passed
  <2>5. ASSUME NEW u \in Workers, Call(u) PROVE Reasons(w)
    BY <2>5, AnswerIs, OtherAnswers DEF Call
  <2>6. ASSUME NEW u \in Workers, CallFails(u) PROVE Reasons(w)
    <3>1. Failure[Request(u)] \notin {201, 203, 210, 211}
      BY <2>6, Codes DEF CallFails
    <3> QED
      BY <2>6, <3>1, AnswerIs, OtherAnswers DEF CallFails
  <2>7. ASSUME NEW s \in State \cup {"gone"}, Changes(s) PROVE Reasons(w)
    BY <2>7, OtherAnswers DEF Changes
  <2> QED
    BY <2>1, <2>2, <2>3, <2>4, <2>5, <2>6, <2>7 DEF Next
<1> QED
  BY <1>1, InvHolds, PTL DEF Spec, RefusedForAReason, Reasons
=============================================================================
