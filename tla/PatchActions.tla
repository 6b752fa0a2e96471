---------------------------- MODULE PatchActions ----------------------------
(***************************************************************************)
(* A PATCH request on domains: for every domain the target resolves to,    *)
(* handle_depends() (include/wrapper/depends.hpp) goes through the array   *)
(* of actions, check_depends() (src/wrapper/depends.cpp) decides on the    *)
(* outcomes so far which are called, and DomainHandlers::alter() looks     *)
(* each called one up in the domain actions table.  Errors go into the     *)
(* JsonRes that all domains of the request share; some take with them      *)
(* libvirt's last error, which libvirt keeps per thread.                   *)
(***************************************************************************)
EXTENDS Integers, Sequences, FiniteSets

CONSTANTS Requests, \* the arrays of actions that are sent
          NObjects, \* the number of domains the target resolves to
          NotInt,   \* a "depends" value, or a member of one, of another type
          NoError   \* no libvirt error

(***************************************************************************)
(* An action is what it depends on, and the kind of handler its name leads *)
(* to.  "depends" is absent (<<>>), a sequence of values (one, for a       *)
(* "depends" that is no array), or neither an array nor an integer.        *)
(*   "call"    name, memory, max_memory, autostart and power_mgt, which    *)
(*             report when libvirt refuses                                 *)
(*   "signal"  send_signal: optional{false} is truthy, a refusal counts as *)
(*             SUCCESS                                                     *)
(*   "keys"    send_keys: a refusal is a FAILURE without an error          *)
(*   "syntax"  a value of a wrong JSON type, error 0                       *)
(*   "silent"  a send_signal that lacks a member or names no signal: a     *)
(*             FAILURE without an error                                    *)
(*   "unknown" no such action, error 123 (so is "depends" when it is the   *)
(*             action's first member); or a power_mgt without a request,   *)
(*             error 300                                                   *)
(***************************************************************************)
Kinds  == {"call", "signal", "keys", "syntax", "silent", "unknown"}
Dep    == Int \cup {NotInt}
Action == [deps : Seq(Dep), kind : Kinds] \cup [deps : {NotInt}, kind : Kinds]

ASSUME RequestsAssumption == \A r \in Requests : r \in Seq(Action)
ASSUME NObjectsAssumption == NObjects \in Nat
ASSUME NotIntAssumption   == NotInt \notin Int /\ NotInt \notin Seq(Dep)

Outcome == {"SUCCESS", "FAILURE", "SKIPPED"}

VARIABLES
  actions,  \* the request
  obj,      \* the domain being handled
  next,     \* the action handle_depends() has reached
  outcomes, \* the outcomes on this domain
  done,     \* the outcomes on the domains before it (history)
  called,   \* <<domain, action>> pairs whose handler ran (history)
  errors,   \* the errors in the JsonRes: who reported, with which libvirt error
  lasterr   \* virGetLastError(): the <<domain, action>> whose call failed last

vars == <<actions, obj, next, outcomes, done, called, errors, lasterr>>

Init ==
  /\ actions \in Requests
  /\ obj = 1 /\ next = 1
  /\ outcomes = <<>> /\ done = <<>>
  /\ called = {} /\ errors = {}
  /\ lasterr = NoError

Active == obj <= NObjects /\ next <= Len(actions)
Current == actions[next]
Self == <<obj, next>>

\* Slips: a dependency that was skipped counts; the last action may not be
\* depended on.
Succeeded_NotFailed(d) ==
  d \in Int /\ d >= 0 /\ d < Len(outcomes) /\ outcomes[d + 1] # "FAILURE"
Succeeded_ButLast(d) ==
  d \in Int /\ d >= 0 /\ d < Len(outcomes) - 1 /\ outcomes[d + 1] = "SUCCESS"

\* success_pred.  The int is compared with a std::size_t: a negative one
\* becomes larger than any index.  Actions are numbered from 0.
Succeeded(d) ==
  d \in Int /\ d >= 0 /\ d < Len(outcomes) /\ outcomes[d + 1] = "SUCCESS"

Report(libvirt) == errors' = errors \cup {[by |-> Self, libvirt |-> libvirt]}

\* Slip: one SKIPPED for every dependency that does not hold.
Broken_EachPushes ==
  /\ Active /\ Current.deps # NotInt
  /\ LET broken == {n \in DOMAIN Current.deps : ~Succeeded(Current.deps[n])} IN
       /\ broken # {}
       /\ outcomes' = outcomes \o [n \in 1 .. Cardinality(broken) |-> "SKIPPED"]
  /\ next' = next + 1
  /\ UNCHANGED <<actions, obj, done, called, errors, lasterr>>

\* check_depends() is false: all_of stops at the first dependency that does
\* not hold, which pushes the one SKIPPED.
Broken ==
  /\ Active /\ Current.deps # NotInt
  /\ \E n \in DOMAIN Current.deps : ~Succeeded(Current.deps[n])
  /\ outcomes' = Append(outcomes, "SKIPPED")
  /\ next' = next + 1
  /\ UNCHANGED <<actions, obj, done, called, errors, lasterr>>

\* "depends" is of another type: error 0, which takes no libvirt error along.
Malformed ==
  /\ Active /\ Current.deps = NotInt
  /\ outcomes' = Append(outcomes, "FAILURE")
  /\ Report(NoError)
  /\ next' = next + 1
  /\ UNCHANGED <<actions, obj, done, called, lasterr>>

-----------------------------------------------------------------------------
(* hdl(action): the dependency chain holds.                                *)

Holds == /\ Active /\ Current.deps # NotInt
         /\ \A n \in DOMAIN Current.deps : Succeeded(Current.deps[n])

Called(outcome) ==
  /\ Holds
  /\ called' = called \cup {Self}
  /\ outcomes' = Append(outcomes, outcome)
  /\ next' = next + 1
  /\ UNCHANGED <<actions, obj, done>>

\* Every libvirt call resets the last error first.
LibvirtAccepts ==
  /\ Current.kind \in {"call", "signal", "keys"} /\ Called("SUCCESS")
  /\ lasterr' = NoError
  /\ UNCHANGED errors

\* JsonRes::error() takes the last error out when the code is above 100.
LibvirtRefuses ==
  /\ Current.kind = "call" /\ Called("FAILURE")
  /\ Report(Self)
  /\ lasterr' = NoError

\* power_mgt: a prerequisite of the domain's state does not hold.
PrerequisiteFails ==
  /\ Current.kind = "call" /\ Called("FAILURE")
  /\ Report(NoError)
  /\ lasterr' = NoError

\* Slip: the error of the refusal is not reported.
SignalRefused_Failure ==
  /\ Current.kind = "signal" /\ Called("FAILURE")
  /\ lasterr' = Self
  /\ UNCHANGED errors

SignalRefused ==
  /\ Current.kind = "signal" /\ Called("SUCCESS")
  /\ lasterr' = Self
  /\ UNCHANGED errors

KeysRefused ==
  /\ Current.kind = "keys" /\ Called("FAILURE")
  /\ lasterr' = Self
  /\ UNCHANGED errors

\* Slip: error 0 takes the last error along.
BadValue_TakesError ==
  /\ Current.kind = "syntax" /\ Called("FAILURE")
  /\ Report(lasterr)
  /\ lasterr' = NoError

BadValue ==
  /\ Current.kind = "syntax" /\ Called("FAILURE")
  /\ Report(NoError)
  /\ UNCHANGED lasterr

\* extract_param(): the member is missing, or from_string() knows no such name.
MissingArgument ==
  /\ Current.kind = "silent" /\ Called("FAILURE")
  /\ UNCHANGED <<errors, lasterr>>

\* Error 123 or 300, with whatever last error there is.
UnknownAction ==
  /\ Current.kind = "unknown" /\ Called("FAILURE")
  /\ Report(lasterr)
  /\ lasterr' = NoError

-----------------------------------------------------------------------------
\* `obj = std::move(v), exec(hdls)': releasing the last domain is a libvirt
\* call, and handle_depends() starts with no outcomes.
NextObject ==
  /\ obj <= NObjects /\ next > Len(actions)
  /\ obj' = obj + 1 /\ next' = 1
  /\ done' = Append(done, outcomes) /\ outcomes' = <<>>
  /\ lasterr' = NoError
  /\ UNCHANGED <<actions, called, errors>>

Next ==
  \/ Broken \/ Malformed
  \/ Active /\ (\/ LibvirtAccepts \/ LibvirtRefuses \/ PrerequisiteFails
                \/ SignalRefused \/ KeysRefused \/ BadValue \/ MissingArgument
                \/ UnknownAction)
  \/ NextObject

Spec == Init /\ [][Next]_vars

-----------------------------------------------------------------------------
(* Properties *)

TypeOK ==
  /\ actions \in Requests
  /\ obj \in 1 .. NObjects + 1
  /\ next \in 1 .. Len(actions) + 1
  /\ outcomes \in Seq(Outcome)
  /\ done \in Seq(Seq(Outcome))
  /\ called \subseteq (1 .. NObjects) \X (1 .. Len(actions))
  /\ errors \subseteq [by : Nat \X Nat, libvirt : (Nat \X Nat) \cup {NoError}]
  /\ lasterr \in (Nat \X Nat) \cup {NoError}

\* The outcomes on domain o, finished or current.
OutcomesOn(o) == IF o < obj THEN done[o] ELSE outcomes
Reached ==
  {r \in (1 .. NObjects) \X (1 .. Len(actions)) : r[1] < obj \/ (r[1] = obj /\ r[2] < next)}

\* Every action that was reached has one outcome, at its own index: on this the
\* test of a dependency, `outcomes[dep]', and the bound `outcomes.size()' as
\* the index of the current action both rely.
OneOutcomeEach ==
  /\ Len(done) = obj - 1
  /\ \A o \in 1 .. obj - 1 : Len(done[o]) = Len(actions)
  /\ Len(outcomes) = next - 1

\* The i-th action of domain o may rely on the action numbered d, from 0.
DepHolds(o, i, d) == d \in 0 .. i - 2 /\ OutcomesOn(o)[d + 1] = "SUCCESS"

\* An action is only performed on a domain after all it depends on have been
\* performed on that very domain, and succeeded.
ChainHolds ==
  \A c \in called :
    /\ actions[c[2]].deps # NotInt
    /\ \A n \in DOMAIN actions[c[2]].deps :
         /\ DepHolds(c[1], c[2], actions[c[2]].deps[n])
         /\ <<c[1], actions[c[2]].deps[n] + 1>> \in called

\* An action whose dependency chain holds is not left out.
NothingElseSkipped ==
  \A r \in Reached :
    OutcomesOn(r[1])[r[2]] = "SKIPPED" =>
      /\ r \notin called
      /\ \E n \in DOMAIN actions[r[2]].deps : ~DepHolds(r[1], r[2], actions[r[2]].deps[n])

\* A failure is told to the client and a success is not reported as an error,
\* except that send_keys, and a send_signal without its arguments, fail silently.
FailuresReported ==
  \A r \in Reached :
    LET o == r[1]  i == r[2] IN
      /\ (OutcomesOn(o)[i] = "FAILURE" /\ actions[i].kind \notin {"keys", "silent"})
           => \E e \in errors : e.by = r
      /\ (\E e \in errors : e.by = r) => OutcomesOn(o)[i] = "FAILURE"

\* A libvirt message in an error is about the action the error is about, unless
\* it is left over from a send_signal or send_keys on the same domain that
\* reported nothing, with no libvirt call in between.
LibvirtErrorFits ==
  \A e \in errors :
    e.libvirt \notin {NoError, e.by} =>
      /\ e.libvirt[1] = e.by[1] /\ e.libvirt[2] < e.by[2]
      /\ actions[e.libvirt[2]].kind \in {"signal", "keys"}
      /\ actions[e.by[2]].kind = "unknown"
      /\ \A j \in e.libvirt[2] + 1 .. e.by[2] - 1 :
           <<e.by[1], j>> \in called => actions[j].kind \in {"syntax", "silent"}
=============================================================================
