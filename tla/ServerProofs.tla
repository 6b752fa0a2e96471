---------------------------- MODULE ServerProofs ----------------------------
(***************************************************************************)
(* Proofs about Server, for any number of connections, io threads,         *)
(* requests and tasks: a session does one thing at a time, its answers are *)
(* in the order of the requests and fit them, it ends for a reason, and a  *)
(* result reaches one client.                                              *)
(***************************************************************************)
EXTENDS Server, FiniteSetTheorems, TLAPS

USE RequestsAssumption, NoneAssumption

-----------------------------------------------------------------------------
\* What the answer to a launch says of a key: a key below 16 is told as it is,
\* and any other as another one.
LEMMA ToldKeys ==
  ASSUME NEW i \in Nat PROVE Told(i) \in Nat /\ (Told(i) = i <=> i < 16)
BY DEF Told

-----------------------------------------------------------------------------
(* Where a session is: its history and its operations have to agree.       *)

Alone(c) == \A t \in IoThreads : thread[t] # c

\* The client has its first n answers, unless it has hung up.
Answered(c, n) == up[c] # "gone" => Len(got[c]) = n

\* None of the first m requests closes the connection.
StaysOpen(c, m) == \A n \in 1 .. m : sent[c][n].close => sent[c][n].kind = "launch"

\* What AnswersFitRequests asks of an answer; that its task is no longer new is
\* why its key will not change.
Fit(q, n, a) ==
  /\ a.to = n
  /\ a.close = (q.close /\ q.kind # "launch")
  /\ a.id => q.id
  /\ (q.id /\ ~a.id) => q.kind \in {"head", "bad", "launch"}
  /\ a.code = 302 => /\ q.kind = "retrieve" /\ a.body \in Tasks
                     /\ ticket[a.body] = q.arg /\ status[a.body] # "new"
  /\ (q.kind = "launch" /\ a.code = 200) =>
        /\ ticket[q.arg] \in Nat /\ a.body = Told(ticket[q.arg])
        /\ status[q.arg] # "new"

Fresh(c) ==
  /\ session[c] = "none" /\ ops[c] = {} /\ strand[c] = <<>> /\ Alone(c)
  /\ read[c] = 0 /\ Answered(c, 0)

Reading(c) ==
  /\ session[c] = "open" /\ ops[c] = {"read"} /\ strand[c] = <<>> /\ Alone(c)
  /\ Answered(c, read[c]) /\ StaysOpen(c, read[c])

HasRead(c) ==
  /\ session[c] = "open" /\ ops[c] = {} /\ Alone(c)
  /\ strand[c] = <<[op |-> "read", ok |-> TRUE]>>
  /\ read[c] >= 1 /\ Answered(c, read[c] - 1) /\ StaysOpen(c, read[c] - 1)

ReadFailed(c) ==
  /\ session[c] = "open" /\ ops[c] = {} /\ Alone(c)
  /\ strand[c] = <<[op |-> "read", ok |-> FALSE]>>
  /\ StaysOpen(c, read[c] - 1)
  /\ up[c] = "gone" \/ (read[c] >= 1 /\ Current(c).kind = "garbled")

InHandler(c) ==
  /\ session[c] = "open" /\ ops[c] = {} /\ strand[c] = <<>>
  /\ \E t \in IoThreads : \A u \in IoThreads : thread[u] = c <=> u = t
  /\ read[c] >= 1 /\ Answered(c, read[c] - 1) /\ StaysOpen(c, read[c] - 1)

Writing(c) ==
  /\ session[c] = "open" /\ ops[c] = {"write"} /\ strand[c] = <<>> /\ Alone(c)
  /\ read[c] >= 1 /\ Answered(c, read[c] - 1) /\ StaysOpen(c, read[c] - 1)
  /\ res[c] \in Response /\ Fit(Current(c), read[c], res[c])

HasWritten(c) ==
  /\ session[c] = "open" /\ ops[c] = {} /\ Alone(c)
  /\ strand[c] = <<[op |-> "write", ok |-> TRUE]>>
  /\ read[c] >= 1 /\ Answered(c, read[c]) /\ StaysOpen(c, read[c] - 1)
  /\ res[c] \in Response /\ Fit(Current(c), read[c], res[c])

WriteFailed(c) ==
  /\ session[c] = "open" /\ ops[c] = {} /\ Alone(c)
  /\ strand[c] = <<[op |-> "write", ok |-> FALSE]>>
  /\ StaysOpen(c, read[c] - 1) /\ up[c] = "gone"

Over(c) ==
  /\ session[c] = "over" /\ ops[c] = {} /\ strand[c] = <<>> /\ Alone(c)
  /\ StaysOpen(c, read[c] - 1)
  /\ \/ up[c] = "gone"
     \/ /\ read[c] >= 1
        /\ \/ Current(c).kind = "garbled"
           \/ Current(c).close /\ Current(c).kind # "launch"

Phase(c) ==
  \/ Fresh(c) \/ Reading(c) \/ HasRead(c) \/ ReadFailed(c) \/ InHandler(c)
  \/ Writing(c) \/ HasWritten(c) \/ WriteFailed(c) \/ Over(c)

GotFits(c) ==
  /\ Len(got[c]) <= read[c]
  /\ \A n \in DOMAIN got[c] : Fit(sent[c][n], n, got[c][n])

Statuses == {"new", "refused", "pending", "ready", "threw", "delivered", "rethrown"}

StoreType ==
  /\ status \in [Tasks -> Statuses] /\ ticket \in [Tasks -> Int]
  /\ taken \in [Tasks -> Conns \cup {None}]

Inv ==
  /\ TypeOK /\ StoreType
  /\ \A c \in Conns : /\ read[c] <= Len(sent[c]) /\ Phase(c) /\ GotFits(c)
                      /\ session[c] # "none" => up[c] # "no"

-----------------------------------------------------------------------------
(* What a step leaves alone *)

\* Nothing happens in the session of c.
Same(c) ==
  /\ read'[c] = read[c] /\ session'[c] = session[c] /\ ops'[c] = ops[c]
  /\ strand'[c] = strand[c] /\ res'[c] = res[c] /\ got'[c] = got[c]
  /\ \A t \in IoThreads : thread'[t] = c <=> thread[t] = c

\* Its client does nothing but send and hang up.
Onward(c) ==
  /\ \A n \in 1 .. read[c] : sent'[c][n] = sent[c][n]
  /\ Len(sent[c]) <= Len(sent'[c])
  /\ up'[c] = up[c] \/ (up[c] = "no" /\ up'[c] = "yes") \/ (up[c] = "yes" /\ up'[c] = "gone")

\* A task keeps its key.
Steady ==
  \A k \in Tasks : status[k] # "new" => status'[k] # "new" /\ ticket'[k] = ticket[k]

\* The requests that have been read.
LEMMA ReadRequests ==
  ASSUME Inv, NEW c \in Conns, NEW n \in 1 .. read[c]
  PROVE  /\ n \in Nat /\ n \in DOMAIN sent[c] /\ sent[c][n] \in Requests
         /\ sent[c][n] \in Request
         /\ sent[c][n].kind = "launch" => sent[c][n].arg \in Tasks
<1>1. read[c] \in Nat /\ read[c] <= Len(sent[c]) /\ sent[c] \in Seq(Requests)
  BY DEF Inv, TypeOK
<1>2. n \in DOMAIN sent[c]
  BY <1>1
<1>3. sent[c][n] \in Requests
  BY <1>1, <1>2
<1> QED
  BY <1>1, <1>2, <1>3

LEMMA FitSteady ==
  ASSUME Steady, NEW q \in Requests, NEW n, NEW a, Fit(q, n, a)
  PROVE  Fit(q, n, a)'
BY DEF Steady, Fit

\* Nothing of this depends on the other connections.
LEMMA PhaseKept ==
  ASSUME Inv, Steady, NEW c \in Conns, Same(c), Onward(c)
  PROVE  Phase(c)'
<1>1. read[c] \in Nat /\ read'[c] = read[c]
  BY DEF Inv, TypeOK, Same
<1>2. /\ Alone(c) => Alone(c)'
      /\ \A n : Answered(c, n) => Answered(c, n)'
      /\ \A m \in Int : m <= read[c] /\ StaysOpen(c, m) => StaysOpen(c, m)'
  BY <1>1 DEF Alone, Answered, StaysOpen, Same, Onward
<1>3. read[c] >= 1 => Current(c)' = Current(c) /\ Current(c) \in Requests
  <2>1. read[c] >= 1 => read[c] \in 1 .. read[c]
    BY <1>1
  <2> QED
    BY <1>1, <2>1, ReadRequests DEF Current, Onward
<1>4. read[c] >= 1 /\ Fit(Current(c), read[c], res[c]) => Fit(Current(c), read[c], res[c])'
  BY <1>1, <1>3, FitSteady DEF Same, Fit, Steady
<1>5. CASE Fresh(c)
  BY <1>1, <1>2, <1>5 DEF Fresh, Phase, Same, Answered
<1>6. CASE Reading(c)
  <2>1. Answered(c, read[c])' /\ StaysOpen(c, read[c])'
    BY <1>1, <1>2, <1>6 DEF Reading, Answered, StaysOpen
  <2> QED
    BY <1>2, <1>6, <2>1 DEF Reading, Phase, Same
<1>7. CASE HasRead(c) \/ ReadFailed(c) \/ InHandler(c) \/ Writing(c) \/ WriteFailed(c) \/ Over(c)
  <2>1. StaysOpen(c, read[c] - 1)' /\ (Answered(c, read[c] - 1) => Answered(c, read[c] - 1)')
    BY <1>1, <1>2, <1>7 DEF HasRead, ReadFailed, InHandler, Writing, WriteFailed, Over,
                            Answered, StaysOpen
  <2>2. CASE HasRead(c)
    BY <1>1, <1>2, <2>1, <2>2 DEF HasRead, Phase, Same
  <2>3. CASE ReadFailed(c)
    BY <1>1, <1>2, <1>3, <2>1, <2>3 DEF ReadFailed, Phase, Same, Onward
  <2>4. CASE InHandler(c)
    BY <1>1, <2>1, <2>4 DEF InHandler, Phase, Same
  <2>5. CASE Writing(c)
    BY <1>1, <1>2, <1>4, <2>1, <2>5 DEF Writing, Phase, Same
  <2>6. CASE WriteFailed(c)
    BY <1>1, <1>2, <2>1, <2>6 DEF WriteFailed, Phase, Same, Onward
  <2>7. CASE Over(c)
    BY <1>1, <1>2, <1>3, <2>1, <2>7 DEF Over, Phase, Same, Onward
  <2> QED
    BY <1>7, <2>2, <2>3, <2>4, <2>5, <2>6, <2>7
<1>8. CASE HasWritten(c)
  <2>1. StaysOpen(c, read[c] - 1)' /\ Answered(c, read[c])'
    BY <1>1, <1>2, <1>8 DEF HasWritten, Answered, StaysOpen
  <2> QED
    BY <1>1, <1>2, <1>4, <1>8, <2>1 DEF HasWritten, Phase, Same
<1> QED
  BY <1>5, <1>6, <1>7, <1>8 DEF Inv, Phase

LEMMA GotKept ==
  ASSUME Inv, Steady, NEW c \in Conns, got'[c] = got[c], Onward(c), read'[c] \in Nat,
         read[c] <= read'[c]
  PROVE  GotFits(c)'
<1>1. /\ Len(got[c]) <= read[c] /\ Len(got[c]) \in Nat /\ read[c] \in Nat
      /\ DOMAIN got[c] = 1 .. Len(got[c])
  BY DEF Inv, TypeOK, GotFits
<1>2. Len(got'[c]) <= read'[c]
  BY <1>1
<1>3. ASSUME NEW n \in DOMAIN got[c] PROVE Fit(sent[c][n], n, got[c][n])'
  <2>1. n \in 1 .. read[c] /\ sent[c][n] \in Requests /\ Fit(sent[c][n], n, got[c][n])
    BY <1>1, ReadRequests DEF Inv, GotFits
  <2>2. sent'[c][n] = sent[c][n]
    BY <2>1 DEF Onward
  <2> QED
    BY <2>1, <2>2, FitSteady DEF Fit, Steady
<1> QED
  BY <1>2, <1>3 DEF GotFits

\* One session moves on, and the others are left alone.
LEMMA OneMoves ==
  ASSUME Inv, Steady, TypeOK', StoreType', NEW c \in Conns,
         \A d \in Conns : d # c => Same(d) /\ Onward(d),
         Phase(c)', GotFits(c)', read'[c] <= Len(sent'[c]), up'[c] # "no"
  PROVE  Inv'
<1>1. ASSUME NEW d \in Conns, d # c
      PROVE  /\ read'[d] <= Len(sent'[d]) /\ Phase(d)' /\ GotFits(d)'
             /\ session'[d] # "none" => up'[d] # "no"
  <2>1. Same(d) /\ Onward(d)
    BY <1>1
  <2>2. /\ read[d] \in Nat /\ read'[d] = read[d] /\ read[d] <= Len(sent[d])
        /\ Len(sent[d]) <= Len(sent'[d]) /\ Len(sent[d]) \in Nat /\ Len(sent'[d]) \in Nat
    BY <2>1 DEF Inv, TypeOK, Same, Onward
  <2>3. session'[d] # "none" => up'[d] # "no"
    BY <2>1 DEF Inv, Same, Onward
  <2>4. got'[d] = got[d]
    BY <2>1 DEF Same
  <2> QED
    BY <2>1, <2>2, <2>3, <2>4, PhaseKept, GotKept
<1> QED
  BY <1>1 DEF Inv

LEMMA NoneMoves ==
  ASSUME Inv, Steady, TypeOK', StoreType', \A d \in Conns : Same(d) /\ Onward(d)
  PROVE  Inv'
<1>1. ASSUME NEW c \in Conns
      PROVE  /\ Phase(c)' /\ GotFits(c)' /\ read'[c] <= Len(sent'[c])
             /\ session'[c] # "none" => up'[c] # "no"
  <2>1. Same(c) /\ Onward(c)
    OBVIOUS
  <2>2. /\ read[c] \in Nat /\ read'[c] = read[c] /\ read[c] <= Len(sent[c])
        /\ Len(sent[c]) <= Len(sent'[c]) /\ Len(sent[c]) \in Nat /\ Len(sent'[c]) \in Nat
    BY <2>1 DEF Inv, TypeOK, Same, Onward
  <2>3. session'[c] # "none" => up'[c] # "no"
    BY <2>1 DEF Inv, Same, Onward
  <2>4. got'[c] = got[c]
    BY <2>1 DEF Same
  <2> QED
    BY <2>1, <2>2, <2>3, <2>4, PhaseKept, GotKept
<1> QED
  BY <1>1 DEF Inv

LEMMA StoreAlone ==
  ASSUME Inv, UNCHANGED storeVars PROVE Steady /\ StoreType'
BY DEF Inv, StoreType, Steady, storeVars

\* Which phase a session is in can be told from what it does.
LEMMA PhaseOf ==
  ASSUME Inv, NEW c \in Conns
  PROVE  /\ session[c] = "none" => Fresh(c)
         /\ "read" \in ops[c] => Reading(c)
         /\ "write" \in ops[c] => Writing(c)
         /\ \A t \in IoThreads : thread[t] = c => InHandler(c)
         /\ strand[c] # <<>> /\ Head(strand[c]).op = "read" =>
               IF Head(strand[c]).ok THEN HasRead(c) ELSE ReadFailed(c)
         /\ strand[c] # <<>> /\ Head(strand[c]).op = "write" =>
               IF Head(strand[c]).ok THEN HasWritten(c) ELSE WriteFailed(c)
<1>1. Phase(c)
  BY DEF Inv
<1>2. CASE Fresh(c)
  BY <1>2 DEF Fresh, Alone
<1>3. CASE Reading(c)
  BY <1>3 DEF Reading, Alone
<1>4. CASE HasRead(c)
  BY <1>4 DEF HasRead, Alone
<1>5. CASE ReadFailed(c)
  BY <1>5 DEF ReadFailed, Alone
<1>6. CASE InHandler(c)
  BY <1>6 DEF InHandler
<1>7. CASE Writing(c)
  BY <1>7 DEF Writing, Alone
<1>8. CASE HasWritten(c)
  BY <1>8 DEF HasWritten, Alone
<1>9. CASE WriteFailed(c)
  BY <1>9 DEF WriteFailed, Alone
<1>10. CASE Over(c)
  BY <1>10 DEF Over, Alone
<1> QED
  BY <1>1, <1>2, <1>3, <1>4, <1>5, <1>6, <1>7, <1>8, <1>9, <1>10 DEF Phase

-----------------------------------------------------------------------------
(* Clients *)

LEMMA InitInv == Init => Inv
<1> SUFFICES ASSUME Init PROVE Inv
  OBVIOUS
<1>1. TypeOK
  BY DEF Init, TypeOK
<1>2. StoreType
  <2>1. status = [k \in Tasks |-> "new"] /\ ticket = [k \in Tasks |-> -1]
    BY DEF Init, Store!Init
  <2>2. status \in [Tasks -> Statuses]
    BY <2>1 DEF Statuses
  <2>3. ticket \in [Tasks -> Int] /\ taken \in [Tasks -> Conns \cup {None}]
    BY <2>1 DEF Init
  <2> QED
    BY <2>2, <2>3 DEF StoreType
<1>3. ASSUME NEW c \in Conns
      PROVE  read[c] <= Len(sent[c]) /\ Fresh(c) /\ GotFits(c) /\ session[c] = "none"
  <2>1. /\ session[c] = "none" /\ ops[c] = {} /\ strand[c] = <<>> /\ read[c] = 0
        /\ sent[c] = <<>> /\ got[c] = <<>> /\ \A t \in IoThreads : thread[t] # c
    BY DEF Init
  <2> QED
    BY <2>1 DEF Fresh, GotFits, Alone, Answered
<1> QED
  BY <1>1, <1>2, <1>3 DEF Inv, Phase

LEMMA ClientKeeps ==
  ASSUME Inv, NEW c \in Conns,
         Connect(c) \/ HangUp(c) \/ \E r \in Requests : Submit(c, r)
  PROVE  Inv'
<1>1. \A d \in Conns : Same(d)
  BY DEF Connect, HangUp, Submit, sessionVars, Same
<1>2. Steady /\ StoreType'
  BY StoreAlone DEF Connect, HangUp, Submit
<1>3. CASE Connect(c) \/ HangUp(c)
  <2>1. TypeOK'
    BY <1>3 DEF Inv, TypeOK, Connect, HangUp, sessionVars
  <2>2. \A d \in Conns : Onward(d)
    BY <1>3 DEF Inv, TypeOK, Connect, HangUp, Onward
  <2> QED
    BY <1>1, <1>2, <2>1, <2>2, NoneMoves
<1>4. ASSUME NEW r \in Requests, Submit(c, r) PROVE Inv'
  <2>1. TypeOK'
    BY <1>4 DEF Inv, TypeOK, Submit, sessionVars
  <2>2. ASSUME NEW d \in Conns PROVE Onward(d)
    <3>1. /\ sent[d] \in Seq(Requests) /\ read[d] \in Nat /\ read[d] <= Len(sent[d])
          /\ sent'[d] = IF d = c THEN Append(sent[d], r) ELSE sent[d]
          /\ up' = up
      BY <1>4 DEF Inv, TypeOK, Submit
    <3>2. /\ Len(sent[d]) <= Len(sent'[d])
          /\ \A n \in 1 .. read[d] : sent'[d][n] = sent[d][n]
      BY <3>1
    <3> QED
      BY <3>1, <3>2 DEF Onward
  <2> QED
    BY <1>1, <1>2, <2>1, <2>2, NoneMoves
<1> QED
  BY <1>3, <1>4

-----------------------------------------------------------------------------
(* The listener and the operations of a session *)

LEMMA AcceptKeeps ==
  ASSUME Inv, NEW t \in IoThreads, NEW c \in Conns, Accept(t, c) PROVE Inv'
<1>1. TypeOK'
  BY DEF Inv, TypeOK, Accept, clientVars
<1>2. Steady /\ StoreType'
  BY StoreAlone DEF Accept
<1>3. \A d \in Conns : d # c => Same(d) /\ Onward(d)
  BY DEF Inv, TypeOK, Accept, Same, Onward, clientVars
<1>4. Fresh(c)
  BY PhaseOf DEF Accept
<1>5. Reading(c)'
  BY <1>4 DEF Inv, TypeOK, Accept, Fresh, Reading, Alone, Answered, StaysOpen, clientVars
<1>6. GotFits(c)'
  <2>1. Onward(c) /\ got'[c] = got[c] /\ read'[c] = read[c] /\ read[c] \in Nat
    BY DEF Inv, TypeOK, Accept, Onward, clientVars
  <2> QED
    BY <1>2, <2>1, GotKept
<1>7. read'[c] <= Len(sent'[c]) /\ up'[c] # "no"
  BY DEF Inv, Accept, clientVars
<1> QED
  BY <1>1, <1>2, <1>3, <1>5, <1>6, <1>7, OneMoves DEF Phase

\* Of a step that is not the client's.
LEMMA ClientAlone ==
  ASSUME Inv, UNCHANGED clientVars, NEW c \in Conns
  PROVE  /\ Onward(c) /\ sent'[c] = sent[c] /\ up'[c] = up[c]
         /\ sent[c] \in Seq(Requests) /\ got[c] \in Seq(Response)
         /\ read[c] \in Nat /\ Len(sent[c]) \in Nat /\ Len(got[c]) \in Nat
         /\ read[c] <= Len(sent[c]) /\ Len(got[c]) <= read[c]
BY DEF Inv, TypeOK, Onward, clientVars, GotFits

LEMMA ReadDoneKeeps ==
  ASSUME Inv, NEW c \in Conns, ReadDone(c) PROVE Inv'
<1> DEFINE ok == sent[c][read[c] + 1].kind # "garbled"
<1>1. /\ "read" \in ops[c] /\ UNCHANGED <<clientVars, session, res, got, thread, storeVars>>
      /\ ops' = [ops EXCEPT ![c] = @ \ {"read"}]
      /\ strand' = [strand EXCEPT ![c] = Append(@, [op |-> "read", ok |-> ok])]
      /\ read' = [read EXCEPT ![c] = @ + 1]
      /\ read[c] < Len(sent[c])
  BY DEF ReadDone, Complete
<1>2. Reading(c)
  BY <1>1, PhaseOf
<1>3. ok \in BOOLEAN
  OBVIOUS
<1> HIDE DEF ok
<1>4. /\ ops'[c] = {} /\ strand'[c] = <<[op |-> "read", ok |-> ok]>>
      /\ read'[c] = read[c] + 1 /\ read[c] \in Nat /\ session'[c] = session[c]
  BY <1>1, <1>2 DEF Inv, TypeOK, Reading
<1>5. TypeOK'
  <2>1. [op |-> "read", ok |-> ok] \in [op : {"read", "write"}, ok : BOOLEAN]
    BY <1>3
  <2>2. strand' \in [Conns -> Seq([op : {"read", "write"}, ok : BOOLEAN])]
    BY <1>1, <2>1 DEF Inv, TypeOK
  <2>3. ops' \in [Conns -> SUBSET {"read", "write"}] /\ read' \in [Conns -> Nat]
    BY <1>1 DEF Inv, TypeOK
  <2> QED
    BY <1>1, <2>2, <2>3 DEF Inv, TypeOK, clientVars
<1>6. Steady /\ StoreType'
  BY <1>1, StoreAlone
<1>7. \A d \in Conns : d # c => Same(d) /\ Onward(d)
  BY <1>1, ClientAlone DEF Inv, TypeOK, Same
<1>8. GotFits(c)'
  BY <1>1, <1>4, <1>6, ClientAlone, GotKept
<1>9. StaysOpen(c, read[c] - 1)'
  BY <1>1, <1>2, <1>4, ClientAlone DEF Reading, StaysOpen
<1>10. Answered(c, read[c] - 1)' /\ Alone(c)'
  BY <1>1, <1>2, <1>4, ClientAlone DEF Reading, Answered, Alone
<1>11. Phase(c)'
  <2>1. CASE ok
    BY <1>1, <1>2, <1>4, <1>9, <1>10, <2>1 DEF HasRead, Phase, Reading
  <2>2. CASE ~ok
    <3>1. Current(c)'.kind = "garbled"
      BY <1>1, <1>4, <2>2, ClientAlone DEF Current, ok
    <3>2. strand'[c] = <<[op |-> "read", ok |-> FALSE]>>
      BY <1>3, <1>4, <2>2
    <3>3. session'[c] = "open" /\ ops'[c] = {} /\ read'[c] >= 1
      BY <1>2, <1>4 DEF Reading
    <3> QED
      BY <1>9, <1>10, <3>1, <3>2, <3>3 DEF ReadFailed, Phase
  <2> QED
    BY <1>3, <2>1, <2>2
<1>12. read'[c] <= Len(sent'[c]) /\ up'[c] # "no"
  BY <1>1, <1>2, <1>4, ClientAlone DEF Inv, Reading
<1> QED
  BY <1>5, <1>6, <1>7, <1>8, <1>11, <1>12, OneMoves

LEMMA ReadFailsKeeps ==
  ASSUME Inv, NEW c \in Conns, ReadFails(c) PROVE Inv'
<1>1. /\ "read" \in ops[c] /\ UNCHANGED <<clientVars, read, session, res, got, thread, storeVars>>
      /\ ops' = [ops EXCEPT ![c] = @ \ {"read"}]
      /\ strand' = [strand EXCEPT ![c] = Append(@, [op |-> "read", ok |-> FALSE])]
      /\ up[c] = "gone"
  BY DEF ReadFails, Complete
<1>2. Reading(c)
  BY <1>1, PhaseOf
<1>3. ops'[c] = {} /\ strand'[c] = <<[op |-> "read", ok |-> FALSE]>>
  <2>1. ops[c] = {"read"} /\ strand[c] = <<>>
    BY <1>2 DEF Reading
  <2>2. ops'[c] = {}
    BY <1>1, <2>1 DEF Inv, TypeOK
  <2>3. strand'[c] = Append(strand[c], [op |-> "read", ok |-> FALSE])
    BY <1>1 DEF Inv, TypeOK
  <2> QED
    BY <2>1, <2>2, <2>3
<1>4. TypeOK'
  BY <1>1 DEF Inv, TypeOK, clientVars
<1>5. Steady /\ StoreType'
  BY <1>1, StoreAlone
<1>6. \A d \in Conns : d # c => Same(d) /\ Onward(d)
  BY <1>1, ClientAlone DEF Inv, TypeOK, Same
<1>7. GotFits(c)'
  BY <1>1, <1>5, ClientAlone, GotKept
<1>8. StaysOpen(c, read[c] - 1)' /\ Alone(c)'
  BY <1>1, <1>2, ClientAlone DEF Reading, StaysOpen, Alone
<1>9. ReadFailed(c)'
  BY <1>1, <1>2, <1>3, <1>8, ClientAlone DEF Reading, ReadFailed
<1>10. read'[c] <= Len(sent'[c]) /\ up'[c] # "no"
  BY <1>1, ClientAlone
<1> QED
  BY <1>4, <1>5, <1>6, <1>7, <1>9, <1>10, OneMoves DEF Phase

LEMMA WriteFailsKeeps ==
  ASSUME Inv, NEW c \in Conns, WriteFails(c) PROVE Inv'
<1>1. /\ "write" \in ops[c] /\ UNCHANGED <<clientVars, read, session, res, got, thread, storeVars>>
      /\ ops' = [ops EXCEPT ![c] = @ \ {"write"}]
      /\ strand' = [strand EXCEPT ![c] = Append(@, [op |-> "write", ok |-> FALSE])]
      /\ up[c] = "gone"
  BY DEF WriteFails, Complete
<1>2. Writing(c)
  BY <1>1, PhaseOf
<1>3. ops'[c] = {} /\ strand'[c] = <<[op |-> "write", ok |-> FALSE]>>
  <2>1. ops[c] = {"write"} /\ strand[c] = <<>>
    BY <1>2 DEF Writing
  <2>2. ops'[c] = {}
    BY <1>1, <2>1 DEF Inv, TypeOK
  <2>3. strand'[c] = Append(strand[c], [op |-> "write", ok |-> FALSE])
    BY <1>1 DEF Inv, TypeOK
  <2> QED
    BY <2>1, <2>2, <2>3
<1>4. TypeOK'
  BY <1>1 DEF Inv, TypeOK, clientVars
<1>5. Steady /\ StoreType'
  BY <1>1, StoreAlone
<1>6. \A d \in Conns : d # c => Same(d) /\ Onward(d)
  BY <1>1, ClientAlone DEF Inv, TypeOK, Same
<1>7. GotFits(c)'
  BY <1>1, <1>5, ClientAlone, GotKept
<1>8. StaysOpen(c, read[c] - 1)' /\ Alone(c)'
  BY <1>1, <1>2, ClientAlone DEF Writing, StaysOpen, Alone
<1>9. WriteFailed(c)'
  BY <1>1, <1>2, <1>3, <1>8, ClientAlone DEF Writing, WriteFailed
<1>10. read'[c] <= Len(sent'[c]) /\ up'[c] # "no"
  BY <1>1, ClientAlone
<1> QED
  BY <1>4, <1>5, <1>6, <1>7, <1>9, <1>10, OneMoves DEF Phase

\* The client gets its next answer, or has hung up.
LEMMA WriteDoneKeeps ==
  ASSUME Inv, NEW c \in Conns, WriteDone(c) PROVE Inv'
<1>1. /\ "write" \in ops[c] /\ UNCHANGED <<clientVars, read, session, res, thread, storeVars>>
      /\ ops' = [ops EXCEPT ![c] = @ \ {"write"}]
      /\ strand' = [strand EXCEPT ![c] = Append(@, [op |-> "write", ok |-> TRUE])]
      /\ got' = IF up[c] = "yes" THEN [got EXCEPT ![c] = Append(@, res[c])] ELSE got
  BY DEF WriteDone, Complete
<1>2. Writing(c)
  BY <1>1, PhaseOf
<1>3. /\ ops'[c] = {} /\ strand'[c] = <<[op |-> "write", ok |-> TRUE]>>
      /\ up[c] = "yes" \/ up[c] = "gone"
  <2>1. ops[c] = {"write"} /\ strand[c] = <<>> /\ session[c] = "open"
    BY <1>2 DEF Writing
  <2>2. ops'[c] = {}
    BY <1>1, <2>1 DEF Inv, TypeOK
  <2>3. strand'[c] = Append(strand[c], [op |-> "write", ok |-> TRUE])
    BY <1>1 DEF Inv, TypeOK
  <2>4. up[c] = "yes" \/ up[c] = "gone"
    BY <2>1 DEF Inv, TypeOK
  <2> QED
    BY <2>1, <2>2, <2>3, <2>4
<1>4. res[c] \in Response /\ Fit(Current(c), read[c], res[c]) /\ read[c] >= 1
  BY <1>2 DEF Writing
<1>5. got' \in [Conns -> Seq(Response)]
  <2>1. got \in [Conns -> Seq(Response)] /\ Append(got[c], res[c]) \in Seq(Response)
    BY <1>4 DEF Inv, TypeOK
  <2> QED
    BY <1>1, <2>1
<1>6. TypeOK'
  BY <1>1, <1>5 DEF Inv, TypeOK, clientVars
<1>7. Steady /\ StoreType'
  BY <1>1, StoreAlone
<1>8. \A d \in Conns : d # c => Same(d) /\ Onward(d)
  BY <1>1, ClientAlone DEF Inv, TypeOK, Same
<1>9. Current(c)' = Current(c) /\ Current(c) \in Requests
  BY <1>1, <1>4, ClientAlone, ReadRequests DEF Current
<1>10. Fit(Current(c), read[c], res[c])'
  <2>1. read' = read /\ res' = res
    BY <1>1
  <2> QED
    BY <1>4, <1>7, <1>9, <2>1, FitSteady DEF Fit, Steady
<1>11. GotFits(c)' /\ Answered(c, read[c])'
  <2>1. CASE up[c] = "gone"
    BY <1>1, <1>7, <2>1, ClientAlone, GotKept DEF Answered
  <2>2. CASE up[c] = "yes"
    <3>1. Len(got[c]) = read[c] - 1 /\ got[c] \in Seq(Response) /\ read[c] \in Nat
      BY <1>2, <2>2, ClientAlone, <1>1 DEF Writing, Answered
    <3>2. got'[c] = Append(got[c], res[c])
      BY <1>1, <2>2 DEF Inv, TypeOK
    <3>3. /\ Len(got'[c]) = read[c] /\ DOMAIN got'[c] = 1 .. read[c]
          /\ got'[c][read[c]] = res[c]
          /\ \A n \in 1 .. read[c] : n # read[c] => n \in DOMAIN got[c] /\ got'[c][n] = got[c][n]
      BY <1>4, <3>1, <3>2
    <3>4. ASSUME NEW n \in 1 .. read[c], n # read[c] PROVE Fit(sent[c][n], n, got[c][n])'
      <4>1. PICK q \in Requests, a \in {got[c][n]} : q = sent[c][n] /\ a = got[c][n] /\ Fit(q, n, a)
        BY <3>3, <3>4, ReadRequests DEF Inv, GotFits
      <4>2. q = sent'[c][n] /\ a = got'[c][n]
        BY <1>1, <3>3, <3>4, <4>1, ClientAlone
      <4>3. Fit(q, n, a)'
        BY <1>7, <4>1, FitSteady
      <4> QED
        BY <4>2, <4>3 DEF Fit
    <3>5. Fit(sent[c][read[c]], read[c], got[c][read[c]])'
      <4>1. /\ read' = read /\ res' = res /\ got'[c][read[c]] = res[c]
            /\ Current(c)' = sent'[c][read'[c]]
        BY <1>1, <3>3 DEF Current
      <4> QED
        BY <1>10, <4>1 DEF Fit
    <3>6. read'[c] = read[c]
      BY <1>1
    <3> QED
      BY <3>3, <3>4, <3>5, <3>6 DEF GotFits, Answered
  <2> QED
    BY <1>3, <2>1, <2>2
<1>12. StaysOpen(c, read[c] - 1)' /\ Alone(c)'
  BY <1>1, <1>2, ClientAlone DEF Writing, StaysOpen, Alone
<1>13. HasWritten(c)'
  BY <1>1, <1>2, <1>3, <1>4, <1>10, <1>11, <1>12 DEF Writing, HasWritten
<1>14. read'[c] <= Len(sent'[c]) /\ up'[c] # "no"
  BY <1>1, <1>3, ClientAlone
<1> QED
  BY <1>6, <1>7, <1>8, <1>11, <1>13, <1>14, OneMoves DEF Phase

-----------------------------------------------------------------------------
(* Completion handlers *)

LEMMA RunFacts ==
  ASSUME Inv, NEW t \in IoThreads, NEW c \in Conns, NEW op, Run(t, c, op)
  PROVE  /\ UNCHANGED <<clientVars, read, got, storeVars>>
         /\ strand[c] # <<>> /\ Head(strand[c]).op = op /\ thread[t] = None
         /\ strand' = [strand EXCEPT ![c] = Tail(@)]
         /\ strand' \in [Conns -> Seq([op : {"read", "write"}, ok : BOOLEAN])]
         /\ Steady /\ StoreType'
<1>1. /\ UNCHANGED <<clientVars, read, got, storeVars>>
      /\ strand[c] # <<>> /\ Head(strand[c]).op = op /\ thread[t] = None
      /\ strand' = [strand EXCEPT ![c] = Tail(@)]
  BY DEF Run, Idle
<1>2. strand' \in [Conns -> Seq([op : {"read", "write"}, ok : BOOLEAN])]
  BY <1>1 DEF Inv, TypeOK
<1> QED
  BY <1>1, <1>2, StoreAlone

\* A session ends, and its client hung up, asked for it, or sent no HTTP.
LEMMA EndKeeps ==
  ASSUME Inv, NEW c \in Conns, ReadFailed(c) \/ WriteFailed(c) \/ HasWritten(c),
         HasWritten(c) => res[c].close,
         UNCHANGED <<clientVars, read, got, storeVars, ops, res, thread>>,
         strand' = [strand EXCEPT ![c] = Tail(@)],
         strand' \in [Conns -> Seq([op : {"read", "write"}, ok : BOOLEAN])], End(c)
  PROVE  Inv'
<1>1. TypeOK'
  BY DEF Inv, TypeOK, End, clientVars
<1>2. Steady /\ StoreType'
  BY StoreAlone
<1>3. \A d \in Conns : d # c => Same(d) /\ Onward(d)
  BY ClientAlone DEF Inv, TypeOK, Same, End
<1>4. GotFits(c)'
  BY <1>2, ClientAlone, GotKept
<1>5. ops[c] = {} /\ StaysOpen(c, read[c] - 1) /\ Alone(c) /\ session[c] = "open"
  BY DEF ReadFailed, WriteFailed, HasWritten
<1>6. \E h : strand[c] = <<h>>
  BY DEF ReadFailed, WriteFailed, HasWritten
<1>7. session'[c] = "over" /\ strand'[c] = <<>> /\ ops'[c] = {}
  <2>1. strand'[c] = Tail(strand[c]) /\ session'[c] = "over"
    BY DEF Inv, TypeOK, End
  <2> QED
    BY <1>5, <1>6, <2>1
<1>8. StaysOpen(c, read[c] - 1)' /\ Alone(c)'
  BY <1>5, ClientAlone DEF StaysOpen, Alone
<1>9. \/ up[c] = "gone"
      \/ /\ read[c] >= 1
         /\ Current(c).kind = "garbled" \/ (Current(c).close /\ Current(c).kind # "launch")
  <2>1. CASE ReadFailed(c)
    BY <2>1 DEF ReadFailed
  <2>2. CASE WriteFailed(c)
    BY <2>2 DEF WriteFailed
  <2>3. CASE HasWritten(c)
    BY <2>3 DEF HasWritten, Fit
  <2> QED
    BY <2>1, <2>2, <2>3
<1>10. Current(c)' = Current(c)
  BY ClientAlone DEF Current
<1>11. Over(c)'
  BY <1>7, <1>8, <1>9, <1>10, ClientAlone DEF Over
<1>12. read'[c] <= Len(sent'[c]) /\ up'[c] # "no"
  BY <1>5, ClientAlone DEF Inv
<1> QED
  BY <1>1, <1>2, <1>3, <1>4, <1>11, <1>12, OneMoves DEF Phase

LEMMA OnReadFailedKeeps ==
  ASSUME Inv, NEW t \in IoThreads, NEW c \in Conns, OnReadFailed(t, c) PROVE Inv'
<1>1. ReadFailed(c)
  BY RunFacts, PhaseOf DEF OnReadFailed
<1>2. ~HasWritten(c)
  BY <1>1 DEF ReadFailed, HasWritten
<1> QED
  BY <1>1, <1>2, RunFacts, EndKeeps DEF OnReadFailed

LEMMA OnWriteLastKeeps ==
  ASSUME Inv, NEW t \in IoThreads, NEW c \in Conns, OnWriteLast(t, c) PROVE Inv'
<1>1. IF Head(strand[c]).ok THEN HasWritten(c) ELSE WriteFailed(c)
  BY RunFacts, PhaseOf DEF OnWriteLast
<1>2. HasWritten(c) => Head(strand[c]).ok
  BY DEF HasWritten
<1> QED
  BY <1>1, <1>2, RunFacts, EndKeeps DEF OnWriteLast

LEMMA OnReadKeeps ==
  ASSUME Inv, NEW t \in IoThreads, NEW c \in Conns, OnRead(t, c) PROVE Inv'
<1>1. HasRead(c)
  BY RunFacts, PhaseOf DEF OnRead
<1>2. /\ UNCHANGED <<clientVars, read, got, storeVars, session, ops, res>>
      /\ thread' = [thread EXCEPT ![t] = c] /\ thread[t] = None
      /\ strand' = [strand EXCEPT ![c] = Tail(@)]
      /\ Steady /\ StoreType'
  BY RunFacts DEF OnRead
<1>3. TypeOK'
  <2>1. strand' \in [Conns -> Seq([op : {"read", "write"}, ok : BOOLEAN])]
    BY RunFacts DEF OnRead
  <2> QED
    BY <1>2, <2>1 DEF Inv, TypeOK, clientVars
<1>4. \A d \in Conns : d # c => Same(d) /\ Onward(d)
  BY <1>2, ClientAlone DEF Inv, TypeOK, Same
<1>5. GotFits(c)'
  BY <1>2, ClientAlone, GotKept
<1>6. strand'[c] = <<>>
  <2>1. strand'[c] = Tail(strand[c])
    BY <1>2 DEF Inv, TypeOK
  <2> QED
    BY <1>1, <2>1 DEF HasRead
<1>7. \A u \in IoThreads : thread'[u] = c <=> u = t
  BY <1>1, <1>2 DEF HasRead, Alone, Inv, TypeOK
<1>8. StaysOpen(c, read[c] - 1)' /\ Answered(c, read[c] - 1)'
  BY <1>1, <1>2, ClientAlone DEF HasRead, StaysOpen, Answered
<1>9. InHandler(c)'
  BY <1>1, <1>2, <1>6, <1>7, <1>8 DEF HasRead, InHandler
<1>10. read'[c] <= Len(sent'[c]) /\ up'[c] # "no"
  BY <1>1, <1>2, ClientAlone DEF Inv, HasRead
<1> QED
  BY <1>2, <1>3, <1>4, <1>5, <1>9, <1>10, OneMoves DEF Phase

LEMMA OnWriteKeeps ==
  ASSUME Inv, NEW t \in IoThreads, NEW c \in Conns, OnWrite(t, c) PROVE Inv'
<1>1. HasWritten(c)
  BY RunFacts, PhaseOf DEF OnWrite
<1>2. /\ UNCHANGED <<clientVars, read, got, storeVars, session, thread>>
      /\ strand' = [strand EXCEPT ![c] = Tail(@)]
      /\ res' = [res EXCEPT ![c] = None]
      /\ ops' = [ops EXCEPT ![c] = @ \cup {"read"}]
      /\ ~res[c].close /\ Steady /\ StoreType'
  BY RunFacts DEF OnWrite
<1>3. TypeOK'
  <2>1. strand' \in [Conns -> Seq([op : {"read", "write"}, ok : BOOLEAN])]
    BY RunFacts DEF OnWrite
  <2> QED
    BY <1>2, <2>1 DEF Inv, TypeOK, clientVars
<1>4. \A d \in Conns : d # c => Same(d) /\ Onward(d)
  BY <1>2, ClientAlone DEF Inv, TypeOK, Same
<1>5. GotFits(c)'
  BY <1>2, ClientAlone, GotKept
<1>6. strand'[c] = <<>> /\ ops'[c] = {"read"}
  <2>1. strand'[c] = Tail(strand[c]) /\ ops'[c] = ops[c] \cup {"read"}
    BY <1>2 DEF Inv, TypeOK
  <2> QED
    BY <1>1, <2>1 DEF HasWritten
<1>7. StaysOpen(c, read[c])'
  <2>1. read[c] \in Nat /\ read'[c] = read[c] /\ sent'[c] = sent[c]
    BY <1>2, ClientAlone
  <2>2. sent[c][read[c]].close => sent[c][read[c]].kind = "launch"
    BY <1>1, <1>2 DEF HasWritten, Fit, Current
  <2> QED
    BY <1>1, <2>1, <2>2 DEF HasWritten, StaysOpen
<1>8. Answered(c, read[c])' /\ Alone(c)'
  BY <1>1, <1>2, ClientAlone DEF HasWritten, Answered, Alone
<1>9. Reading(c)'
  BY <1>1, <1>2, <1>6, <1>7, <1>8 DEF HasWritten, Reading
<1>10. read'[c] <= Len(sent'[c]) /\ up'[c] # "no"
  BY <1>1, <1>2, ClientAlone DEF Inv, HasWritten
<1> QED
  BY <1>2, <1>3, <1>4, <1>5, <1>9, <1>10, OneMoves DEF Phase

-----------------------------------------------------------------------------
(* handle_request() *)

\* A response that fits is sent.
Sent(t, c, a) ==
  /\ UNCHANGED <<clientVars, read, session, strand, got>>
  /\ res' = [res EXCEPT ![c] = a]
  /\ ops' = [ops EXCEPT ![c] = @ \cup {"write"}]
  /\ thread' = [thread EXCEPT ![t] = None]

LEMMA SentKeeps ==
  ASSUME Inv, Steady, StoreType', NEW t \in IoThreads, NEW c \in Conns, thread[t] = c,
         NEW a \in Response, Sent(t, c, a), Fit(Current(c), read[c], a)'
  PROVE  Inv'
<1>1. InHandler(c)
  BY PhaseOf
<1>2. /\ UNCHANGED <<clientVars, read, session, strand, got>>
      /\ res' = [res EXCEPT ![c] = a]
      /\ ops' = [ops EXCEPT ![c] = @ \cup {"write"}]
      /\ thread' = [thread EXCEPT ![t] = None]
  BY DEF Sent
<1>3. TypeOK'
  BY <1>2 DEF Inv, TypeOK, clientVars
<1>4. \A d \in Conns : d # c => Same(d) /\ Onward(d)
  BY <1>2, ClientAlone DEF Inv, TypeOK, Same
<1>5. GotFits(c)'
  BY <1>2, ClientAlone, GotKept
<1>6. Alone(c)'
  <2>1. PICK t0 \in IoThreads : \A u \in IoThreads : thread[u] = c <=> u = t0
    BY <1>1 DEF InHandler
  <2> QED
    BY <1>2, <2>1 DEF Alone, Inv, TypeOK
<1>7. StaysOpen(c, read[c] - 1)' /\ Answered(c, read[c] - 1)'
  BY <1>1, <1>2, ClientAlone DEF InHandler, StaysOpen, Answered
<1>8. ops'[c] = {"write"} /\ res'[c] = a
  BY <1>1, <1>2 DEF InHandler, Inv, TypeOK
<1>9. Fit(Current(c), read[c], res[c])'
  BY <1>8
<1>10. Writing(c)'
  BY <1>1, <1>2, <1>6, <1>7, <1>8, <1>9 DEF InHandler, Writing
<1>11. read'[c] <= Len(sent'[c]) /\ up'[c] # "no"
  BY <1>1, <1>2, ClientAlone DEF Inv, InHandler
<1> QED
  BY <1>3, <1>4, <1>5, <1>10, <1>11, OneMoves DEF Phase

\* The request at hand, and what is left of it by the step.
LEMMA HandlingFacts ==
  ASSUME Inv, NEW t \in IoThreads, NEW kind, Handling(t, kind)
  PROVE  \E c \in Conns :
           /\ thread[t] = c /\ read[c] \in Nat
           /\ Current(c) \in Request /\ Current(c).kind = kind
           /\ kind = "launch" => Current(c).arg \in Tasks
           /\ UNCHANGED <<clientVars, read>> => Current(c)' = Current(c)
<1>1. PICK c \in Conns : thread[t] = c /\ Current(c).kind = kind
  BY DEF Handling, Inv, TypeOK
<1>2. InHandler(c)
  BY <1>1, PhaseOf
<1>3. read[c] \in Nat /\ read[c] \in 1 .. read[c]
  BY <1>2 DEF Inv, TypeOK, InHandler
<1>4. Current(c) \in Request /\ (Current(c).kind = "launch" => Current(c).arg \in Tasks)
  BY <1>3, ReadRequests DEF Current
<1>5. UNCHANGED <<clientVars, read>> => Current(c)' = Current(c)
  BY DEF Current, clientVars
<1> QED
  BY <1>1, <1>3, <1>4, <1>5

\* Send, as a response to the request at hand.
LEMMA SendSends ==
  ASSUME NEW t \in IoThreads, NEW c \in Conns, thread[t] = c, read[c] \in Nat,
         NEW code \in {200, 302, 102, 400, 404, 500}, NEW body \in Tasks \cup Nat \cup {None},
         NEW close \in BOOLEAN, NEW id \in BOOLEAN, Send(t, code, body, close, id)
  PROVE  \E a \in Response :
           /\ Sent(t, c, a) /\ a.to = read[c] /\ a.code = code /\ a.body = body
           /\ a.close = close /\ a.id = id
<1> DEFINE a == [to |-> read[c], code |-> code, body |-> body, close |-> close, id |-> id]
<1>1. a \in Response
  BY DEF Response
<1>2. Sent(t, c, a)
  BY DEF Send, Sent
<1>3. a.to = read[c] /\ a.code = code /\ a.body = body /\ a.close = close /\ a.id = id
  OBVIOUS
<1> HIDE DEF a
<1> QED
  BY <1>1, <1>2, <1>3

\* An answer with the headers of its request fits, and so does one without them
\* to a launch; but for a key or a result, which has to be the right one.
Headers(q, a) ==
  \/ /\ q.kind \in {"head", "bad", "json", "retrieve"}
     /\ a.close = q.close /\ a.id = (q.id /\ q.kind \in {"json", "retrieve"})
  \/ q.kind = "launch" /\ a.code # 200 /\ a.close = FALSE /\ a.id = FALSE

LEMMA PlainFits ==
  ASSUME NEW c \in Conns, NEW q \in Request, NEW n, NEW a \in Response,
         Current(c)' = q, read'[c] = n, a.to = n, a.code # 302, Headers(q, a)
  PROVE  Fit(Current(c), read[c], a)'
<1>1. q.close \in BOOLEAN /\ q.id \in BOOLEAN /\ a.close \in BOOLEAN /\ a.id \in BOOLEAN
  BY DEF Request, Response
<1>2. a.close = (q.close /\ q.kind # "launch")
  BY <1>1 DEF Headers
<1>3. /\ a.id => q.id
      /\ (q.id /\ ~a.id) => q.kind \in {"head", "bad", "launch"}
      /\ ~(q.kind = "launch" /\ a.code = 200)
  BY <1>1 DEF Headers
<1> QED
  BY <1>2, <1>3 DEF Fit

LEMMA PlainKeeps ==
  ASSUME Inv, NEW t \in IoThreads,
         HandleHead(t) \/ HandleBad(t) \/ HandleJson(t) \/ RetrieveMissing(t)
           \/ \E k \in Tasks : RetrievePending(t, k)
  PROVE  Inv'
<1>1. PICK kind \in {"head", "bad", "json", "retrieve"},
           code \in {200, 400, 404, 102} :
        /\ Handling(t, kind) /\ UNCHANGED storeVars
        /\ \/ Reply(t, code, None) /\ kind \in {"json", "retrieve"}
           \/ ReplyWithoutId(t, code) /\ kind \in {"head", "bad"}
  BY DEF HandleHead, HandleBad, HandleJson, RetrieveMissing, RetrievePending, Asked
<1>2. PICK c \in Conns :
        /\ thread[t] = c /\ read[c] \in Nat
        /\ Current(c) \in Request /\ Current(c).kind = kind
        /\ UNCHANGED <<clientVars, read>> => Current(c)' = Current(c)
  BY <1>1, HandlingFacts
<1>3. PICK a \in Response :
        /\ Sent(t, c, a) /\ a.to = read[c] /\ a.code = code /\ a.close = Current(c).close
        /\ a.id = (Current(c).id /\ kind \in {"json", "retrieve"})
  <2>1. PICK x \in BOOLEAN, y \in BOOLEAN : x = Current(c).close /\ y = Current(c).id
    BY <1>2 DEF Request
  <2>2. CASE Reply(t, code, None) /\ kind \in {"json", "retrieve"}
    <3>1. Send(t, code, None, x, y)
      BY <1>2, <2>1, <2>2 DEF Reply
    <3> QED
      BY <1>2, <2>1, <2>2, <3>1, SendSends
  <2>3. CASE ReplyWithoutId(t, code) /\ kind \in {"head", "bad"}
    <3>1. PICK no \in BOOLEAN : no = FALSE
      OBVIOUS
    <3>2. Send(t, code, None, x, no)
      BY <1>2, <2>1, <2>3, <3>1 DEF ReplyWithoutId
    <3>3. PICK a \in Response :
            /\ Sent(t, c, a) /\ a.to = read[c] /\ a.code = code
            /\ a.close = x /\ a.id = no
      BY <1>1, <1>2, <2>1, <3>1, <3>2, SendSends
    <3> QED
      BY <2>1, <2>3, <3>1, <3>3
  <2> QED
    BY <1>1, <2>2, <2>3
<1>4. Current(c)' = Current(c) /\ read'[c] = read[c]
  BY <1>2, <1>3 DEF Sent
<1>5. Fit(Current(c), read[c], a)'
  <2>1. PICK q \in Request : q = Current(c)
    BY <1>2
  <2>2. Headers(q, a) /\ a.code # 302
    BY <1>1, <1>2, <1>3, <2>1 DEF Headers
  <2> QED
    BY <1>3, <1>4, <2>1, <2>2, PlainFits
<1> QED
  BY <1>1, <1>2, <1>3, <1>5, StoreAlone, SentKeeps

LEMMA LaunchKeeps ==
  ASSUME Inv, NEW t \in IoThreads, Launch(t) \/ LaunchRefused(t) PROVE Inv'
<1>1. PICK c \in Conns :
        /\ thread[t] = c /\ read[c] \in Nat
        /\ Current(c) \in Request /\ Current(c).kind = "launch" /\ Current(c).arg \in Tasks
        /\ UNCHANGED <<clientVars, read>> => Current(c)' = Current(c)
  BY HandlingFacts DEF Launch, LaunchRefused
<1>2. CASE Launch(t)
  <2>1. PICK i \in Keys : /\ Store!Accept(Current(c).arg, i)
                           /\ ReplyMoved(t, 200, Told(i)) /\ taken' = taken
    BY <1>1, <1>2 DEF Launch
  <2>2. PICK no \in BOOLEAN, b \in Nat : no = FALSE /\ b = Told(i) /\ Send(t, 200, b, no, no)
    BY <2>1, KeysAssumption, ToldKeys DEF ReplyMoved
  <2>3. PICK a \in Response :
          /\ Sent(t, c, a) /\ a.to = read[c] /\ a.code = 200 /\ a.body = b
          /\ a.close = no /\ a.id = no
    BY <1>1, <2>2, SendSends
  <2>4. /\ status[Current(c).arg] = "new"
        /\ status' = [status EXCEPT ![Current(c).arg] = "pending"]
        /\ ticket' = [ticket EXCEPT ![Current(c).arg] = i]
    BY <2>1 DEF Store!Accept, Store!Become
  <2>5. Steady /\ StoreType'
    BY <1>1, <2>1, <2>4, KeysAssumption DEF Inv, StoreType, Statuses, Steady
  <2>6. status'[Current(c).arg] = "pending" /\ ticket'[Current(c).arg] = i /\ i \in Nat
    BY <1>1, <2>4, KeysAssumption DEF Inv, StoreType
  <2>7. Current(c)' = Current(c) /\ read'[c] = read[c]
    BY <1>1, <2>3 DEF Sent
  <2>8. Fit(Current(c), read[c], a)'
    <3>1. a.close = (Current(c).close /\ Current(c).kind # "launch")
      BY <1>1, <2>2, <2>3
    <3> QED
      BY <1>1, <2>2, <2>3, <2>6, <2>7, <3>1 DEF Fit
  <2> QED
    BY <1>1, <2>3, <2>5, <2>8, SentKeeps
<1>3. CASE LaunchRefused(t)
  <2>1. Store!Refuse(Current(c).arg) /\ ReplyMoved(t, 500, None) /\ taken' = taken
    BY <1>1, <1>3 DEF LaunchRefused
  <2>2. PICK no \in BOOLEAN : no = FALSE /\ Send(t, 500, None, no, no)
    BY <2>1 DEF ReplyMoved
  <2>3. PICK a \in Response :
          /\ Sent(t, c, a) /\ a.to = read[c] /\ a.code = 500
          /\ a.close = no /\ a.id = no
    BY <1>1, <2>2, SendSends
  <2>4. /\ status[Current(c).arg] = "new"
        /\ status' = [status EXCEPT ![Current(c).arg] = "refused"]
        /\ ticket' = ticket
    BY <2>1 DEF Store!Refuse, Store!Become
  <2>5. Steady /\ StoreType'
    BY <1>1, <2>1, <2>4 DEF Inv, StoreType, Statuses, Steady
  <2>6. Current(c)' = Current(c) /\ read'[c] = read[c]
    BY <1>1, <2>3 DEF Sent
  <2>7. Fit(Current(c), read[c], a)'
    <3>1. PICK q \in Request : q = Current(c)
      BY <1>1
    <3>2. Headers(q, a) /\ a.code # 302
      BY <1>1, <2>2, <2>3, <3>1 DEF Headers
    <3> QED
      BY <2>3, <2>6, <3>1, <3>2, PlainFits
  <2> QED
    BY <1>1, <2>3, <2>5, <2>7, SentKeeps
<1> QED
  BY <1>2, <1>3

\* Handing out a result, or an exception, leaves the keys alone.
LEMMA HandOutSteady ==
  ASSUME Inv, NEW k \in Tasks, Store!HandOut(k) \/ Store!Complete(k),
         taken' = taken \/ \E c \in Conns : taken' = [taken EXCEPT ![k] = c]
  PROVE  /\ Steady /\ StoreType' /\ ticket' = ticket
         /\ status[k] # "new" /\ status'[k] # "new"
<1>1. /\ ticket' = ticket /\ status[k] # "new"
      /\ \E s \in Statuses \ {"new"} : status' = [status EXCEPT ![k] = s]
  BY DEF Store!HandOut, Store!Complete, Store!Become, Statuses
<1> QED
  BY <1>1 DEF Inv, StoreType, Steady, Statuses

LEMMA RetrieveReadyKeeps ==
  ASSUME Inv, NEW t \in IoThreads, NEW k \in Tasks, RetrieveReady(t, k) PROVE Inv'
<1>1. /\ Handling(t, "retrieve") /\ ticket[k] = Current(thread[t]).arg
      /\ Store!HandOut(k) /\ Reply(t, 302, k)
      /\ taken' = [taken EXCEPT ![k] = thread[t]]
  BY DEF RetrieveReady, Take, Asked
<1>2. PICK c \in Conns :
        /\ thread[t] = c /\ read[c] \in Nat
        /\ Current(c) \in Request /\ Current(c).kind = "retrieve"
        /\ UNCHANGED <<clientVars, read>> => Current(c)' = Current(c)
  BY <1>1, HandlingFacts
<1>3. Steady /\ StoreType' /\ ticket' = ticket /\ status'[k] # "new"
  BY <1>1, <1>2, HandOutSteady
<1>4. PICK x \in BOOLEAN, y \in BOOLEAN : x = Current(c).close /\ y = Current(c).id
  BY <1>2 DEF Request
<1>5. PICK a \in Response :
        /\ Sent(t, c, a) /\ a.to = read[c] /\ a.code = 302 /\ a.body = k
        /\ a.close = x /\ a.id = y
  <2>1. Send(t, 302, k, x, y)
    BY <1>1, <1>2, <1>4 DEF Reply
  <2> QED
    BY <1>2, <2>1, SendSends
<1>6. Current(c)' = Current(c) /\ read'[c] = read[c]
  BY <1>2, <1>5 DEF Sent
<1>7. Fit(Current(c), read[c], a)'
  BY <1>1, <1>2, <1>3, <1>4, <1>5, <1>6 DEF Fit
<1> QED
  BY <1>2, <1>3, <1>5, <1>7, SentKeeps

\* The store moves, and no session does.
LEMMA StoreMoves ==
  ASSUME Inv, UNCHANGED <<clientVars, sessionVars, thread>>, Steady, StoreType'
  PROVE  Inv'
<1>1. TypeOK'
  BY DEF Inv, TypeOK, clientVars, sessionVars
<1>2. \A d \in Conns : Same(d)
  BY DEF Same, sessionVars
<1>3. \A d \in Conns : Onward(d)
  BY ClientAlone
<1> QED
  BY <1>1, <1>2, <1>3, NoneMoves

LEMMA StepInv == Inv /\ [Next]_vars => Inv'
<1> SUFFICES ASSUME Inv, [Next]_vars PROVE Inv'
  OBVIOUS
<1>1. ASSUME NEW c \in Conns, Connect(c) \/ HangUp(c) \/ \E r \in Requests : Submit(c, r)
      PROVE  Inv'
  BY <1>1, ClientKeeps
<1>2. ASSUME NEW c \in Conns, ReadDone(c) \/ ReadFails(c) \/ WriteDone(c) \/ WriteFails(c)
      PROVE  Inv'
  BY <1>2, ReadDoneKeeps, ReadFailsKeeps, WriteDoneKeeps, WriteFailsKeeps
<1>3. ASSUME NEW t \in IoThreads, NEW c \in Conns, Accept(t, c) \/ Handler(t, c)
      PROVE  Inv'
  BY <1>3, AcceptKeeps, OnReadFailedKeeps, OnReadKeeps, OnWriteLastKeeps, OnWriteKeeps
     DEF Handler
<1>4. ASSUME NEW t \in IoThreads, Answer(t) PROVE Inv'
  <2>1. ASSUME NEW k \in Tasks, RetrieveThrows(t, k) PROVE Inv'
    BY <2>1, HandOutSteady, StoreMoves DEF RetrieveThrows
  <2> QED
    BY <1>4, <2>1, PlainKeeps, LaunchKeeps, RetrieveReadyKeeps DEF Answer
<1>5. ASSUME NEW t \in IoThreads, JsonThrows(t) PROVE Inv'
  <2>1. Steady /\ StoreType'
    BY <1>5 DEF JsonThrows, Store!Crash, Inv, StoreType, Steady
  <2> QED
    BY <1>5, <2>1, StoreMoves DEF JsonThrows
<1>6. ASSUME NEW k \in Tasks, TaskCompletes(k) PROVE Inv'
  BY <1>6, HandOutSteady, StoreMoves DEF TaskCompletes
<1>7. CASE UNCHANGED vars
  <2>1. Steady /\ StoreType'
    BY <1>7, StoreAlone DEF vars
  <2> QED
    BY <1>7, <2>1, StoreMoves DEF vars
<1> QED
  BY <1>1, <1>2, <1>3, <1>4, <1>5, <1>6, <1>7 DEF Next

LEMMA InvHolds == Spec => []Inv
BY InitInv, StepInv, PTL DEF Spec

-----------------------------------------------------------------------------
\* Connections, operations, handlers, threads and responses keep their types.
THEOREM TypeCorrect == Spec => []TypeOK
<1>1. Inv => TypeOK
  BY DEF Inv
<1> QED
  BY <1>1, InvHolds, PTL

\* However many io threads there are and however clients pipeline and hang up,
\* an open session has one operation in progress, or one handler that waits,
\* or one thread in on_read(), and a session that is not open has none.
THEOREM SessionsDoOneThing == Spec => []OneThing
<1>1. Inv => OneThing
  <2> SUFFICES ASSUME Inv, NEW c \in Conns
               PROVE  Cardinality(ops[c]) + Len(strand[c])
                        + Cardinality({t \in IoThreads : thread[t] = c})
                        = (IF session[c] = "open" THEN 1 ELSE 0)
    BY DEF OneThing
  <2> DEFINE T == {t \in IoThreads : thread[t] = c}
  <2>1. Cardinality({}) = 0 /\ \A x : Cardinality({x}) = 1
    BY FS_EmptySet, FS_Singleton
  <2>2. Alone(c) => T = {}
    BY DEF Alone
  <2>3. CASE Fresh(c) \/ Over(c)
    <3>1. ops[c] = {} /\ Len(strand[c]) = 0 /\ T = {} /\ session[c] # "open"
      BY <2>2, <2>3 DEF Fresh, Over
    <3> HIDE DEF T
    <3> QED
      BY <2>1, <3>1 DEF T
  <2>4. CASE Reading(c) \/ Writing(c)
    <3>1. PICK op : ops[c] = {op}
      BY <2>4 DEF Reading, Writing
    <3>2. Len(strand[c]) = 0 /\ T = {} /\ session[c] = "open"
      BY <2>2, <2>4 DEF Reading, Writing
    <3>3. Cardinality(ops[c]) = 1
      BY <2>1, <3>1
    <3>4. Cardinality(T) = 0
      BY <2>1, <3>2
    <3> QED
      BY <3>2, <3>3, <3>4
  <2>5. CASE HasRead(c) \/ ReadFailed(c) \/ HasWritten(c) \/ WriteFailed(c)
    <3>1. ops[c] = {} /\ Len(strand[c]) = 1 /\ T = {} /\ session[c] = "open"
      BY <2>2, <2>5 DEF HasRead, ReadFailed, HasWritten, WriteFailed
    <3>2. Cardinality(ops[c]) = 0 /\ Cardinality(T) = 0
      BY <2>1, <3>1
    <3> QED
      BY <3>1, <3>2
  <2>6. CASE InHandler(c)
    <3>1. PICK t0 \in IoThreads : \A u \in IoThreads : thread[u] = c <=> u = t0
      BY <2>6 DEF InHandler
    <3>2. T = {t0} /\ ops[c] = {} /\ Len(strand[c]) = 0 /\ session[c] = "open"
      BY <2>6, <3>1 DEF InHandler
    <3>3. Cardinality(T) = 1 /\ Cardinality(ops[c]) = 0
      BY <2>1, <3>2
    <3> QED
      BY <3>2, <3>3
  <2> QED
    BY <2>3, <2>4, <2>5, <2>6 DEF Inv, Phase
<1> QED
  BY <1>1, InvHolds, PTL

\* The nth answer of a connection is to its nth request and fits it, while
\* requests of other connections run on other threads and results of
\* asynchronous requests come and go; and the answer to a launch names the key
\* of its task if that is below 16, and another key if it is not, as
\* hex_encode_id() has it.
THEOREM AnswersFit == Spec => []AnswersFitRequests
<1>1. Inv => AnswersFitRequests
  <2> SUFFICES ASSUME Inv, NEW c \in Conns, NEW n \in DOMAIN got[c]
               PROVE  LET q == sent[c][n]  a == got[c][n] IN
                        /\ a.to = n
                        /\ a.close = (q.close /\ q.kind # "launch")
                        /\ a.id => q.id
                        /\ (q.id /\ ~a.id) => q.kind \in {"head", "bad", "launch"}
                        /\ a.code = 302 =>
                             q.kind = "retrieve" /\ a.body \in Tasks /\ ticket[a.body] = q.arg
                        /\ (q.kind = "launch" /\ a.code = 200) =>
                             a.body \in Nat /\ (a.body = ticket[q.arg] <=> ticket[q.arg] < 16)
    BY DEF AnswersFitRequests
  <2>1. Fit(sent[c][n], n, got[c][n])
    BY DEF Inv, GotFits
  <2> QED
    BY <2>1, ToldKeys DEF Fit
<1> QED
  BY <1>1, InvHolds, PTL

\* A connection ends because its client hung up, asked for it or sent no HTTP,
\* and nothing is read after a request that closes it.
THEOREM ClosesHaveReason == Spec => []ClosedForAReason
<1>1. Inv => ClosedForAReason
  <2> SUFFICES ASSUME Inv, NEW c \in Conns
               PROVE  /\ session[c] = "over" =>
                           \/ up[c] = "gone"
                           \/ Current(c).kind = "garbled"
                           \/ Current(c).close /\ Current(c).kind # "launch"
                      /\ StaysOpen(c, read[c] - 1)
    BY DEF ClosedForAReason, StaysOpen
  <2>1. read[c] \in Nat
    BY DEF Inv, TypeOK
  <2>2. session[c] = "over" => Over(c)
    BY DEF Inv, Phase, Fresh, Reading, HasRead, ReadFailed, InHandler, Writing, HasWritten,
           WriteFailed
  <2>3. StaysOpen(c, read[c] - 1)
    <3>1. CASE Fresh(c) \/ Reading(c)
      BY <2>1, <3>1 DEF Fresh, Reading, StaysOpen
    <3> QED
      BY <3>1 DEF Inv, Phase, HasRead, ReadFailed, InHandler, Writing, HasWritten, WriteFailed, Over
  <2> QED
    BY <2>2, <2>3 DEF Over
<1> QED
  BY <1>1, InvHolds, PTL

-----------------------------------------------------------------------------
(* Where the result of a task is *)

\* Place 0 of a connection is the response that its session is about to write,
\* place n the nth that its client received.
Places == Conns \X Nat
At(p, k) ==
  LET c == p[1]  n == p[2] IN
    \/ n = 0 /\ res[c] # None /\ res[c].body = k /\ res[c].to \notin DOMAIN got[c]
    \/ n \in DOMAIN got[c] /\ got[c][n].body = k

\* A result is at one place at most, on the connection that took it from the
\* store; and at one unless the client of that connection has hung up.
Once(k) ==
  /\ \A p, q \in Places : At(p, k) /\ At(q, k) => p = q
  /\ \A p \in Places : At(p, k) => status[k] = "delivered" /\ p[1] = taken[k]
  /\ status[k] = "delivered" =>
       taken[k] \in Conns /\ ((\E p \in Places : At(p, k)) \/ up[taken[k]] = "gone")

\* A session that reads, or works on a request, has no response left to write.
Clear(c) ==
  \/ session[c] = "none" \/ "read" \in ops[c]
  \/ strand[c] # <<>> /\ Head(strand[c]).op = "read"
  \/ \E t \in IoThreads : thread[t] = c
  => res[c] = None

Delivery ==
  /\ \A k \in Tasks : Once(k)
  /\ \A c \in Conns : Clear(c) /\ Len(sent[c]) <= MaxRequests

\* What neither sends, receives nor hands out a result leaves it where it is.
LEMMA OnceKept ==
  ASSUME NEW k \in Tasks, Once(k),
         \A p \in Places : At(p, k)' <=> At(p, k),
         status'[k] = "delivered" <=> status[k] = "delivered", taken'[k] = taken[k],
         \A c \in Conns : up[c] = "gone" => up'[c] = "gone"
  PROVE  Once(k)'
BY DEF Once, Places

LEMMA StaysWhere ==
  ASSUME UNCHANGED <<res, got>>, NEW k, NEW p PROVE At(p, k)' <=> At(p, k)
BY DEF At

\* Only the first word of the strand and the threads of c matter.
LEMMA ClearKept ==
  ASSUME NEW c, Clear(c), res'[c] = res[c],
         session'[c] = session[c] \/ session'[c] # "none",
         "read" \in ops'[c] => "read" \in ops[c],
         strand'[c] = strand[c] \/ strand'[c] = <<>>,
         \A t \in IoThreads : thread'[t] = c => thread[t] = c
  PROVE  Clear(c)'
BY DEF Clear

\* What leaves responses and results alone, and starts no reading.
LEMMA ResponsesKept ==
  ASSUME Inv, Delivery, UNCHANGED <<res, got, taken>>,
         \A k \in Tasks : status'[k] = "delivered" <=> status[k] = "delivered",
         \A c \in Conns : /\ up[c] = "gone" => up'[c] = "gone"
                          /\ Len(sent'[c]) <= MaxRequests
                          /\ Same(c) \/ res[c] = None \/ Clear(c)'
  PROVE  Delivery'
<1>1. ASSUME NEW k \in Tasks PROVE Once(k)'
  BY StaysWhere, OnceKept DEF Delivery
<1>2. ASSUME NEW c \in Conns PROVE Clear(c)'
  <2>1. Clear(c)
    BY DEF Delivery
  <2>2. CASE Same(c)
    BY <2>1, <2>2, ClearKept DEF Same
  <2>3. CASE res[c] = None
    BY <2>3 DEF Clear
  <2> QED
    BY <2>2, <2>3
<1> QED
  BY <1>1, <1>2 DEF Delivery

LEMMA SentLimit ==
  ASSUME Delivery, UNCHANGED sent PROVE \A c \in Conns : Len(sent'[c]) <= MaxRequests
BY DEF Delivery

LEMMA ClientDelivers ==
  ASSUME Inv, Delivery, NEW c \in Conns,
         Connect(c) \/ HangUp(c) \/ \E r \in Requests : Submit(c, r)
  PROVE  Delivery'
<1>1. UNCHANGED <<sessionVars, thread, storeVars>>
  BY DEF Connect, HangUp, Submit
<1>2. \A d \in Conns : Same(d)
  BY <1>1 DEF Same, sessionVars
<1>3. \A d \in Conns : up[d] = "gone" => up'[d] = "gone"
  BY DEF Inv, TypeOK, Connect, HangUp, Submit
<1>4. \A d \in Conns : Len(sent'[d]) <= MaxRequests
  <2>1. CASE Connect(c) \/ HangUp(c)
    BY <2>1, SentLimit DEF Connect, HangUp
  <2>2. ASSUME NEW r \in Requests, Submit(c, r) PROVE \A d \in Conns : Len(sent'[d]) <= MaxRequests
    <3>1. /\ sent \in [Conns -> Seq(Requests)] /\ Len(sent[c]) < MaxRequests
          /\ sent' = [sent EXCEPT ![c] = Append(@, r)]
      BY <2>2 DEF Inv, TypeOK, Submit
    <3>2. Len(sent'[c]) = Len(sent[c]) + 1 /\ Len(sent[c]) \in Nat
      BY <3>1
    <3>3. \A d \in Conns : d # c => sent'[d] = sent[d]
      BY <3>1
    <3> QED
      BY <3>1, <3>2, <3>3, MaxRequestsAssumption DEF Delivery
  <2> QED
    BY <2>1, <2>2
<1> QED
  BY <1>1, <1>2, <1>3, <1>4, ResponsesKept DEF sessionVars, storeVars

\* The steps of a session that leave its response where it is.
LEMMA SessionDelivers ==
  ASSUME Inv, Delivery, NEW c \in Conns,
         \/ ReadDone(c) \/ ReadFails(c) \/ WriteFails(c)
         \/ \E t \in IoThreads : \/ Accept(t, c) \/ OnReadFailed(t, c) \/ OnRead(t, c)
                                \/ OnWriteLast(t, c)
  PROVE  Delivery'
<1> USE DEF Inv, TypeOK
<1>1. UNCHANGED <<clientVars, res, got, storeVars>>
  BY RunFacts DEF ReadDone, ReadFails, WriteFails, Accept, OnReadFailed, OnRead, OnWriteLast
<1>2. Clear(c)
  BY DEF Delivery
<1>3. res[c] = None \/ Clear(c)'
  <2>1. CASE ReadDone(c) \/ ReadFails(c)
    BY <1>2, <2>1 DEF ReadDone, ReadFails, Complete, Clear
  <2>2. CASE WriteFails(c)
    <3>1. Writing(c) /\ ops'[c] = {} /\ Head(strand'[c]).op = "write"
          /\ UNCHANGED <<session, thread>>
      BY <2>2, PhaseOf DEF WriteFails, Complete, Writing
    <3> QED
      BY <3>1 DEF Writing, Alone, Clear
  <2>3. ASSUME NEW t \in IoThreads, Accept(t, c) PROVE res[c] = None
    BY <1>2, <2>3 DEF Accept, Clear
  <2>4. ASSUME NEW t \in IoThreads, OnReadFailed(t, c) \/ OnRead(t, c) PROVE res[c] = None
    BY <1>2, <2>4, RunFacts DEF OnReadFailed, OnRead, Clear
  <2>5. ASSUME NEW t \in IoThreads, OnWriteLast(t, c) PROVE Clear(c)'
    <3>1. /\ UNCHANGED <<ops, thread>> /\ session'[c] = "over"
          /\ strand' = [strand EXCEPT ![c] = Tail(@)]
      BY <2>5, RunFacts DEF OnWriteLast, End
    <3>2. \E h : strand[c] = <<h>>
      BY <2>5, RunFacts, PhaseOf DEF OnWriteLast, HasWritten, WriteFailed
    <3>3. strand'[c] = <<>>
      BY <3>1, <3>2
    <3> QED
      BY <1>1, <1>2, <3>1, <3>3, ClearKept
  <2> QED
    BY <2>1, <2>2, <2>3, <2>4, <2>5
<1>4. \A d \in Conns : d # c => Same(d)
  <2>1. CASE ReadDone(c) \/ ReadFails(c) \/ WriteFails(c)
    BY <2>1 DEF ReadDone, ReadFails, WriteFails, Complete, Same
  <2>2. ASSUME NEW t \in IoThreads, Accept(t, c) PROVE \A d \in Conns : d # c => Same(d)
    BY <2>2 DEF Accept, Same
  <2>3. ASSUME NEW t \in IoThreads, OnReadFailed(t, c) \/ OnWriteLast(t, c)
        PROVE  \A d \in Conns : d # c => Same(d)
    BY <2>3, RunFacts DEF OnReadFailed, OnWriteLast, End, Same
  <2>4. ASSUME NEW t \in IoThreads, OnRead(t, c) PROVE \A d \in Conns : d # c => Same(d)
    BY <2>4, RunFacts DEF OnRead, Same
  <2> QED
    BY <2>1, <2>2, <2>3, <2>4
<1>5. \A d \in Conns : Same(d) \/ res[d] = None \/ Clear(d)'
  BY <1>3, <1>4
<1> QED
  BY <1>1, <1>5, SentLimit, ResponsesKept DEF clientVars, storeVars

LEMMA NoResponse == \A a \in Response : a # None
BY BodyAssumption

\* A response that is written goes from its session to its client.
LEMMA OnceMoved ==
  ASSUME NEW k \in Tasks, Once(k), NEW p0 \in Places, NEW p1 \in Places, p0[1] = p1[1],
         \A p \in Places : At(p, k)' <=> (p = p1 /\ At(p0, k)) \/ (p # p0 /\ At(p, k)),
         status'[k] = status[k], UNCHANGED <<up, taken>>
  PROVE  Once(k)'
BY DEF Once, Places

LEMMA OnceLost ==
  ASSUME NEW k \in Tasks, Once(k),
         \A p \in Places : At(p, k)' => At(p, k),
         \/ \A p \in Places : At(p, k) => At(p, k)'
         \/ up[taken[k]] = "gone",
         status'[k] = status[k], UNCHANGED <<up, taken>>
  PROVE  Once(k)'
BY DEF Once, Places

LEMMA WriteDoneDelivers ==
  ASSUME Inv, Delivery, NEW c \in Conns, WriteDone(c) PROVE Delivery'
<1>1. /\ "write" \in ops[c] /\ UNCHANGED <<clientVars, read, session, res, thread, storeVars>>
      /\ ops' = [ops EXCEPT ![c] = @ \ {"write"}]
      /\ strand' = [strand EXCEPT ![c] = Append(@, [op |-> "write", ok |-> TRUE])]
      /\ got' = IF up[c] = "yes" THEN [got EXCEPT ![c] = Append(@, res[c])] ELSE got
  BY DEF WriteDone, Complete
<1>2. Writing(c)
  BY <1>1, PhaseOf
<1>3. Clear(c)'
  <2>1. /\ ops[c] = {"write"} /\ strand[c] = <<>> /\ session[c] = "open"
        /\ \A t \in IoThreads : thread[t] # c
    BY <1>2 DEF Writing, Alone
  <2>2. ops'[c] = {} /\ strand'[c] = Append(<<>>, [op |-> "write", ok |-> TRUE])
    BY <1>1, <2>1 DEF Inv, TypeOK
  <2>3. Head(strand'[c]).op = "write"
    BY <2>2
  <2> QED
    BY <1>1, <2>1, <2>2, <2>3 DEF Clear
<1>4. \A d \in Conns : Clear(d)'
  <2>1. ASSUME NEW d \in Conns, d # c PROVE Clear(d)'
    <3>1. Clear(d) /\ res'[d] = res[d] /\ session'[d] = session[d] /\ ops'[d] = ops[d]
          /\ strand'[d] = strand[d] /\ thread' = thread
      BY <1>1, <2>1 DEF Inv, TypeOK, Delivery
    <3> QED
      BY <3>1, ClearKept
  <2> QED
    BY <1>3, <2>1
<1>5. ASSUME NEW k \in Tasks PROVE Once(k)'
  <2>1. CASE up[c] # "yes"
    BY <1>1, <2>1, StaysWhere, OnceKept DEF Delivery, storeVars, clientVars
  <2>2. CASE up[c] = "yes"
    <3>1. /\ Len(got[c]) = read[c] - 1 /\ got[c] \in Seq(Response) /\ read[c] \in Nat
          /\ read[c] >= 1 /\ res[c] \in Response /\ res[c].to = read[c] /\ res[c] # None
      <4>1. res[c] # None
        BY <1>2, NoResponse DEF Writing
      <4> QED
        BY <1>2, <2>2, <4>1 DEF Writing, Answered, Fit, Inv, TypeOK
    <3> PICK n \in Nat : n = read[c]
      BY <3>1
    <3>2. /\ got'[c] = Append(got[c], res[c]) /\ res' = res
          /\ \A d \in Conns : d # c => got'[d] = got[d]
      BY <1>1, <2>2 DEF Inv, TypeOK
    <3>3. /\ DOMAIN got[c] = 1 .. n - 1 /\ DOMAIN got'[c] = 1 .. n /\ got'[c][n] = res[c]
          /\ \A j \in 1 .. n - 1 : got'[c][j] = got[c][j]
      BY <3>1, <3>2
    <3>4. <<c, 0>> \in Places /\ <<c, n>> \in Places
      BY <3>1 DEF Places
    <3>5. At(<<c, 0>>, k) <=> res[c].body = k
      BY <3>1, <3>3 DEF At
    <3>6. ~At(<<c, 0>>, k)'
      BY <3>1, <3>2, <3>3 DEF At
    <3>7. At(<<c, n>>, k)' <=> res[c].body = k
      BY <3>1, <3>3 DEF At
    <3>8. ~At(<<c, n>>, k)
      BY <3>1, <3>3 DEF At
    <3>9. ASSUME NEW d \in Conns, NEW j \in Nat, d # c \/ (j # 0 /\ j # n)
          PROVE  At(<<d, j>>, k)' <=> At(<<d, j>>, k)
      <4>1. CASE d # c
        BY <3>2, <4>1 DEF At
      <4>2. CASE d = c /\ j # 0 /\ j # n
        BY <3>1, <3>3, <4>2 DEF At
      <4> QED
        BY <3>9, <4>1, <4>2
    <3>10. ASSUME NEW p \in Places
           PROVE  At(p, k)' <=> \/ p = <<c, n>> /\ At(<<c, 0>>, k)
                                \/ p # <<c, 0>> /\ At(p, k)
      <4>1. PICK d \in Conns, j \in Nat : p = <<d, j>>
        BY DEF Places
      <4>2. CASE d = c /\ j = 0
        BY <3>1, <3>6, <4>1, <4>2
      <4>3. CASE d = c /\ j = n
        BY <3>1, <3>5, <3>7, <3>8, <4>1, <4>3
      <4>4. CASE d # c \/ (j # 0 /\ j # n)
        BY <3>9, <4>1, <4>4
      <4> QED
        BY <4>2, <4>3, <4>4
    <3>11. status'[k] = status[k] /\ UNCHANGED <<up, taken>>
      BY <1>1 DEF storeVars, clientVars
    <3>12. Once(k)
      BY DEF Delivery
    <3> QED
      BY <3>4, <3>10, <3>11, <3>12, OnceMoved
  <2> QED
    BY <2>1, <2>2
<1> QED
  BY <1>1, <1>4, <1>5, SentLimit DEF Delivery, clientVars

LEMMA OnWriteDelivers ==
  ASSUME Inv, Delivery, NEW t \in IoThreads, NEW c \in Conns, OnWrite(t, c)
  PROVE  Delivery'
<1>1. HasWritten(c)
  BY RunFacts, PhaseOf DEF OnWrite
<1>2. /\ UNCHANGED <<clientVars, read, got, storeVars, session, thread>>
      /\ strand' = [strand EXCEPT ![c] = Tail(@)]
      /\ res' = [res EXCEPT ![c] = None]
      /\ ops' = [ops EXCEPT ![c] = @ \cup {"read"}]
  BY RunFacts DEF OnWrite
<1>3. res'[c] = None /\ \A d \in Conns : d # c => res'[d] = res[d]
  BY <1>2 DEF Inv, TypeOK
<1>4. ASSUME NEW d \in Conns PROVE Clear(d)'
  <2>1. CASE d = c
    BY <1>3, <2>1 DEF Clear
  <2>2. CASE d # c
    <3>1. Clear(d) /\ res'[d] = res[d] /\ session'[d] = session[d] /\ ops'[d] = ops[d]
          /\ strand'[d] = strand[d] /\ thread' = thread
      BY <1>2, <2>2 DEF Inv, TypeOK, Delivery
    <3> QED
      BY <3>1, ClearKept
  <2> QED
    BY <2>1, <2>2
<1>5. ASSUME NEW k \in Tasks PROVE Once(k)'
  <2>1. ASSUME NEW p \in Places PROVE At(p, k)' <=> p # <<c, 0>> /\ At(p, k)
    <3>1. PICK d \in Conns, n \in Nat : p = <<d, n>>
      BY DEF Places
    <3>2. n = 0 => n \notin DOMAIN got[d]
      BY DEF Inv, TypeOK
    <3>3. CASE d = c
      BY <1>2, <1>3, <3>1, <3>2, <3>3 DEF At
    <3>4. CASE d # c
      BY <1>2, <1>3, <3>1, <3>4 DEF At
    <3> QED
      BY <3>3, <3>4
  <2>2. At(<<c, 0>>, k) => up[c] = "gone"
    <3>1. /\ res[c].to = read[c] /\ read[c] >= 1 /\ read[c] \in Nat /\ got[c] \in Seq(Response)
          /\ up[c] # "gone" => Len(got[c]) = read[c]
      BY <1>1 DEF HasWritten, Fit, Answered, Inv, TypeOK
    <3> QED
      BY <3>1 DEF At
  <2>3. \/ \A p \in Places : At(p, k) => At(p, k)'
        \/ up[taken[k]] = "gone"
    <3>1. <<c, 0>> \in Places /\ (At(<<c, 0>>, k) => taken[k] = c)
      BY DEF Places, Delivery, Once
    <3> QED
      BY <2>1, <2>2, <3>1
  <2>4. Once(k) /\ status'[k] = status[k] /\ UNCHANGED <<up, taken>>
    BY <1>2 DEF Delivery, clientVars, storeVars
  <2> QED
    BY <2>1, <2>3, <2>4, OnceLost
<1> QED
  BY <1>2, <1>4, <1>5, SentLimit DEF Delivery, clientVars

\* What on_read() sends.  Its session had nothing else to write.
LEMMA SentDelivers ==
  ASSUME Inv, Delivery, NEW t \in IoThreads, NEW c \in Conns, thread[t] = c,
         NEW a \in Response, Sent(t, c, a), a.to = read[c],
         \A k \in Tasks :
           IF a.body = k
           THEN status[k] # "delivered" /\ status'[k] = "delivered" /\ taken'[k] = c
           ELSE (status'[k] = "delivered" <=> status[k] = "delivered") /\ taken'[k] = taken[k]
  PROVE  Delivery'
<1>1. InHandler(c)
  BY PhaseOf
<1>2. /\ UNCHANGED <<clientVars, read, session, strand, got>>
      /\ res' = [res EXCEPT ![c] = a]
      /\ ops' = [ops EXCEPT ![c] = @ \cup {"write"}]
      /\ thread' = [thread EXCEPT ![t] = None]
  BY DEF Sent
<1>3. /\ res[c] = None /\ res'[c] = a /\ a # None
      /\ \A d \in Conns : d # c => res'[d] = res[d] /\ ops'[d] = ops[d]
  <2>1. res[c] = None
    BY DEF Delivery, Clear
  <2> QED
    BY <1>2, <2>1, NoResponse DEF Inv, TypeOK
<1>4. Clear(c)'
  <2>1. PICK t0 \in IoThreads : \A u \in IoThreads : thread[u] = c <=> u = t0
    BY <1>1 DEF InHandler
  <2>2. \A u \in IoThreads : thread'[u] # c
    BY <1>2, <2>1 DEF Inv, TypeOK
  <2>3. ops'[c] = {"write"} /\ strand'[c] = <<>> /\ session'[c] = "open"
    BY <1>1, <1>2 DEF InHandler, Inv, TypeOK
  <2> QED
    BY <2>2, <2>3 DEF Clear
<1>5. ASSUME NEW d \in Conns, d # c PROVE Clear(d)'
  <2>1. Clear(d) /\ res'[d] = res[d] /\ session'[d] = session[d] /\ ops'[d] = ops[d]
        /\ strand'[d] = strand[d]
    BY <1>2, <1>3, <1>5 DEF Delivery
  <2>2. \A u \in IoThreads : thread'[u] = d => thread[u] = d
    BY <1>2 DEF Inv, TypeOK
  <2> QED
    BY <2>1, <2>2, ClearKept
<1>6. ASSUME NEW p \in Places, NEW k \in Tasks
      PROVE  /\ p # <<c, 0>> => (At(p, k)' <=> At(p, k))
             /\ p = <<c, 0>> => /\ ~At(p, k)
                                /\ At(p, k)' <=> (a.body = k /\ read[c] \notin DOMAIN got[c])
  <2>1. PICK d \in Conns, n \in Nat : p = <<d, n>>
    BY DEF Places
  <2>2. 0 \notin DOMAIN got[d]
    BY DEF Inv, TypeOK
  <2>3. CASE d = c
    BY <1>2, <1>3, <2>1, <2>2, <2>3 DEF At
  <2>4. CASE d # c
    BY <1>2, <1>3, <2>1, <2>4 DEF At
  <2> QED
    BY <2>3, <2>4
<1>7. ASSUME NEW k \in Tasks PROVE Once(k)'
  <2>1. Once(k)
    BY DEF Delivery
  <2>2. CASE a.body # k
    BY <1>2, <1>6, <2>1, <2>2, OnceKept DEF clientVars
  <2>3. CASE a.body = k
    <3>1. status[k] # "delivered" /\ status'[k] = "delivered" /\ taken'[k] = c
      BY <2>3
    <3>2. \A p \in Places : ~At(p, k)
      BY <2>1, <3>1 DEF Once
    <3>3. <<c, 0>> \in Places /\ \A p \in Places : At(p, k)' => p = <<c, 0>>
      BY <1>6, <3>2 DEF Places
    <3>4. up[c] # "gone" => read[c] \notin DOMAIN got[c]
      BY <1>1 DEF InHandler, Answered, Inv, TypeOK
    <3>5. At(<<c, 0>>, k)' \/ up'[c] = "gone"
      BY <1>2, <1>6, <2>3, <3>3, <3>4 DEF clientVars
    <3> QED
      BY <3>1, <3>3, <3>5 DEF Once, Places
  <2> QED
    BY <2>2, <2>3
<1> QED
  BY <1>2, <1>4, <1>5, <1>7, SentLimit DEF Delivery, clientVars

LEMMA PlainDelivers ==
  ASSUME Inv, Delivery, NEW t \in IoThreads,
         \/ HandleHead(t) \/ HandleBad(t) \/ HandleJson(t) \/ RetrieveMissing(t)
         \/ \E k \in Tasks : RetrievePending(t, k)
         \/ Launch(t) \/ LaunchRefused(t)
  PROVE  Delivery'
<1> DEFINE Codes  == {200, 400, 404, 102, 500}
           Bodies == Nat \cup {None}
<1>1. Codes = {200, 400, 404, 102, 500} /\ Bodies = Nat \cup {None}
  OBVIOUS
<1> HIDE DEF Codes, Bodies
<1>2. PICK kind : /\ Handling(t, kind)
                  /\ \E code \in Codes, body \in Bodies :
                       \/ Reply(t, code, body) \/ ReplyMoved(t, code, body)
                       \/ ReplyWithoutId(t, code)
  <2>1. \A code \in {200, 400, 404, 102, 500} : code \in Codes
    BY <1>1
  <2>2. None \in Bodies
    BY <1>1
  <2>3. CASE Launch(t)
    <3>1. PICK i \in Nat : Handling(t, "launch") /\ ReplyMoved(t, 200, Told(i))
      BY <2>3, KeysAssumption DEF Launch
    <3>2. Told(i) \in Bodies /\ 200 \in Codes
      BY <1>1, ToldKeys
    <3> QED
      BY <3>1, <3>2
  <2>4. ASSUME HandleHead(t) PROVE Handling(t, "head") /\ ReplyWithoutId(t, 200)
    BY <2>4 DEF HandleHead
  <2>5. ASSUME HandleBad(t) PROVE Handling(t, "bad") /\ ReplyWithoutId(t, 400)
    BY <2>5 DEF HandleBad
  <2>6. ASSUME HandleJson(t) PROVE Handling(t, "json") /\ Reply(t, 200, None)
    BY <2>6 DEF HandleJson
  <2>7. ASSUME RetrieveMissing(t) PROVE Handling(t, "retrieve") /\ Reply(t, 404, None)
    BY <2>7 DEF RetrieveMissing
  <2>8. ASSUME LaunchRefused(t) PROVE Handling(t, "launch") /\ ReplyMoved(t, 500, None)
    BY <2>8 DEF LaunchRefused
  <2>9. ASSUME NEW k \in Tasks, RetrievePending(t, k)
        PROVE  Handling(t, "retrieve") /\ Reply(t, 102, None)
    BY <2>9 DEF RetrievePending, Asked
  <2>10. 200 \in Codes /\ 400 \in Codes /\ 404 \in Codes /\ 102 \in Codes /\ 500 \in Codes
    BY <2>1
  <2> QED
    <3>1. CASE HandleHead(t) \/ HandleBad(t)
      BY <2>2, <2>4, <2>5, <2>10, <3>1
    <3>2. CASE HandleJson(t) \/ RetrieveMissing(t)
      BY <2>2, <2>6, <2>7, <2>10, <3>2
    <3>3. CASE LaunchRefused(t) \/ \E k \in Tasks : RetrievePending(t, k)
      BY <2>2, <2>8, <2>9, <2>10, <3>3
    <3> QED
      BY <2>3, <3>1, <3>2, <3>3
<1>3. PICK c \in Conns : /\ thread[t] = c /\ read[c] \in Nat /\ Current(c) \in Request
                         /\ kind = "launch" => Current(c).arg \in Tasks
  BY <1>2, HandlingFacts
<1>4. PICK code \in {200, 400, 404, 102, 500}, body \in Nat \cup {None} :
        Reply(t, code, body) \/ ReplyMoved(t, code, body) \/ ReplyWithoutId(t, code)
  BY <1>1, <1>2
<1>5. PICK x \in BOOLEAN, y \in BOOLEAN : x = Current(c).close /\ y = Current(c).id
  BY <1>3 DEF Request
<1>6. PICK a \in Response : Sent(t, c, a) /\ a.to = read[c] /\ a.body \notin Tasks
  <2>1. body \notin Tasks /\ None \notin Tasks
    BY BodyAssumption
  <2>2. CASE Reply(t, code, body)
    <3>1. Send(t, code, body, x, y)
      BY <1>3, <1>5, <2>2 DEF Reply
    <3> QED
      BY <1>3, <2>1, <3>1, SendSends
  <2>3. CASE ReplyMoved(t, code, body)
    <3>1. PICK no \in BOOLEAN : no = FALSE /\ Send(t, code, body, no, no)
      BY <2>3 DEF ReplyMoved
    <3> QED
      BY <1>3, <2>1, <3>1, SendSends
  <2>4. CASE ReplyWithoutId(t, code)
    <3>1. PICK no \in BOOLEAN : no = FALSE
      OBVIOUS
    <3>2. Send(t, code, None, x, no)
      BY <1>3, <1>5, <2>4, <3>1 DEF ReplyWithoutId
    <3> QED
      BY <1>3, <2>1, <3>2, SendSends
  <2> QED
    BY <1>4, <2>2, <2>3, <2>4
<1>7. ASSUME NEW k \in Tasks
      PROVE  (status'[k] = "delivered" <=> status[k] = "delivered") /\ taken'[k] = taken[k]
  <2>1. CASE UNCHANGED storeVars
    BY <2>1 DEF storeVars
  <2>2. CASE Launch(t) \/ LaunchRefused(t)
    <3>1. Current(c).arg \in Tasks
      BY <1>3, <2>2, HandlingFacts DEF Launch, LaunchRefused
    <3>2. /\ status[Current(c).arg] = "new"
          /\ \E s \in {"pending", "refused"} : status' = [status EXCEPT ![Current(c).arg] = s]
          /\ taken' = taken
      BY <1>3, <2>2 DEF Launch, LaunchRefused, Store!Accept, Store!Refuse, Store!Become
    <3> QED
      BY <3>1, <3>2 DEF Inv, StoreType
  <2> QED
    BY <2>1, <2>2 DEF HandleHead, HandleBad, HandleJson, RetrieveMissing, RetrievePending
<1> QED
  BY <1>3, <1>6, <1>7, SentDelivers

LEMMA RetrieveReadyDelivers ==
  ASSUME Inv, Delivery, NEW t \in IoThreads, NEW k \in Tasks, RetrieveReady(t, k)
  PROVE  Delivery'
<1>1. /\ Handling(t, "retrieve") /\ status[k] = "ready"
      /\ Store!HandOut(k) /\ Reply(t, 302, k)
      /\ taken' = [taken EXCEPT ![k] = thread[t]]
  BY DEF RetrieveReady, Take, Asked
<1>2. PICK c \in Conns : thread[t] = c /\ read[c] \in Nat /\ Current(c) \in Request
  BY <1>1, HandlingFacts
<1>3. PICK x \in BOOLEAN, y \in BOOLEAN : x = Current(c).close /\ y = Current(c).id
  BY <1>2 DEF Request
<1>4. PICK a \in Response : Sent(t, c, a) /\ a.to = read[c] /\ a.body = k
  <2>1. Send(t, 302, k, x, y)
    BY <1>1, <1>2, <1>3 DEF Reply
  <2> QED
    BY <1>2, <2>1, SendSends
<1>5. status' = [status EXCEPT ![k] = "delivered"]
  BY <1>1 DEF Store!HandOut, Store!Become
<1>6. ASSUME NEW j \in Tasks
      PROVE  IF a.body = j
             THEN status[j] # "delivered" /\ status'[j] = "delivered" /\ taken'[j] = c
             ELSE (status'[j] = "delivered" <=> status[j] = "delivered") /\ taken'[j] = taken[j]
  BY <1>1, <1>2, <1>4, <1>5 DEF Inv, StoreType
<1> QED
  BY <1>2, <1>4, <1>6, SentDelivers

\* The store moves, and hands out no result.
LEMMA StoreDelivers ==
  ASSUME Inv, Delivery, UNCHANGED <<clientVars, sessionVars, thread, taken>>,
         \A k \in Tasks : status'[k] = "delivered" <=> status[k] = "delivered"
  PROVE  Delivery'
<1>1. \A d \in Conns : Same(d)
  BY DEF Same, sessionVars
<1> QED
  BY <1>1, SentLimit, ResponsesKept DEF clientVars, sessionVars

LEMMA InitDelivers == Init => Delivery
<1> SUFFICES ASSUME Init PROVE Delivery
  OBVIOUS
<1>1. \A k \in Tasks : status[k] = "new"
  BY DEF Init, Store!Init
<1>2. \A c \in Conns : res[c] = None /\ got[c] = <<>> /\ sent[c] = <<>>
  BY DEF Init
<1>3. \A p \in Places, k \in Tasks : ~At(p, k)
  BY <1>2 DEF Places, At
<1> QED
  BY <1>1, <1>2, <1>3, MaxRequestsAssumption DEF Delivery, Once, Clear

LEMMA StepDelivers == Inv /\ Delivery /\ [Next]_vars => Delivery'
<1> SUFFICES ASSUME Inv, Delivery, [Next]_vars PROVE Delivery'
  OBVIOUS
<1>1. ASSUME NEW c \in Conns, Connect(c) \/ HangUp(c) \/ \E r \in Requests : Submit(c, r)
      PROVE  Delivery'
  BY <1>1, ClientDelivers
<1>2. ASSUME NEW c \in Conns, ReadDone(c) \/ ReadFails(c) \/ WriteDone(c) \/ WriteFails(c)
      PROVE  Delivery'
  BY <1>2, SessionDelivers, WriteDoneDelivers
<1>3. ASSUME NEW t \in IoThreads, NEW c \in Conns, Accept(t, c) \/ Handler(t, c)
      PROVE  Delivery'
  BY <1>3, SessionDelivers, OnWriteDelivers DEF Handler
<1>4. ASSUME NEW k \in Tasks, status[k] \in {"pending", "threw"},
             \E s \in {"ready", "threw", "rethrown"} : status' = [status EXCEPT ![k] = s]
      PROVE  \A j \in Tasks : status'[j] = "delivered" <=> status[j] = "delivered"
  BY <1>4 DEF Inv, StoreType
<1>5. ASSUME NEW t \in IoThreads, Answer(t) PROVE Delivery'
  <2>1. ASSUME NEW k \in Tasks, RetrieveThrows(t, k) PROVE Delivery'
    <3>1. status[k] = "threw" /\ status' = [status EXCEPT ![k] = "rethrown"]
      BY <2>1 DEF RetrieveThrows, Store!HandOut, Store!Become
    <3> QED
      BY <1>4, <2>1, <3>1, StoreDelivers DEF RetrieveThrows
  <2> QED
    BY <1>5, <2>1, PlainDelivers, RetrieveReadyDelivers DEF Answer
<1>6. ASSUME NEW t \in IoThreads, JsonThrows(t) PROVE Delivery'
  BY <1>6, StoreDelivers DEF JsonThrows, Store!Crash
<1>7. ASSUME NEW k \in Tasks, TaskCompletes(k) PROVE Delivery'
  <2>1. /\ status[k] = "pending"
        /\ \E s \in {"ready", "threw"} : status' = [status EXCEPT ![k] = s]
    BY <1>7 DEF TaskCompletes, Store!Complete, Store!Become
  <2> QED
    BY <1>4, <1>7, <2>1, StoreDelivers DEF TaskCompletes
<1>8. CASE UNCHANGED vars
  BY <1>8, StoreDelivers DEF vars, storeVars
<1> QED
  BY <1>1, <1>2, <1>3, <1>5, <1>6, <1>7, <1>8 DEF Next

\* The result of a task is sent to one client, once; and a result that has left
\* the store is on its way, or received, unless the client of the connection
\* that took it hung up.
THEOREM ResultsReachOne == Spec => []ResultReachesOne
<1>1. Inv /\ Delivery => ResultReachesOne
  <2> SUFFICES ASSUME Inv, Delivery, NEW k \in Tasks
               PROVE  LET received == {p \in Conns \X (1 .. MaxRequests) :
                                         p[2] \in DOMAIN got[p[1]] /\ got[p[1]][p[2]].body = k}
                          sending  == {c \in Conns : res[c] # None /\ res[c].body = k
                                                       /\ res[c].to \notin DOMAIN got[c]} IN
                        /\ Cardinality(received) + Cardinality(sending) <= 1
                        /\ status[k] = "delivered" =>
                             \/ received \cup sending # {}
                             \/ taken[k] \in Conns /\ up[taken[k]] = "gone"
    BY DEF ResultReachesOne
  <2> DEFINE received == {p \in Conns \X (1 .. MaxRequests) :
                            p[2] \in DOMAIN got[p[1]] /\ got[p[1]][p[2]].body = k}
             sending  == {c \in Conns : res[c] # None /\ res[c].body = k
                                          /\ res[c].to \notin DOMAIN got[c]}
  <2>1. Once(k)
    BY DEF Delivery
  <2>2. ASSUME NEW p \in received PROVE p \in Places /\ At(p, k) /\ p[2] # 0
    BY DEF Places, At
  <2>3. ASSUME NEW c \in sending PROVE <<c, 0>> \in Places /\ At(<<c, 0>>, k)
    BY DEF Places, At
  <2>4. ASSUME NEW p \in Places, At(p, k) PROVE received \cup sending # {}
    <3>1. PICK c \in Conns, n \in Nat : p = <<c, n>>
      BY DEF Places
    <3>2. /\ got[c] \in Seq(Response) /\ Len(got[c]) <= read[c] /\ read[c] \in Nat
          /\ read[c] <= Len(sent[c]) /\ Len(sent[c]) \in Nat /\ Len(sent[c]) <= MaxRequests
      BY MaxRequestsAssumption DEF Inv, TypeOK, GotFits, Delivery
    <3>3. n \in DOMAIN got[c] => n \in 1 .. MaxRequests
      BY <3>2, MaxRequestsAssumption
    <3>4. p \in received \/ c \in sending
      BY <2>4, <3>1, <3>3 DEF At
    <3> QED
      BY <3>4
  <2>5. received = {} \/ sending = {}
    <3> SUFFICES ASSUME NEW p \in received, NEW c \in sending PROVE FALSE
      OBVIOUS
    <3>1. p = <<c, 0>> /\ p[2] # 0
      BY <2>1, <2>2, <2>3 DEF Once
    <3> QED
      BY <3>1
  <2>6. ASSUME NEW p \in received, NEW q \in received PROVE p = q
    BY <2>1, <2>2 DEF Once
  <2>7. ASSUME NEW c \in sending, NEW d \in sending PROVE c = d
    <3>1. <<c, 0>> = <<d, 0>>
      BY <2>1, <2>3 DEF Once
    <3> QED
      BY <3>1
  <2>8. status[k] = "delivered" =>
          received \cup sending # {} \/ (taken[k] \in Conns /\ up[taken[k]] = "gone")
    BY <2>1, <2>4 DEF Once
  <2> HIDE DEF received, sending
  <2>9. ASSUME NEW S, \A x, y \in S : x = y
        PROVE  Cardinality(S) = 0 \/ Cardinality(S) = 1
    <3>1. S = {} \/ \E x : S = {x}
      BY <2>9
    <3> QED
      BY <3>1, FS_EmptySet, FS_Singleton
  <2>10. Cardinality(received) + Cardinality(sending) <= 1
    <3>1. Cardinality(received) \in {0, 1} /\ Cardinality(sending) \in {0, 1}
      BY <2>6, <2>7, <2>9
    <3>2. Cardinality(received) = 0 \/ Cardinality(sending) = 0
      BY <2>5, FS_EmptySet
    <3> QED
      BY <3>1, <3>2
  <2> QED
    BY <2>8, <2>10 DEF received, sending
<1>2. Spec => [](Inv /\ Delivery)
  BY InitInv, StepInv, InitDelivers, StepDelivers, PTL DEF Spec
<1> QED
  BY <1>1, <1>2, PTL
=============================================================================
