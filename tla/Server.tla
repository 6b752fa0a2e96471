------------------------------- MODULE Server -------------------------------
(***************************************************************************)
(* The HTTP server: the io threads of main(), TcpListener and Session      *)
(* (include/wrapper/protocol_support), handle_request(), and clients that  *)
(* send several requests on a connection, pipelined or not, and hang up.   *)
(* The store of asynchronous requests is what AsyncResults promises, which *)
(* AsyncStore implements.                                                  *)
(*                                                                         *)
(* Asio runs a session's operations outside the io threads; when one       *)
(* completes, its handler waits in the session's strand for an io thread.  *)
(* on_read() is a step that starts and a step that sends the response (or  *)
(* throws); every other handler is short, and one step.                    *)
(***************************************************************************)
EXTENDS Integers, Sequences, FiniteSets

CONSTANTS Conns,       \* the connections that clients ever make
          IoThreads,   \* max(1, http_threads) threads in ioc.run()
          Requests,    \* the requests a client may send
          MaxRequests, \* bound on the requests sent on a connection
          Tasks,       \* the tasks that asynchronous requests launch
          Keys,        \* the keys that the store gives out
          None         \* no task, no connection, no response

(***************************************************************************)
(* A request.  `arg' is the task of a launch, the key of a retrieval.      *)
(*   "head"      HEAD                                                      *)
(*   "bad"       a method, target or async parameter that is refused       *)
(*   "json"      a request that handle_json() answers at once              *)
(*   "launch"    the same with ?async                                      *)
(*   "retrieve"  /async/<key>                                              *)
(*   "garbled"   no HTTP                                                   *)
(* `close' and `id': a "Connection: close" and an "X-Packet-ID" header, of *)
(* an HTTP/1.1 request.                                                    *)
(***************************************************************************)
Kinds   == {"head", "bad", "json", "launch", "retrieve", "garbled"}
Request == [kind : Kinds, arg : Tasks \cup Nat \cup {None}, close : BOOLEAN, id : BOOLEAN]
\* The nth request's answer: HTTP code, the task whose result, or the number,
\* that is in the body, and the two headers again.
Response == [to : Nat, code : {200, 302, 102, 400, 404, 500},
             body : Tasks \cup Nat \cup {None}, close : BOOLEAN, id : BOOLEAN]

ASSUME RequestsAssumption ==
  /\ Requests \subseteq Request
  /\ \A r \in Requests : r.kind = "launch" => r.arg \in Tasks

ASSUME KeysAssumption == Keys \subseteq Nat
ASSUME NoneAssumption == None \notin Conns
\* What is in a body can be told apart, and no response is not one.
ASSUME BodyAssumption == None \notin Response /\ Tasks \cap (Nat \cup {None}) = {}
ASSUME MaxRequestsAssumption == MaxRequests \in Nat

VARIABLES
  up,      \* up[c]: "no", "yes" or "gone": the client's end of connection c
  sent,    \* sent[c]: the requests the client has sent (history)
  read,    \* read[c]: how many of them the session has read
  session, \* session[c]: "none", "open" or "over", when it is destroyed
  ops,     \* ops[c]: the session's operations in progress, "read" and "write"
  strand,  \* strand[c]: completion handlers that wait for an io thread
  res,     \* res[c]: the session's res_, or None
  got,     \* got[c]: the responses the client has received
  thread,  \* thread[t]: the connection whose on_read() io thread t is in, or None
  status, ticket, down, \* the store, see AsyncResults
  taken    \* taken[k]: the connection that took the result of k (history)

clientVars  == <<up, sent>>
sessionVars == <<read, session, ops, strand, res, got>>
storeVars   == <<status, ticket, down, taken>>
vars == <<clientVars, sessionVars, thread, storeVars>>

Store == INSTANCE AsyncResults

Init ==
  /\ up = [c \in Conns |-> "no"]
  /\ sent = [c \in Conns |-> <<>>]
  /\ read = [c \in Conns |-> 0]
  /\ session = [c \in Conns |-> "none"]
  /\ ops = [c \in Conns |-> {}]
  /\ strand = [c \in Conns |-> <<>>]
  /\ res = [c \in Conns |-> None]
  /\ got = [c \in Conns |-> <<>>]
  /\ thread = [t \in IoThreads |-> None]
  /\ Store!Init
  /\ taken = [k \in Tasks |-> None]

-----------------------------------------------------------------------------
(* Clients *)

Connect(c) ==
  /\ up[c] = "no"
  /\ up' = [up EXCEPT ![c] = "yes"]
  /\ UNCHANGED <<sent, sessionVars, thread, storeVars>>

\* A launch is sent once: another one is another task.
Submit(c, r) ==
  /\ up[c] = "yes" /\ Len(sent[c]) < MaxRequests
  /\ r.kind = "launch" => \A d \in Conns : \A n \in DOMAIN sent[d] : sent[d][n].arg # r.arg
  /\ sent' = [sent EXCEPT ![c] = Append(@, r)]
  /\ UNCHANGED <<up, sessionVars, thread, storeVars>>

HangUp(c) ==
  /\ up[c] = "yes"
  /\ up' = [up EXCEPT ![c] = "gone"]
  /\ UNCHANGED <<sent, sessionVars, thread, storeVars>>

-----------------------------------------------------------------------------
(* TcpListener, and the operations of a Session *)

Idle(t) == thread[t] = None

\* on_accept(): the session starts to read; then do_accept() again.
Accept(t, c) ==
  /\ Idle(t) /\ up[c] # "no" /\ session[c] = "none"
  /\ session' = [session EXCEPT ![c] = "open"]
  /\ ops' = [ops EXCEPT ![c] = {"read"}]
  /\ UNCHANGED <<clientVars, read, strand, res, got, thread, storeVars>>

Complete(c, op, ok) ==
  /\ op \in ops[c]
  /\ ops' = [ops EXCEPT ![c] = @ \ {op}]
  /\ strand' = [strand EXCEPT ![c] = Append(@, [op |-> op, ok |-> ok])]

\* async_read() has the next request.
ReadDone(c) ==
  /\ read[c] < Len(sent[c])
  /\ Complete(c, "read", sent[c][read[c] + 1].kind # "garbled")
  /\ read' = [read EXCEPT ![c] = @ + 1]
  /\ UNCHANGED <<clientVars, session, res, got, thread, storeVars>>

\* end_of_stream, or the connection is reset and requests are lost.
ReadFails(c) ==
  /\ up[c] = "gone"
  /\ Complete(c, "read", FALSE)
  /\ UNCHANGED <<clientVars, read, session, res, got, thread, storeVars>>

\* async_write() has handed all of res_ to the socket.  A client that is gone
\* will not see it.
WriteDone(c) ==
  /\ Complete(c, "write", TRUE)
  /\ got' = IF up[c] = "yes" THEN [got EXCEPT ![c] = Append(@, res[c])] ELSE got
  /\ UNCHANGED <<clientVars, read, session, res, thread, storeVars>>

WriteFails(c) ==
  /\ up[c] = "gone"
  /\ Complete(c, "write", FALSE)
  /\ UNCHANGED <<clientVars, read, session, res, got, thread, storeVars>>

-----------------------------------------------------------------------------
(* Completion handlers.  The strand runs those of a session one by one; as *)
(* the last reference to the session goes with the last handler that       *)
(* starts no operation, the session ends there, and its socket closes.     *)

Run(t, c, op) ==
  /\ Idle(t) /\ \A u \in IoThreads : thread[u] # c
  /\ strand[c] # <<>> /\ Head(strand[c]).op = op
  /\ strand' = [strand EXCEPT ![c] = Tail(@)]
  /\ UNCHANGED <<clientVars, read, got, storeVars>>

End(c) == session' = [session EXCEPT ![c] = "over"]

OnReadFailed(t, c) ==
  /\ Run(t, c, "read") /\ ~Head(strand[c]).ok
  /\ End(c)
  /\ UNCHANGED <<ops, res, thread>>

OnRead(t, c) ==
  /\ Run(t, c, "read") /\ Head(strand[c]).ok
  /\ thread' = [thread EXCEPT ![t] = c]
  /\ UNCHANGED <<session, ops, res>>

\* `fail(ec, "write")', or need_eof(): do_close() and nothing else.
OnWriteLast(t, c) ==
  /\ Run(t, c, "write") /\ (~Head(strand[c]).ok \/ res[c].close)
  /\ End(c)
  /\ UNCHANGED <<ops, res, thread>>

\* Slip: the close semantics of the response are ignored.
OnWrite_IgnoresClose(t, c) ==
  /\ Run(t, c, "write") /\ Head(strand[c]).ok
  /\ res' = [res EXCEPT ![c] = None]
  /\ ops' = [ops EXCEPT ![c] = @ \cup {"read"}]
  /\ UNCHANGED <<session, thread>>

\* Slip: do_read() is forgotten.
OnWrite_NoRead(t, c) ==
  /\ Run(t, c, "write") /\ Head(strand[c]).ok /\ ~res[c].close
  /\ res' = [res EXCEPT ![c] = None]
  /\ UNCHANGED <<session, ops, thread>>

OnWrite(t, c) ==
  /\ Run(t, c, "write") /\ Head(strand[c]).ok /\ ~res[c].close
  /\ res' = [res EXCEPT ![c] = None]
  /\ ops' = [ops EXCEPT ![c] = @ \cup {"read"}]
  /\ UNCHANGED <<session, thread>>

Handler(t, c) == OnReadFailed(t, c) \/ OnRead(t, c) \/ OnWriteLast(t, c) \/ OnWrite(t, c)

-----------------------------------------------------------------------------
(* handle_request(), called by on_read() for `req_', and SendLambda *)

Current(c) == sent[c][read[c]]
Handling(t, kind) == thread[t] # None /\ Current(thread[t]).kind = kind

\* Slip: the session goes on reading while it writes.
Send_ReadsOn(t, code, body, close, id) ==
  LET c == thread[t] IN
    /\ res' = [res EXCEPT ![c] =
                 [to |-> read[c], code |-> code, body |-> body, close |-> close, id |-> id]]
    /\ ops' = [ops EXCEPT ![c] = @ \cup {"read", "write"}]
    /\ thread' = [thread EXCEPT ![t] = None]
    /\ UNCHANGED <<clientVars, read, session, strand, got>>

Send(t, code, body, close, id) ==
  LET c == thread[t] IN
    /\ res' = [res EXCEPT ![c] =
                 [to |-> read[c], code |-> code, body |-> body, close |-> close, id |-> id]]
    /\ ops' = [ops EXCEPT ![c] = @ \cup {"write"}]
    /\ thread' = [thread EXCEPT ![t] = None]
    /\ UNCHANGED <<clientVars, read, session, strand, got>>

\* keep_alive(req.keep_alive()), and forward_packid() where the code calls it.
Reply(t, code, body) ==
  Send(t, code, body, Current(thread[t]).close, Current(thread[t]).id)
ReplyWithoutId(t, code) ==
  Send(t, code, None, Current(thread[t]).close, FALSE)

HandleHead(t) == Handling(t, "head") /\ ReplyWithoutId(t, 200) /\ UNCHANGED storeVars
HandleBad(t)  == Handling(t, "bad")  /\ ReplyWithoutId(t, 400) /\ UNCHANGED storeVars
HandleJson(t) == Handling(t, "json") /\ Reply(t, 200, None)    /\ UNCHANGED storeVars

\* An exception, as of a listing that libvirt refuses: it leaves ioc.run().
JsonThrows(t) ==
  /\ Handling(t, "json")
  /\ Store!Crash
  /\ UNCHANGED <<clientVars, sessionVars, thread, taken>>

\* The task's closure has taken `req': what is left has no headers, and reads
\* as a request that is kept alive and has no id.
ReplyMoved(t, code, body) == Send(t, code, body, FALSE, FALSE)

\* What hex_encode_id() makes of a key.  It drops four of the eight hexadecimal
\* digits after each one that it writes, so that the last two digits are the
\* lowest and the fifth of the key, and the others 0.
Told(i) == (i % 16) + 16 * ((i \div 65536) % 16)

Launch(t) ==
  /\ Handling(t, "launch")
  /\ \E i \in Keys :
       /\ Store!Accept(Current(thread[t]).arg, i)
       /\ ReplyMoved(t, 200, Told(i))
  /\ UNCHANGED taken

LaunchRefused(t) ==
  /\ Handling(t, "launch")
  /\ Store!Refuse(Current(thread[t]).arg)
  /\ ReplyMoved(t, 500, None)
  /\ UNCHANGED taken

\* handle_async_retrieve()
Asked(t, k) ==
  Handling(t, "retrieve") /\ k \in Store!Stored /\ ticket[k] = Current(thread[t]).arg

RetrieveMissing(t) ==
  /\ Handling(t, "retrieve") /\ \A k \in Tasks : ~Asked(t, k)
  /\ Reply(t, 404, None)
  /\ UNCHANGED storeVars

RetrievePending(t, k) ==
  /\ Asked(t, k) /\ status[k] = "pending"
  /\ Reply(t, 102, None)
  /\ UNCHANGED storeVars

\* value_if_ready() extracts the result, for this connection.
Take(t, k) == Store!HandOut(k) /\ taken' = [taken EXCEPT ![k] = thread[t]]

\* Slips: the body is left out; the result stays in the store.
RetrieveReady_NoBody(t, k) ==
  Asked(t, k) /\ status[k] = "ready" /\ Take(t, k) /\ Reply(t, 302, None)
RetrieveReady_Stays(t, k) ==
  Asked(t, k) /\ status[k] = "ready" /\ Reply(t, 302, k) /\ UNCHANGED storeVars

RetrieveReady(t, k) ==
  Asked(t, k) /\ status[k] = "ready" /\ Take(t, k) /\ Reply(t, 302, k)

\* fut.get() rethrows what the task threw: it leaves ioc.run().
RetrieveThrows(t, k) ==
  /\ Asked(t, k) /\ status[k] = "threw" /\ Store!HandOut(k)
  /\ UNCHANGED <<clientVars, sessionVars, thread, taken>>

Answer(t) ==
  \/ HandleHead(t) \/ HandleBad(t) \/ HandleJson(t)
  \/ Launch(t) \/ LaunchRefused(t)
  \/ RetrieveMissing(t)
  \/ \E k \in Tasks : RetrievePending(t, k) \/ RetrieveReady(t, k) \/ RetrieveThrows(t, k)

-----------------------------------------------------------------------------
TaskCompletes(k) ==
  Store!Complete(k) /\ UNCHANGED <<clientVars, sessionVars, thread, taken>>

Next ==
  /\ ~down
  /\ \/ \E c \in Conns : Connect(c) \/ HangUp(c) \/ \E r \in Requests : Submit(c, r)
     \/ \E c \in Conns : ReadDone(c) \/ ReadFails(c) \/ WriteDone(c) \/ WriteFails(c)
     \/ \E t \in IoThreads, c \in Conns : Accept(t, c) \/ Handler(t, c)
     \/ \E t \in IoThreads : Answer(t) \/ JsonThrows(t)
     \/ \E k \in Tasks : TaskCompletes(k)

Spec == Init /\ [][Next]_vars

(***************************************************************************)
(* Fairness.  A request on the wire is read, a response written (clients   *)
(* read what they are sent, or hang up); asio's queue is first come first  *)
(* served, so a handler that waits gets a thread; and handle_request()     *)
(* returns, as the calls of libvirt and of the store do.                   *)
(***************************************************************************)
Fairness ==
  /\ \A c \in Conns :
       /\ WF_vars(~down /\ (ReadDone(c) \/ ReadFails(c)))
       /\ WF_vars(~down /\ (WriteDone(c) \/ WriteFails(c)))
       /\ SF_vars(~down /\ \E t \in IoThreads : Accept(t, c) \/ Handler(t, c))
  /\ \A t \in IoThreads : WF_vars(~down /\ Answer(t))

FairSpec == Spec /\ Fairness

-----------------------------------------------------------------------------
(* Properties *)

TypeOK ==
  /\ up \in [Conns -> {"no", "yes", "gone"}]
  /\ sent \in [Conns -> Seq(Requests)]
  /\ read \in [Conns -> Nat]
  /\ session \in [Conns -> {"none", "open", "over"}]
  /\ ops \in [Conns -> SUBSET {"read", "write"}]
  /\ strand \in [Conns -> Seq([op : {"read", "write"}, ok : BOOLEAN])]
  /\ res \in [Conns -> Response \cup {None}]
  /\ got \in [Conns -> Seq(Response)]
  /\ thread \in [IoThreads -> Conns \cup {None}]

\* An open session does one thing at a time: an operation is in progress, or a
\* handler waits, or on_read() runs.  Beast forbids two reads or two writes at
\* once on a stream, and without any of them the session is destroyed.
OneThing ==
  \A c \in Conns :
    Cardinality(ops[c]) + Len(strand[c]) + Cardinality({t \in IoThreads : thread[t] = c})
      = (IF session[c] = "open" THEN 1 ELSE 0)

\* The nth response a client receives is to its nth request, and fits it.  A
\* launch is answered without the client's packet id and never closes the
\* connection; and its answer names the key of its task as long as that is below
\* 16: of any other key hex_encode_id() loses digits, and the answer names a
\* key that the task does not have.
AnswersFitRequests ==
  \A c \in Conns : \A n \in DOMAIN got[c] :
    LET q == sent[c][n]  a == got[c][n] IN
      /\ a.to = n
      /\ a.close = (q.close /\ q.kind # "launch")
      /\ a.id => q.id
      /\ (q.id /\ ~a.id) => q.kind \in {"head", "bad", "launch"}
      /\ a.code = 302 => q.kind = "retrieve" /\ a.body \in Tasks /\ ticket[a.body] = q.arg
      /\ (q.kind = "launch" /\ a.code = 200) =>
           a.body \in Nat /\ (a.body = ticket[q.arg] <=> ticket[q.arg] < 16)

\* The result of a task is sent to one client, once; and once it has left the
\* store it is on its way, or received, unless the client of the connection that
\* took it hung up.
ResultReachesOne ==
  \A k \in Tasks :
    LET received == {p \in Conns \X (1 .. MaxRequests) :
                       p[2] \in DOMAIN got[p[1]] /\ got[p[1]][p[2]].body = k}
        sending  == {c \in Conns : res[c] # None /\ res[c].body = k
                                     /\ res[c].to \notin DOMAIN got[c]} IN
      /\ Cardinality(received) + Cardinality(sending) <= 1
      /\ status[k] = "delivered" =>
           \/ received \cup sending # {}
           \/ taken[k] \in Conns /\ up[taken[k]] = "gone"

\* A connection ends because its client hung up, asked for it, or sent no HTTP;
\* and a request after that one is not looked at.
ClosedForAReason ==
  \A c \in Conns :
    /\ session[c] = "over" =>
         \/ up[c] = "gone"
         \/ Current(c).kind = "garbled"
         \/ Current(c).close /\ Current(c).kind # "launch"
    /\ \A n \in 1 .. read[c] - 1 : sent[c][n].close => sent[c][n].kind = "launch"

\* Every request is answered, unless its connection or the server ends.
RequestAnswered ==
  \A c \in Conns : \A n \in 1 .. MaxRequests :
    n \in DOMAIN sent[c] ~> (n \in DOMAIN got[c] \/ session[c] = "over" \/ down)
=============================================================================
