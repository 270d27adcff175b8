---------------------------- MODULE TradeGateway ----------------------------
(***************************************************************************)
(* TradeGateway (src/python/trade_gateway.py) between its callers and the  *)
(* EA of one account: a request gets an id and a future in _pending, the   *)
(* EA executes the command and replies with that id, resolve() hands the   *)
(* reply to the future, and the caller wakes up later.  Each caller also   *)
(* has a timer, and a caller that runs in a connection's worker can be     *)
(* cancelled.                                                              *)
(*                                                                         *)
(* The EA (src/mql5/Experts/SocketBridgeEA.mq5) handles the commands of    *)
(* its receive buffer one at a time.  It keeps handling what it already    *)
(* received when the socket has failed, and its reply is then lost.  The   *)
(* server goes on listing a connection it does not know to be broken, so   *)
(* a command can be written to it.                                         *)
(***************************************************************************)
EXTENDS Naturals, Sequences, FiniteSets

CONSTANTS
  Requests,     \* calls of open_order, close_position, ...: one id each
  MaxReconnects \* bound: how often the EA comes back

ASSUME GatewayAssumption == MaxReconnects \in Nat

VARIABLES
  link,      \* "up", "broken" (not noticed by the server yet) or "down"
  epoch,     \* how often the EA has connected again
  pending,   \* the ids in TradeGateway._pending
  future,    \* state of the future of a request
  caller,    \* control point of the task in _send
  answer,    \* what _send returned
  toEA,      \* commands on their way, and received but not handled
  fromEA,    \* order_result messages on their way
  effect     \* what the command did to the account

vars == <<link, epoch, pending, future, caller, answer, toEA, fromEA, effect>>

Links == {"up", "broken", "down"}
Futures == {"none", "pending", "done", "refused", "cancelled"}
Callers == {"idle", "waiting", "returned"}
Effects == {"none", "done", "refused"}
Answers == {"none", "done", "refused", "not sent", "unknown"}
Replies == [id : Requests, ok : {"done", "refused"}]

Init ==
  /\ link = "up"
  /\ epoch = 0
  /\ pending = {}
  /\ future = [r \in Requests |-> "none"]
  /\ caller = [r \in Requests |-> "idle"]
  /\ answer = [r \in Requests |-> "none"]
  /\ toEA = <<>>
  /\ fromEA = <<>>
  /\ effect = [r \in Requests |-> "none"]

-----------------------------------------------------------------------------
(* The caller: TradeGateway._send *)

\* _current_client() is None: {"ok": False, "error": "no EA connected"}.
SendNoClient(r) ==
  /\ caller[r] = "idle"
  /\ link = "down"
  /\ caller' = [caller EXCEPT ![r] = "returned"]
  /\ answer' = [answer EXCEPT ![r] = "not sent"]
  /\ UNCHANGED <<link, epoch, pending, future, toEA, fromEA, effect>>

\* The future goes into _pending and the command is written.  On a broken
\* connection the command is lost without an error.
Send(r) ==
  /\ caller[r] = "idle"
  /\ link # "down"
  /\ pending' = pending \cup {r}
  /\ future' = [future EXCEPT ![r] = "pending"]
  /\ caller' = [caller EXCEPT ![r] = "waiting"]
  /\ toEA' = IF link = "up" THEN Append(toEA, r) ELSE toEA
  /\ UNCHANGED <<link, epoch, answer, fromEA, effect>>

\* client.send() raises on a broken connection: the handler of Exception
\* returns the error and the finally clause drops the future.
SendFails(r) ==
  /\ caller[r] = "idle"
  /\ link = "broken"
  /\ caller' = [caller EXCEPT ![r] = "returned"]
  /\ answer' = [answer EXCEPT ![r] = "unknown"]
  /\ UNCHANGED <<link, epoch, pending, future, toEA, fromEA, effect>>

\* mutant: the timer only runs while the connection is up.
TimeoutWhenUp(r) ==
  /\ link = "up"
  /\ caller[r] = "waiting"
  /\ future[r] \in {"pending", "done", "refused"}
  /\ future' = [future EXCEPT ![r] = "cancelled"]
  /\ UNCHANGED <<link, epoch, pending, caller, answer, toEA, fromEA, effect>>

\* wait_for's timer: the future is cancelled.  It starts after the drain of the send,
\* which waits while the buffers to the EA are full; that wait is left out.  From Python 3.12 on the timer
\* wins even over a result that is set while the caller has not resumed.
Timeout(r) ==
  /\ caller[r] = "waiting"
  /\ future[r] \in {"pending", "done", "refused"}
  /\ future' = [future EXCEPT ![r] = "cancelled"]
  /\ UNCHANGED <<link, epoch, pending, caller, answer, toEA, fromEA, effect>>

\* finally: self._pending.pop(req_id, None)
DropPending(r) == pending \ {r}

\* mutant: a timeout is reported as a refusal.
ResumeRefusing(r) ==
  /\ caller[r] = "waiting"
  /\ future[r] \in {"done", "refused", "cancelled"}
  /\ caller' = [caller EXCEPT ![r] = "returned"]
  /\ answer' = [answer EXCEPT ![r] = IF future[r] = "cancelled" THEN "refused" ELSE future[r]]
  /\ pending' = DropPending(r)
  /\ UNCHANGED <<link, epoch, future, toEA, fromEA, effect>>

\* The caller resumes: with the reply, or with the timeout.
Resume(r) ==
  /\ caller[r] = "waiting"
  /\ future[r] \in {"done", "refused", "cancelled"}
  /\ caller' = [caller EXCEPT ![r] = "returned"]
  /\ answer' = [answer EXCEPT ![r] = IF future[r] = "cancelled" THEN "unknown" ELSE future[r]]
  /\ pending' = DropPending(r)
  /\ UNCHANGED <<link, epoch, future, toEA, fromEA, effect>>

\* The task that called is cancelled (its connection's worker was torn down):
\* CancelledError passes through, only the finally clause runs.
CallerCancelled(r) ==
  /\ caller[r] = "waiting"
  /\ caller' = [caller EXCEPT ![r] = "returned"]
  /\ answer' = [answer EXCEPT ![r] = "unknown"]
  /\ future' = [future EXCEPT ![r] = IF @ = "pending" THEN "cancelled" ELSE @]
  /\ pending' = DropPending(r)
  /\ UNCHANGED <<link, epoch, toEA, fromEA, effect>>

-----------------------------------------------------------------------------
(* The read loop *)

\* The requests whose future a reply completes: the one popped from _pending
\* under the reply's id, if its future is not done.
Resolved(id) == {r \in pending : r = id /\ future[r] = "pending"}

\* on_order_result, dispatched in the read loop: resolve().  A reply that finds
\* no future, or a cancelled one, is logged and dropped.
Resolve ==
  /\ link # "down"
  /\ fromEA # <<>>
  /\ LET m == Head(fromEA) IN
       /\ future' = [r \in Requests |-> IF r \in Resolved(m.id) THEN m.ok ELSE future[r]]
       /\ pending' = pending \ {m.id}
  /\ fromEA' = Tail(fromEA)
  /\ UNCHANGED <<link, epoch, caller, answer, toEA, effect>>

-----------------------------------------------------------------------------
(* The EA and the connection *)

\* HandleMessage runs the next command and sends its order_result; Send fails
\* without a word when the socket is gone.
Execute ==
  /\ toEA # <<>>
  /\ LET r == Head(toEA) IN
       \E e \in {"done", "refused"} :
         /\ effect' = [effect EXCEPT ![r] = e]
         /\ fromEA' = IF link = "up" THEN Append(fromEA, [id |-> r, ok |-> e]) ELSE fromEA
  /\ toEA' = Tail(toEA)
  /\ UNCHANGED <<link, epoch, pending, future, caller, answer>>

\* The connection fails.  What the EA has received of the commands (a prefix)
\* it still handles; a suffix of the replies is lost.
Break ==
  /\ link = "up"
  /\ link' = "broken"
  /\ \E n \in 0 .. Len(toEA) : toEA' = SubSeq(toEA, 1, n)
  /\ \E n \in 0 .. Len(fromEA) : fromEA' = SubSeq(fromEA, 1, n)
  /\ UNCHANGED <<epoch, pending, future, caller, answer, effect>>

\* The server has seen the end of the connection and removed the client.  The
\* futures stay: their callers wait for the timer.
Forget ==
  /\ link = "broken"
  /\ link' = "down"
  /\ fromEA' = <<>>
  /\ UNCHANGED <<epoch, pending, future, caller, answer, toEA, effect>>

\* mutant: the commands that have no answer yet are sent again.
ReconnectResending ==
  /\ link = "down"
  /\ toEA = <<>>
  /\ epoch < MaxReconnects
  /\ epoch' = epoch + 1
  /\ link' = "up"
  /\ toEA' \in {<<r>> : r \in pending} \cup {s \in {<<>>} : pending = {}}
  /\ UNCHANGED <<pending, future, caller, answer, fromEA, effect>>

\* The EA connects again and says hello.  It has handled all it had received:
\* DrainMessages runs to the end before OnTimer can reconnect.
Reconnect ==
  /\ link = "down"
  /\ toEA = <<>>
  /\ epoch < MaxReconnects
  /\ epoch' = epoch + 1
  /\ link' = "up"
  /\ UNCHANGED <<pending, future, caller, answer, toEA, fromEA, effect>>

-----------------------------------------------------------------------------
Next ==
  \/ \E r \in Requests :
       \/ SendNoClient(r) \/ Send(r) \/ SendFails(r)
       \/ Timeout(r) \/ Resume(r) \/ CallerCancelled(r)
  \/ Resolve
  \/ Execute
  \/ Break
  \/ Forget
  \/ Reconnect

\* The loop fires timers and resumes tasks.  Neither the EA nor the network is
\* fair: a call has to return whatever they do, once its message is in the
\* buffers (with full ones drain waits until the EA reads or the link breaks).
Fairness == \A r \in Requests : WF_vars(Timeout(r)) /\ WF_vars(Resume(r))

Spec == Init /\ [][Next]_vars /\ Fairness

-----------------------------------------------------------------------------
TypeOK ==
  /\ link \in Links
  /\ epoch \in 0 .. MaxReconnects
  /\ pending \subseteq Requests
  /\ future \in [Requests -> Futures]
  /\ caller \in [Requests -> Callers]
  /\ answer \in [Requests -> Answers]
  /\ toEA \in Seq(Requests)
  /\ fromEA \in Seq(Replies)
  /\ effect \in [Requests -> Effects]
  /\ \A r \in Requests : (caller[r] = "returned") <=> (answer[r] # "none")

\* A reply in flight, and one handed to a future, tells what the EA did with
\* the command of that very id.
RepliesAreTrue ==
  /\ \A i \in 1 .. Len(fromEA) : effect[fromEA[i].id] = fromEA[i].ok
  /\ \A r \in Requests : future[r] \in {"done", "refused"} => effect[r] = future[r]

\* An entry of _pending belongs to a task that is still in _send: replies that
\* come late, timeouts and cancelled callers leave nothing behind.
NoLeakedFuture == \A r \in pending : caller[r] = "waiting"

\* A task whose future is still open can be found by the reply: its entry is
\* popped only with the future completed or the task gone.
WaiterIsReachable ==
  \A r \in Requests : caller[r] = "waiting" /\ future[r] = "pending" => r \in pending

\* An id is executed at most once: a command that was handled is not on its way
\* a second time, whatever breaks and reconnects in between.
ExecutedOnce ==
  /\ \A i \in 1 .. Len(toEA) : effect[toEA[i]] = "none"
  /\ \A i, j \in 1 .. Len(toEA) : toEA[i] = toEA[j] => i = j

\* Every call returns, with the EA dead, silent or reconnecting.
CallsReturn == \A r \in Requests : (caller[r] = "waiting") ~> (caller[r] = "returned")

\* The gateway implements RemoteCalls: a call that has started and not returned
\* is open.
Abstract == INSTANCE RemoteCalls WITH
  answer <- [r \in Requests |-> IF caller[r] = "waiting" THEN "open" ELSE answer[r]]

ImplementsCalls == Abstract!Spec
=============================================================================
