---------------------------- MODULE ServerProofs ----------------------------
(***************************************************************************)
(* Proofs about what stands between the server and an EA: the calls of the *)
(* trade gateway (TradeGateway, with its refinement of RemoteCalls), the   *)
(* sessions (Sessions) and closing by ticket (CloseRounds), for any number *)
(* of requests, connections, accounts and tickets.                         *)
(*                                                                         *)
(* RepliesAreTrue is not inductive: a second execution of an id could      *)
(* contradict a reply that is already there, so it needs ExecutedOnce, and *)
(* that needs to know that a request nobody has sent yet is nowhere.       *)
(***************************************************************************)
EXTENDS TradeGateway, Sessions, CloseRounds, SequenceTheorems, FiniteSetTheorems, TLAPS

\* A request that was not sent has no effect, no future and no command.
IdleIsUnsent ==
  \A r \in Requests : caller[r] = "idle" =>
    /\ effect[r] = "none"
    /\ future[r] = "none"
    /\ \A i \in 1 .. Len(toEA) : toEA[i] # r

\* A command can still be executed only while its caller waits or has been told
\* that the outcome is unknown.
CommandIsOpen ==
  \A i \in 1 .. Len(toEA) : caller[toEA[i]] = "waiting" \/ answer[toEA[i]] = "unknown"

IInv ==
  /\ TypeOK
  /\ IdleIsUnsent
  /\ CommandIsOpen
  /\ RepliesAreTrue
  /\ NoLeakedFuture
  /\ WaiterIsReachable
  /\ ExecutedOnce

USE GatewayAssumption

LEMMA InitHolds == Init => IInv
  BY DEF Init, IInv, TypeOK, IdleIsUnsent, CommandIsOpen, RepliesAreTrue, NoLeakedFuture,
         WaiterIsReachable, ExecutedOnce, Links, Futures, Callers, Effects, Answers, Replies

-----------------------------------------------------------------------------
(* The caller *)

\* The elements of a sequence to which something may have been appended.
LEMMA AppendElements ==
  ASSUME NEW S, NEW s \in Seq(S), NEW e \in S, NEW t \in {s, Append(s, e)}
  PROVE  \A i \in 1 .. Len(t) : \/ i \in 1 .. Len(s) /\ t[i] = s[i]
                                \/ i = Len(s) + 1 /\ t[i] = e
<1>1. CASE t = s
  BY <1>1
<1>2. CASE t = Append(s, e)
  BY <1>2
<1> QED
  BY <1>1, <1>2

\* The id of a call that has not started is not among the commands.
LEMMA UnsentIsNowhere ==
  ASSUME IInv, NEW r \in Requests, caller[r] = "idle"
  PROVE  \A i \in 1 .. Len(toEA) : toEA[i] \in Requests /\ toEA[i] # r
<1>1. \A i \in 1 .. Len(toEA) : toEA[i] \in Requests
  BY DEF IInv, TypeOK
<1>2. \A i \in 1 .. Len(toEA) : toEA[i] # r
  BY DEF IInv, IdleIsUnsent
<1> QED
  BY <1>1, <1>2

LEMMA SendNoClientKeeps == ASSUME IInv, NEW r \in Requests, SendNoClient(r) PROVE IInv'
<1>1. TypeOK'
  BY DEF SendNoClient, IInv, TypeOK, Callers, Answers
<1>2. CommandIsOpen'
  BY UnsentIsNowhere DEF SendNoClient, IInv, TypeOK, CommandIsOpen
<1>3. IdleIsUnsent' /\ ExecutedOnce'
  <2>1. IdleIsUnsent'
    BY DEF SendNoClient, IInv, TypeOK, IdleIsUnsent
  <2>2. ExecutedOnce'
    BY DEF SendNoClient, IInv, ExecutedOnce
  <2> QED
    BY <2>1, <2>2
<1>4. RepliesAreTrue' /\ NoLeakedFuture' /\ WaiterIsReachable'
  BY DEF SendNoClient, IInv, TypeOK, RepliesAreTrue, NoLeakedFuture, WaiterIsReachable
<1> QED
  BY <1>1, <1>2, <1>3, <1>4 DEF IInv

LEMMA SendFailsKeeps == ASSUME IInv, NEW r \in Requests, SendFails(r) PROVE IInv'
<1>1. TypeOK'
  BY DEF SendFails, IInv, TypeOK, Callers, Answers
<1>2. CommandIsOpen'
  BY UnsentIsNowhere DEF SendFails, IInv, TypeOK, CommandIsOpen
<1>3. IdleIsUnsent' /\ ExecutedOnce'
  <2>1. IdleIsUnsent'
    BY DEF SendFails, IInv, TypeOK, IdleIsUnsent
  <2>2. ExecutedOnce'
    BY DEF SendFails, IInv, ExecutedOnce
  <2> QED
    BY <2>1, <2>2
<1>4. RepliesAreTrue' /\ NoLeakedFuture' /\ WaiterIsReachable'
  BY DEF SendFails, IInv, TypeOK, RepliesAreTrue, NoLeakedFuture, WaiterIsReachable
<1> QED
  BY <1>1, <1>2, <1>3, <1>4 DEF IInv

LEMMA SendKeeps == ASSUME IInv, NEW r \in Requests, Send(r) PROVE IInv'
<1>1. TypeOK'
  BY DEF Send, IInv, TypeOK, Futures, Callers
<1>2. \A i \in 1 .. Len(toEA) : toEA[i] \in Requests /\ toEA[i] # r
  BY UnsentIsNowhere DEF Send
<1>3. \A i \in 1 .. Len(toEA') : \/ i \in 1 .. Len(toEA) /\ toEA'[i] = toEA[i]
                                 \/ i = Len(toEA) + 1 /\ toEA'[i] = r
  <2>1. toEA \in Seq(Requests) /\ toEA' \in {toEA, Append(toEA, r)}
    BY DEF Send, IInv, TypeOK
  <2> QED
    BY <2>1, AppendElements
<1>4. IdleIsUnsent' /\ CommandIsOpen'
  BY <1>2, <1>3 DEF Send, IInv, TypeOK, IdleIsUnsent, CommandIsOpen
<1>5. RepliesAreTrue' /\ NoLeakedFuture' /\ WaiterIsReachable'
  BY DEF Send, IInv, TypeOK, RepliesAreTrue, NoLeakedFuture, WaiterIsReachable
<1>6. ExecutedOnce'
  BY <1>2, <1>3 DEF Send, IInv, TypeOK, ExecutedOnce, IdleIsUnsent
<1> QED
  BY <1>1, <1>4, <1>5, <1>6 DEF IInv

LEMMA TimeoutKeeps == ASSUME IInv, NEW r \in Requests, Timeout(r) PROVE IInv'
  BY DEF Timeout, IInv, TypeOK, IdleIsUnsent, CommandIsOpen, RepliesAreTrue, NoLeakedFuture,
         WaiterIsReachable, ExecutedOnce, Futures

\* The reply cannot be there while its command is still on its way.
LEMMA ResumeKeeps == ASSUME IInv, NEW r \in Requests, Resume(r) PROVE IInv'
<1>1. TypeOK'
  BY DEF Resume, DropPending, IInv, TypeOK, Callers, Answers
<1>2. CommandIsOpen'
  BY DEF Resume, IInv, TypeOK, CommandIsOpen, RepliesAreTrue, ExecutedOnce
<1>3. IdleIsUnsent' /\ RepliesAreTrue' /\ NoLeakedFuture' /\ WaiterIsReachable' /\ ExecutedOnce'
  BY DEF Resume, DropPending, IInv, TypeOK, IdleIsUnsent, RepliesAreTrue, NoLeakedFuture,
     WaiterIsReachable, ExecutedOnce
<1> QED
  BY <1>1, <1>2, <1>3 DEF IInv

LEMMA CallerCancelledKeeps == ASSUME IInv, NEW r \in Requests, CallerCancelled(r) PROVE IInv'
<1>1. TypeOK'
  BY DEF CallerCancelled, DropPending, IInv, TypeOK, Callers, Answers, Futures
<1>2. CommandIsOpen' /\ IdleIsUnsent' /\ ExecutedOnce'
  BY DEF CallerCancelled, IInv, TypeOK, CommandIsOpen, IdleIsUnsent, ExecutedOnce
<1>3. RepliesAreTrue' /\ NoLeakedFuture' /\ WaiterIsReachable'
  BY DEF CallerCancelled, DropPending, IInv, TypeOK, RepliesAreTrue, NoLeakedFuture,
       WaiterIsReachable
<1> QED
  BY <1>1, <1>2, <1>3 DEF IInv

-----------------------------------------------------------------------------
(* Replies and commands *)

LEMMA ResolveKeeps == ASSUME IInv, Resolve PROVE IInv'
<1> DEFINE m == Head(fromEA)
<1>1. m \in Replies /\ fromEA # <<>> /\ m = fromEA[1] /\ effect[m.id] = m.ok
  BY DEF Resolve, IInv, TypeOK, RepliesAreTrue
<1>2. /\ future' = [r \in Requests |-> IF r \in Resolved(m.id) THEN m.ok ELSE future[r]]
      /\ pending' = pending \ {m.id}
      /\ fromEA' = Tail(fromEA)
      /\ UNCHANGED <<link, epoch, caller, answer, toEA, effect>>
  BY DEF Resolve
<1> HIDE DEF m
<1>3. TypeOK'
  BY <1>1, <1>2 DEF IInv, TypeOK, Replies, Futures
<1>4. \A i \in 1 .. Len(fromEA') : i + 1 \in 1 .. Len(fromEA) /\ fromEA'[i] = fromEA[i + 1]
  BY <1>1, <1>2 DEF IInv, TypeOK
<1>5. RepliesAreTrue'
  BY <1>1, <1>2, <1>4 DEF IInv, TypeOK, RepliesAreTrue, Resolved
<1>6. IdleIsUnsent' /\ CommandIsOpen' /\ ExecutedOnce'
  BY <1>2 DEF IInv, TypeOK, IdleIsUnsent, CommandIsOpen, ExecutedOnce, Resolved
<1>7. NoLeakedFuture'
  BY <1>2 DEF IInv, NoLeakedFuture
<1>8. WaiterIsReachable'
  BY <1>1, <1>2 DEF IInv, TypeOK, WaiterIsReachable, Resolved, Replies
<1> QED
  BY <1>3, <1>5, <1>6, <1>7, <1>8 DEF IInv

LEMMA ExecuteKeeps == ASSUME IInv, Execute PROVE IInv'
<1> DEFINE r == Head(toEA)
<1>1. r \in Requests /\ toEA # <<>> /\ r = toEA[1] /\ effect[r] = "none"
  BY DEF Execute, IInv, TypeOK, ExecutedOnce
<1>2. PICK e \in {"done", "refused"} :
        /\ effect' = [effect EXCEPT ![r] = e]
        /\ fromEA' = IF link = "up" THEN Append(fromEA, [id |-> r, ok |-> e]) ELSE fromEA
  BY DEF Execute
<1>3. toEA' = Tail(toEA) /\ UNCHANGED <<link, epoch, pending, future, caller, answer>>
  BY DEF Execute
<1> HIDE DEF r
<1>4. \A i \in 1 .. Len(toEA') : i + 1 \in 1 .. Len(toEA) /\ toEA'[i] = toEA[i + 1]
  BY <1>1, <1>3 DEF IInv, TypeOK
<1>5. \A i \in 1 .. Len(toEA') : toEA'[i] # r /\ toEA'[i] \in Requests
  BY <1>1, <1>4 DEF IInv, TypeOK, ExecutedOnce
<1>6. TypeOK'
  <2>1. [id |-> r, ok |-> e] \in Replies
    BY <1>1 DEF Replies
  <2>2. fromEA' \in Seq(Replies)
    BY <1>2, <2>1 DEF IInv, TypeOK
  <2>3. toEA' \in Seq(Requests)
    BY <1>1, <1>3 DEF IInv, TypeOK
  <2>4. effect' \in [Requests -> Effects]
    BY <1>2 DEF IInv, TypeOK, Effects
  <2> QED
    BY <1>3, <2>2, <2>3, <2>4 DEF IInv, TypeOK
<1>7. CommandIsOpen'
  BY <1>3, <1>4 DEF IInv, CommandIsOpen
<1>8. IdleIsUnsent'
  BY <1>1, <1>2, <1>3, <1>4 DEF IInv, TypeOK, IdleIsUnsent
<1>9. ExecutedOnce'
  <2>1. \A i \in 1 .. Len(toEA') : effect'[toEA'[i]] = "none"
    BY <1>1, <1>2, <1>4, <1>5 DEF IInv, TypeOK, ExecutedOnce
  <2>2. \A i, j \in 1 .. Len(toEA') : toEA'[i] = toEA'[j] => i = j
    BY <1>4 DEF IInv, ExecutedOnce
  <2> QED
    BY <2>1, <2>2 DEF ExecutedOnce
<1>10. RepliesAreTrue'
  <2>1. \A i \in 1 .. Len(fromEA) : fromEA[i].id # r /\ effect'[fromEA[i].id] = fromEA[i].ok
    <3> TAKE i \in 1 .. Len(fromEA)
    <3>1. fromEA[i] \in Replies /\ effect[fromEA[i].id] = fromEA[i].ok
      BY DEF IInv, TypeOK, RepliesAreTrue
    <3>2. fromEA[i].id \in Requests /\ fromEA[i].ok # "none"
      BY <3>1 DEF Replies
    <3> QED
      BY <1>1, <1>2, <3>1, <3>2 DEF IInv, TypeOK
  <2>2. \A i \in 1 .. Len(fromEA') : effect'[fromEA'[i].id] = fromEA'[i].ok
    BY <1>1, <1>2, <2>1 DEF IInv, TypeOK, Replies
  <2>3. \A q \in Requests : future'[q] \in {"done", "refused"} => effect'[q] = future'[q]
    BY <1>1, <1>2, <1>3 DEF IInv, TypeOK, RepliesAreTrue
  <2> QED
    BY <2>2, <2>3 DEF RepliesAreTrue
<1>11. NoLeakedFuture' /\ WaiterIsReachable'
  BY <1>3 DEF IInv, NoLeakedFuture, WaiterIsReachable
<1> QED
  BY <1>6, <1>7, <1>8, <1>9, <1>10, <1>11 DEF IInv

-----------------------------------------------------------------------------
(* The connection *)

LEMMA BreakKeeps == ASSUME IInv, Break PROVE IInv'
<1>1. PICK n \in 0 .. Len(toEA), k \in 0 .. Len(fromEA) :
        toEA' = SubSeq(toEA, 1, n) /\ fromEA' = SubSeq(fromEA, 1, k)
  BY DEF Break
<1>2. toEA \in Seq(Requests) /\ fromEA \in Seq(Replies)
  BY DEF IInv, TypeOK
<1>3. /\ toEA' \in Seq(Requests) /\ Len(toEA') = n
      /\ \A i \in 1 .. n : i \in 1 .. Len(toEA) /\ toEA'[i] = toEA[i]
  BY <1>1, <1>2
<1>4. /\ fromEA' \in Seq(Replies) /\ Len(fromEA') = k
      /\ \A i \in 1 .. k : i \in 1 .. Len(fromEA) /\ fromEA'[i] = fromEA[i]
  BY <1>1, <1>2
<1>5. link' = "broken" /\ UNCHANGED <<epoch, pending, future, caller, answer, effect>>
  BY DEF Break
<1>6. TypeOK'
  BY <1>3, <1>4, <1>5 DEF IInv, TypeOK, Links
<1>7. IdleIsUnsent' /\ CommandIsOpen' /\ ExecutedOnce'
  BY <1>3, <1>5 DEF IInv, IdleIsUnsent, CommandIsOpen, ExecutedOnce
<1>8. RepliesAreTrue' /\ NoLeakedFuture' /\ WaiterIsReachable'
  BY <1>4, <1>5 DEF IInv, RepliesAreTrue, NoLeakedFuture, WaiterIsReachable
<1> QED
  BY <1>6, <1>7, <1>8 DEF IInv

LEMMA ForgetKeeps == ASSUME IInv, Forget PROVE IInv'
  BY DEF Forget, IInv, TypeOK, IdleIsUnsent, CommandIsOpen, RepliesAreTrue, NoLeakedFuture,
         WaiterIsReachable, ExecutedOnce, Links

LEMMA ReconnectKeeps == ASSUME IInv, Reconnect PROVE IInv'
  BY DEF Reconnect, IInv, TypeOK, IdleIsUnsent, CommandIsOpen, RepliesAreTrue, NoLeakedFuture,
         WaiterIsReachable, ExecutedOnce, Links

LEMMA StutterKeeps == ASSUME IInv, UNCHANGED vars PROVE IInv'
  BY DEF vars, IInv, TypeOK, IdleIsUnsent, CommandIsOpen, RepliesAreTrue, NoLeakedFuture,
         WaiterIsReachable, ExecutedOnce

LEMMA NextKeeps == IInv /\ [Next]_vars => IInv'
  BY SendNoClientKeeps, SendKeeps, SendFailsKeeps, TimeoutKeeps, ResumeKeeps,
       CallerCancelledKeeps,
     ResolveKeeps, ExecuteKeeps, BreakKeeps, ForgetKeeps, ReconnectKeeps, StutterKeeps DEF Next

\* The strengthening holds in every reachable state.
THEOREM Invariant == Spec => []IInv
  BY InitHolds, NextKeeps, PTL DEF Spec

\* Type correctness, and that exactly the calls that returned have an answer.
THEOREM TypeCorrect == Spec => []TypeOK
  BY Invariant, PTL DEF IInv

\* What a future is given is what the EA did with the command of that id.
THEOREM RepliesTrue == Spec => []RepliesAreTrue
  BY Invariant, PTL DEF IInv

\* TradeGateway._pending holds no entry of a call that is over.
THEOREM NothingLeaks == Spec => []NoLeakedFuture
  BY Invariant, PTL DEF IInv

\* A waiting call can always be found by its reply.
THEOREM WaitersReachable == Spec => []WaiterIsReachable
  BY Invariant, PTL DEF IInv

\* No id is executed twice.
THEOREM AtMostOnce == Spec => []ExecutedOnce
  BY Invariant, PTL DEF IInv

-----------------------------------------------------------------------------
(* The gateway implements RemoteCalls *)

LEMMA AbstractInit == Init => Abstract!Init
  BY DEF Init, Abstract!Init

\* Sending, in each of its three outcomes, is one of the ways a call can start.
LEMMA SendStarts ==
  ASSUME IInv, NEW r \in Requests, SendNoClient(r) \/ Send(r) \/ SendFails(r)
  PROVE  Abstract!Next
<1>1. answer[r] = "none" /\ caller[r] = "idle"
  BY DEF IInv, TypeOK, SendNoClient, Send, SendFails
<1>2. CASE SendNoClient(r)
  <2>1. Abstract!ReturnUnsent(r)
    BY <1>1, <1>2 DEF SendNoClient, IInv, TypeOK, Abstract!ReturnUnsent
  <2> QED
    BY <2>1 DEF Abstract!Next
<1>3. CASE Send(r)
  <2>1. Abstract!Call(r)
    BY <1>1, <1>3 DEF Send, IInv, TypeOK, Abstract!Call
  <2> QED
    BY <2>1 DEF Abstract!Next
<1>4. CASE SendFails(r)
  <2>1. Abstract!ReturnAtOnce(r)
    BY <1>1, <1>4 DEF SendFails, IInv, TypeOK, Abstract!ReturnAtOnce
  <2> QED
    BY <2>1 DEF Abstract!Next
<1> QED
  BY <1>2, <1>3, <1>4

\* A call returns the effect, when it returns a reply, or else "unknown".
LEMMA ReturnReturns ==
  ASSUME IInv, NEW r \in Requests, Resume(r) \/ CallerCancelled(r)
  PROVE  Abstract!Next
<1>1. caller[r] = "waiting"
  BY DEF Resume, CallerCancelled
<1>2. \/ answer' = [answer EXCEPT ![r] = "unknown"]
      \/ effect[r] # "none" /\ answer' = [answer EXCEPT ![r] = effect[r]]
  <2>1. CASE Resume(r)
    <3>1. future[r] \in {"done", "refused"} => effect[r] = future[r]
      BY DEF IInv, RepliesAreTrue
    <3> QED
      BY <2>1, <3>1 DEF Resume
  <2>2. CASE CallerCancelled(r)
    BY <2>2 DEF CallerCancelled
  <2> QED
    BY <2>1, <2>2
<1>3. caller' = [caller EXCEPT ![r] = "returned"] /\ UNCHANGED effect
  BY DEF Resume, CallerCancelled
<1>4. Abstract!Return(r)
  BY <1>1, <1>2, <1>3 DEF IInv, TypeOK, Abstract!Return
<1> QED
  BY <1>4 DEF Abstract!Next

\* The EA executes a command only while the call is open or unknown.
LEMMA ExecutePerforms == ASSUME IInv, Execute PROVE Abstract!Next
<1> DEFINE r == Head(toEA)
<1>1. r \in Requests /\ r = toEA[1] /\ 1 \in 1 .. Len(toEA)
  BY DEF Execute, IInv, TypeOK
<1>2. effect[r] = "none" /\ (caller[r] = "waiting" \/ answer[r] = "unknown")
  BY <1>1 DEF IInv, ExecutedOnce, CommandIsOpen
<1>3. \E e \in {"done", "refused"} : effect' = [effect EXCEPT ![r] = e]
  BY DEF Execute
<1>4. UNCHANGED <<caller, answer>>
  BY DEF Execute
<1> HIDE DEF r
<1>5. Abstract!Perform(r)
  BY <1>1, <1>2, <1>3, <1>4 DEF Abstract!Perform
<1> QED
  BY <1>1, <1>5 DEF Abstract!Next

\* Everything else is invisible to RemoteCalls.
LEMMA HiddenStutters ==
  ASSUME \/ \E r \in Requests : Timeout(r)
         \/ Resolve \/ Break \/ Forget \/ Reconnect
         \/ UNCHANGED vars
  PROVE  UNCHANGED Abstract!vars
  BY DEF Timeout, Resolve, Break, Forget, Reconnect, vars, Abstract!vars

LEMMA AbstractStep == IInv /\ [Next]_vars => [Abstract!Next]_(Abstract!vars)
<1> SUFFICES ASSUME IInv, [Next]_vars PROVE [Abstract!Next]_(Abstract!vars)
  OBVIOUS
<1>1. CASE \E r \in Requests : SendNoClient(r) \/ Send(r) \/ SendFails(r)
  BY <1>1, SendStarts
<1>2. CASE \E r \in Requests : Resume(r) \/ CallerCancelled(r)
  BY <1>2, ReturnReturns
<1>3. CASE Execute
  BY <1>3, ExecutePerforms
<1>4. CASE \/ \E r \in Requests : Timeout(r)
           \/ Resolve \/ Break \/ Forget \/ Reconnect
           \/ UNCHANGED vars
  BY <1>4, HiddenStutters
<1> QED
  BY <1>1, <1>2, <1>3, <1>4 DEF Next

\* TradeGateway keeps every promise of RemoteCalls, with an EA that may die at
\* any moment: each step is a step of RemoteCalls or invisible to it.
THEOREM Refinement == Spec => ImplementsCalls
  BY AbstractInit, AbstractStep, Invariant, PTL DEF Spec, ImplementsCalls, Abstract!Spec

-----------------------------------------------------------------------------
(* Sessions: none of the three safety properties is inductive.  Why no     *)
(* account stays online depends on which control points a worker can be in *)
(* while its read loop still reads, and why an older connection is closed  *)
(* depends on what the eviction loop has still to visit.  SessionsInv adds *)
(* both.                                                                   *)

USE SessionsAssumption

\* A worker that runs a handler belongs to a read loop that reads; the account
\* that an eviction works for is a real one.
WorkerControl ==
  \A c \in Clients :
    /\ worker[c] \in {"idle", "evicting", "loading"} => reader[c] = "reading"
    /\ worker[c] = "evicting" => bind[c].account \in Accounts

\* A connection has one hello, and no account before bind has claimed one.
UnboundUntilClaimed ==
  \A c \in Clients :
    /\ transport[c] = "none" => c \notin greeted
    /\ c \notin greeted => /\ hello[c] = NoAccount
                           /\ accountId[c] = NoAccount
                           /\ worker[c] # "evicting"
    /\ hello[c] # NoAccount => accountId[c] = NoAccount /\ worker[c] # "evicting"
    /\ worker[c] = "evicting" => accountId[c] = NoAccount

\* The server lists every connection it has not closed.
OpenIsListed == \A c \in Clients : Open(c) => c \in clients

\* What an eviction loop would have to visit to close every open connection of
\* the account but those that raced with it.
Covered(c, a, visit) ==
  \A d \in Clients \ {c} : Bound(d, a) /\ Open(d) => d \in visit \/ {c, d} \in raced

EvictionCovers ==
  \A c \in Clients : \A a \in Accounts :
    bind[c].account = a => Covered(c, a, bind[c].rest)

SessionsInv ==
  /\ SessionsTypeOK
  /\ WorkerControl
  /\ UnboundUntilClaimed
  /\ OpenIsListed
  /\ EvictionCovers
  /\ OnlineHasClient
  /\ OneOpenClientUnlessRaced
  /\ OfflineOnlyByTeardown


LEMMA NoBindType ==
  NoBind \in BindCalls
  BY DEF NoBind, BindCalls

\* Nothing is connected at the start.
LEMMA SessionsStart ==
  SessionsInit => SessionsInv
  BY DEF SessionsInit, SessionsInv, SessionsTypeOK, WorkerControl, UnboundUntilClaimed, OpenIsListed,
       EvictionCovers,
         Covered, OnlineHasClient, OneOpenClientUnlessRaced, OfflineOnlyByTeardown, Clients,
         TransportStates, ReaderStates, WorkerStates, BindCalls, NoBind, Open,
         Live, Bound

-----------------------------------------------------------------------------
(* Bind *)

\* Closing the first stale connection keeps the loop covering the rest.
LEMMA EvictKeeps ==
  ASSUME SessionsInv, NEW c \in Clients, NEW a \in Accounts,
         NEW visit \in SUBSET Clients,
         worker[c] \in {"idle", "evicting"}, accountId[c] = NoAccount, c \in greeted,
         Covered(c, a, visit), hello' = [hello EXCEPT ![c] = NoAccount],
         EvictFirst(c, a, visit), UNCHANGED <<clients, reader, greeted>>
  PROVE  SessionsInv'
<1>1. PICK d \in Stale(c, a, visit) :
        /\ \A e \in Stale(c, a, visit) : d <= e
        /\ transport' = [transport EXCEPT ![d] = "closing"]
        /\ worker' = [worker EXCEPT ![c] = "evicting"]
        /\ bind' = [bind EXCEPT ![c] = [account |-> a, rest |-> {e \in visit : e > d}, waitFor |-> d]]
        /\ UNCHANGED <<accountId, connected, raced>>
  BY DEF EvictFirst
<1>2. d \in Clients /\ d # c /\ transport[d] # "none" /\ transport[d] # "lost"
  BY DEF Stale, Bound, SessionsInv, UnboundUntilClaimed, SessionsTypeOK
<1>3. SessionsTypeOK'
  <2>1. [account |-> a, rest |-> {e \in visit : e > d}, waitFor |-> d] \in BindCalls
    <3>1. d \in 0 .. MaxClients
      BY <1>2 DEF Clients
    <3>2. {e \in visit : e > d} \in SUBSET Clients
      OBVIOUS
    <3> QED
      BY <3>1, <3>2 DEF BindCalls
  <2>2. bind' \in [Clients -> BindCalls]
    BY <1>1, <2>1 DEF SessionsInv, SessionsTypeOK
  <2> QED
    BY <1>1, <1>2, <2>2 DEF SessionsInv, SessionsTypeOK, TransportStates, WorkerStates
<1>4. WorkerControl' /\ UnboundUntilClaimed' /\ OpenIsListed'
  BY <1>1, <1>2 DEF SessionsInv, SessionsTypeOK, WorkerControl, UnboundUntilClaimed, OpenIsListed,
       Open, BindCalls
<1>5. EvictionCovers'
  <2> SUFFICES ASSUME NEW x \in Clients, NEW b \in Accounts, bind'[x].account = b,
                      NEW e \in Clients \ {x}, Bound(e, b)', Open(e)'
               PROVE  e \in bind'[x].rest \/ {x, e} \in raced'
    BY DEF EvictionCovers, Covered, SessionsInv, Bound, Open
  <2>1. Bound(e, b) /\ Open(e) /\ e # d
    BY <1>1, <1>2 DEF Bound, Open, SessionsInv, SessionsTypeOK
  <2>2. CASE x # c
    BY <1>1, <2>1, <2>2 DEF SessionsInv, SessionsTypeOK, EvictionCovers, Covered
  <2>3. CASE x = c
    <3>1. b = a /\ bind'[c].rest = {i \in visit : i > d}
      BY <1>1, <2>3 DEF SessionsInv, SessionsTypeOK
    <3>2. e \in visit => e > d
      BY <1>1, <1>2, <2>1, <2>3, <3>1 DEF Stale, Open, Clients
    <3> QED
      BY <1>1, <2>1, <2>3, <3>1, <3>2 DEF Covered
  <2> QED
    BY <2>2, <2>3
<1>6. OnlineHasClient'
  BY <1>1 DEF SessionsInv, OnlineHasClient, Bound
<1>7. OneOpenClientUnlessRaced' /\ OfflineOnlyByTeardown'
  BY <1>1, <1>2 DEF SessionsInv, SessionsTypeOK, OneOpenClientUnlessRaced, OfflineOnlyByTeardown,
       Open, Live, Bound
<1> QED
  BY <1>3, <1>4, <1>5, <1>6, <1>7 DEF SessionsInv

\* Taking the account with nobody left to evict: every other open connection of
\* the account was covered, so it raced.
LEMMA ClaimKeeps ==
  ASSUME SessionsInv, NEW c \in Clients, NEW a \in Accounts,
         NEW visit \in SUBSET Clients,
         worker[c] \in {"idle", "evicting"}, accountId[c] = NoAccount, c \in greeted,
         Covered(c, a, visit), hello' = [hello EXCEPT ![c] = NoAccount],
         Claim(c, a, visit), UNCHANGED <<clients, reader, greeted>>
  PROVE  SessionsInv'
<1>1. /\ accountId' = [accountId EXCEPT ![c] = a]
      /\ connected' = [connected EXCEPT ![a] = TRUE]
      /\ worker' = [worker EXCEPT ![c] = "loading"]
      /\ bind' = [bind EXCEPT ![c] = NoBind]
      /\ raced' = raced \cup {{c, d} : d \in {e \in Clients : bind[e].account = a}}
      /\ UNCHANGED transport
  BY DEF Claim, Online
<1>2. SessionsTypeOK'
  <2>1. raced' \subseteq SUBSET Clients
    BY <1>1 DEF SessionsInv, SessionsTypeOK
  <2>2. bind' \in [Clients -> BindCalls]
    BY <1>1, NoBindType DEF SessionsInv, SessionsTypeOK
  <2> QED
    BY <1>1, <2>1, <2>2 DEF SessionsInv, SessionsTypeOK, WorkerStates
<1>3. WorkerControl' /\ UnboundUntilClaimed' /\ OpenIsListed'
  BY <1>1 DEF SessionsInv, SessionsTypeOK, WorkerControl, UnboundUntilClaimed, OpenIsListed, Open,
       BindCalls, NoBind
<1>4. ASSUME NEW d \in Clients \ {c}, Bound(d, a), Open(d)
      PROVE  {c, d} \in raced
  BY <1>4 DEF Covered, Claim, Stale, Open
<1>5. EvictionCovers'
  <2> SUFFICES ASSUME NEW x \in Clients, NEW b \in Accounts, bind'[x].account = b,
                      NEW e \in Clients \ {x}, Bound(e, b)', Open(e)'
               PROVE  e \in bind'[x].rest \/ {x, e} \in raced'
    BY DEF EvictionCovers, Covered, SessionsInv, Bound, Open
  <2>1. x # c /\ bind'[x] = bind[x]
    BY <1>1 DEF SessionsInv, SessionsTypeOK, NoBind
  <2>2. CASE e = c
    BY <1>1, <2>1, <2>2 DEF SessionsInv, SessionsTypeOK, Bound
  <2>3. CASE e # c
    BY <1>1, <2>1, <2>3 DEF SessionsInv, SessionsTypeOK, EvictionCovers, Covered, Bound, Open
  <2> QED
    BY <2>2, <2>3
<1>6. OnlineHasClient'
  BY <1>1 DEF SessionsInv, SessionsTypeOK, OnlineHasClient, Bound, WorkerControl
<1>7. OneOpenClientUnlessRaced'
  BY <1>1, <1>4 DEF SessionsInv, SessionsTypeOK, OneOpenClientUnlessRaced, Open, Bound
<1>8. OfflineOnlyByTeardown'
  BY <1>1 DEF SessionsInv, SessionsTypeOK, OfflineOnlyByTeardown, Live, Bound
<1> QED
  BY <1>2, <1>3, <1>5, <1>6, <1>7, <1>8 DEF SessionsInv
\* Both ways on from a point of the eviction loop.
LEMMA LoopKeeps ==
  ASSUME SessionsInv, NEW c \in Clients, NEW a \in Accounts,
         NEW visit \in SUBSET Clients,
         worker[c] \in {"idle", "evicting"}, accountId[c] = NoAccount, c \in greeted,
         Covered(c, a, visit), hello' = [hello EXCEPT ![c] = NoAccount],
         EvictFirst(c, a, visit) \/ Claim(c, a, visit), UNCHANGED <<clients, reader, greeted>>
  PROVE  SessionsInv'
  BY EvictKeeps, ClaimKeeps

-----------------------------------------------------------------------------
(* One lemma for each of the other steps *)

LEMMA HandleHelloKeeps ==
  ASSUME SessionsInv, NEW c \in Clients, HandleHello(c)
  PROVE  SessionsInv'
<1>1. hello[c] \in Accounts /\ accountId[c] = NoAccount /\ c \in greeted
  BY DEF HandleHello, SessionsInv, SessionsTypeOK, UnboundUntilClaimed
<1>2. Covered(c, hello[c], clients) /\ clients \in SUBSET Clients
  BY DEF Covered, SessionsInv, SessionsTypeOK, OpenIsListed
<1> QED
  BY <1>1, <1>2, LoopKeeps DEF HandleHello

LEMMA ResumeEvictKeeps ==
  ASSUME SessionsInv, NEW c \in Clients, ResumeEvict(c)
  PROVE  SessionsInv'
<1>1. /\ bind[c].account \in Accounts
      /\ bind[c].rest \in SUBSET Clients
      /\ accountId[c] = NoAccount
      /\ c \in greeted
  BY DEF ResumeEvict, SessionsInv, SessionsTypeOK, WorkerControl, UnboundUntilClaimed, BindCalls
<1>2. hello' = [hello EXCEPT ![c] = NoAccount]
  BY DEF ResumeEvict, SessionsInv, SessionsTypeOK, UnboundUntilClaimed
<1>3. Covered(c, bind[c].account, bind[c].rest)
  BY <1>1 DEF SessionsInv, EvictionCovers
<1> QED
  BY <1>1, <1>2, <1>3, LoopKeeps DEF ResumeEvict

\* A step that neither binds nor runs a disconnect callback, opens no bound
\* connection and ends none: what relates connections to accounts stays.
LEMMA QuietKeeps ==
  ASSUME SessionsInv, UNCHANGED <<bind, accountId, connected, raced>>,
         \A d \in Clients : /\ Open(d)' => Open(d) \/ accountId[d] = NoAccount
                            /\ Live(d)' => Live(d) \/ accountId[d] = NoAccount
                            /\ (reader'[d] = "done") <=> (reader[d] = "done")
  PROVE  EvictionCovers' /\ OnlineHasClient' /\ OneOpenClientUnlessRaced'
           /\ OfflineOnlyByTeardown'
<1>1. EvictionCovers'
  BY DEF SessionsInv, EvictionCovers, Covered, Bound
<1>2. OnlineHasClient'
  BY DEF SessionsInv, OnlineHasClient, Bound
<1>3. OneOpenClientUnlessRaced'
  BY DEF SessionsInv, OneOpenClientUnlessRaced, Bound
<1>4. OfflineOnlyByTeardown'
  BY DEF SessionsInv, OfflineOnlyByTeardown, Bound
<1> QED
  BY <1>1, <1>2, <1>3, <1>4

LEMMA AcceptKeeps ==
  ASSUME SessionsInv, NEW c \in Clients, Accept(c) PROVE SessionsInv'
<1>1. SessionsTypeOK' /\ WorkerControl' /\ UnboundUntilClaimed' /\ OpenIsListed'
  <2>1. SessionsTypeOK'
    BY DEF Accept, SessionsInv, SessionsTypeOK, TransportStates, ReaderStates, WorkerStates
  <2>2. WorkerControl'
    BY DEF Accept, SessionsInv, SessionsTypeOK, WorkerControl
  <2>3. UnboundUntilClaimed'
    BY DEF Accept, SessionsInv, SessionsTypeOK, UnboundUntilClaimed
  <2>4. OpenIsListed'
    BY DEF Accept, SessionsInv, SessionsTypeOK, OpenIsListed, Open
  <2> QED
    BY <2>1, <2>2, <2>3, <2>4
<1>2. EvictionCovers' /\ OnlineHasClient' /\ OneOpenClientUnlessRaced'
      /\ OfflineOnlyByTeardown'
  <2>1. accountId[c] = NoAccount /\ reader[c] = "none"
    <3>1. transport[c] = "none"
      BY DEF Accept
    <3>2. accountId[c] = NoAccount
      BY <3>1 DEF SessionsInv, UnboundUntilClaimed
    <3>3. reader[c] = "none"
      BY <3>1 DEF SessionsInv, SessionsTypeOK
    <3> QED
      BY <3>2, <3>3
  <2>2. ASSUME NEW d \in Clients, d # c
        PROVE  transport'[d] = transport[d] /\ reader'[d] = reader[d]
    BY <2>2 DEF Accept, SessionsInv, SessionsTypeOK
  <2>3. reader'[c] # "done"
    BY DEF Accept, SessionsInv, SessionsTypeOK
  <2>4. UNCHANGED <<bind, accountId, connected, raced>>
    BY DEF Accept
  <2> QED
    BY <2>1, <2>2, <2>3, <2>4, QuietKeeps DEF Open, Live
<1> QED
  BY <1>1, <1>2 DEF SessionsInv

LEMMA ReadHelloKeeps ==
  ASSUME SessionsInv, NEW c \in Clients, NEW a \in Accounts, ReadHello(c, a)
  PROVE SessionsInv'
<1>1. SessionsTypeOK' /\ WorkerControl' /\ UnboundUntilClaimed' /\ OpenIsListed'
  BY DEF ReadHello, SessionsInv, SessionsTypeOK, WorkerControl, UnboundUntilClaimed, OpenIsListed,
          TransportStates, ReaderStates, WorkerStates, Open, Live
<1>2. EvictionCovers' /\ OnlineHasClient' /\ OneOpenClientUnlessRaced'
      /\ OfflineOnlyByTeardown'
  BY QuietKeeps DEF ReadHello, Open, Live, SessionsInv, SessionsTypeOK, UnboundUntilClaimed
<1> QED
  BY <1>1, <1>2 DEF SessionsInv

LEMMA FinishBindKeeps ==
  ASSUME SessionsInv, NEW c \in Clients, FinishBind(c)
  PROVE SessionsInv'
<1>1. SessionsTypeOK' /\ WorkerControl' /\ UnboundUntilClaimed' /\ OpenIsListed'
  BY DEF FinishBind, SessionsInv, SessionsTypeOK, WorkerControl, UnboundUntilClaimed, OpenIsListed,
          TransportStates, ReaderStates, WorkerStates, Open, Live
<1>2. EvictionCovers' /\ OnlineHasClient' /\ OneOpenClientUnlessRaced'
      /\ OfflineOnlyByTeardown'
  BY QuietKeeps DEF FinishBind, Open, Live, SessionsInv, SessionsTypeOK, UnboundUntilClaimed
<1> QED
  BY <1>1, <1>2 DEF SessionsInv

LEMMA PeerFinKeeps ==
  ASSUME SessionsInv, NEW c \in Clients, PeerFin(c) PROVE SessionsInv'
<1>1. SessionsTypeOK' /\ WorkerControl' /\ UnboundUntilClaimed' /\ OpenIsListed'
  BY DEF PeerFin, SessionsInv, SessionsTypeOK, WorkerControl, UnboundUntilClaimed, OpenIsListed,
          TransportStates, ReaderStates, WorkerStates, Open, Live
<1>2. EvictionCovers' /\ OnlineHasClient' /\ OneOpenClientUnlessRaced'
      /\ OfflineOnlyByTeardown'
  BY QuietKeeps DEF PeerFin, Open, Live, SessionsInv, SessionsTypeOK, UnboundUntilClaimed
<1> QED
  BY <1>1, <1>2 DEF SessionsInv

LEMMA PeerLostKeeps ==
  ASSUME SessionsInv, NEW c \in Clients, PeerLost(c) PROVE SessionsInv'
<1>1. SessionsTypeOK' /\ WorkerControl' /\ UnboundUntilClaimed' /\ OpenIsListed'
  BY DEF PeerLost, SessionsInv, SessionsTypeOK, WorkerControl, UnboundUntilClaimed, OpenIsListed,
          TransportStates, ReaderStates, WorkerStates, Open, Live
<1>2. EvictionCovers' /\ OnlineHasClient' /\ OneOpenClientUnlessRaced'
      /\ OfflineOnlyByTeardown'
  BY QuietKeeps DEF PeerLost, Open, Live, SessionsInv, SessionsTypeOK, UnboundUntilClaimed
<1> QED
  BY <1>1, <1>2 DEF SessionsInv

LEMMA ConnectionLostKeeps ==
  ASSUME SessionsInv, NEW c \in Clients, ConnectionLost(c)
  PROVE SessionsInv'
<1>1. SessionsTypeOK' /\ WorkerControl' /\ UnboundUntilClaimed' /\ OpenIsListed'
  BY DEF ConnectionLost, SessionsInv, SessionsTypeOK, WorkerControl, UnboundUntilClaimed,
       OpenIsListed,
          TransportStates, ReaderStates, WorkerStates, Open, Live
<1>2. EvictionCovers' /\ OnlineHasClient' /\ OneOpenClientUnlessRaced'
      /\ OfflineOnlyByTeardown'
  BY QuietKeeps DEF ConnectionLost, Open, Live, SessionsInv, SessionsTypeOK, UnboundUntilClaimed
<1> QED
  BY <1>1, <1>2 DEF SessionsInv

LEMMA StopReadingKeeps ==
  ASSUME SessionsInv, NEW c \in Clients, StopReading(c)
  PROVE SessionsInv'
<1>1. SessionsTypeOK' /\ WorkerControl' /\ UnboundUntilClaimed' /\ OpenIsListed'
  <2>1. SessionsTypeOK'
    BY DEF StopReading, SessionsInv, SessionsTypeOK, ReaderStates, WorkerStates
  <2>2. WorkerControl' /\ UnboundUntilClaimed' /\ OpenIsListed'
    BY DEF StopReading, SessionsInv, SessionsTypeOK, WorkerControl, UnboundUntilClaimed,
         OpenIsListed, Open
  <2> QED
    BY <2>1, <2>2
<1>2. EvictionCovers' /\ OnlineHasClient' /\ OneOpenClientUnlessRaced'
      /\ OfflineOnlyByTeardown'
  BY QuietKeeps DEF StopReading, Open, Live, SessionsInv, SessionsTypeOK, UnboundUntilClaimed
<1> QED
  BY <1>1, <1>2 DEF SessionsInv

LEMMA WorkerCancelledKeeps ==
  ASSUME SessionsInv, NEW c \in Clients, WorkerCancelled(c)
  PROVE  SessionsInv'
<1>1. bind' \in [Clients -> BindCalls]
  BY NoBindType DEF WorkerCancelled, SessionsInv, SessionsTypeOK
<1>2. SessionsTypeOK'
  BY <1>1 DEF WorkerCancelled, SessionsInv, SessionsTypeOK, WorkerStates
<1>3. EvictionCovers'
  BY DEF WorkerCancelled, SessionsInv, SessionsTypeOK, EvictionCovers, Covered, Bound, Open,
       NoBind
<1> QED
  BY <1>2, <1>3 DEF WorkerCancelled, SessionsInv, SessionsTypeOK, WorkerControl, UnboundUntilClaimed,
     OpenIsListed, OnlineHasClient, OneOpenClientUnlessRaced, OfflineOnlyByTeardown,
     Open, Live, Bound

\* The disconnect callback of a connection that is lost.
LEMMA TeardownKeeps ==
  ASSUME SessionsInv, NEW c \in Clients, transport[c] = "lost",
         reader[c] # "none", worker[c] \notin {"idle", "evicting", "loading"},
         reader' = [reader EXCEPT ![c] = "done"], connected' = Offline(c),
         clients' \in {clients, clients \ {c}},
         UNCHANGED <<transport, worker, hello, greeted, bind, accountId, raced>>
  PROVE  SessionsInv'
<1>1. SessionsTypeOK' /\ WorkerControl' /\ UnboundUntilClaimed' /\ OpenIsListed'
  BY DEF Offline, SessionsInv, SessionsTypeOK, WorkerControl, UnboundUntilClaimed, OpenIsListed,
       ReaderStates, Open
<1>2. EvictionCovers' /\ OneOpenClientUnlessRaced'
  BY DEF SessionsInv, EvictionCovers, Covered, OneOpenClientUnlessRaced, Bound, Open
<1>3. OnlineHasClient'
  BY DEF Offline, SessionsInv, SessionsTypeOK, OnlineHasClient, Bound
<1>4. OfflineOnlyByTeardown'
  BY DEF Offline, SessionsInv, SessionsTypeOK, OfflineOnlyByTeardown, Live, Bound
<1> QED
  BY <1>1, <1>2, <1>3, <1>4 DEF SessionsInv

LEMMA ForgottenKeeps ==
  ASSUME SessionsInv, NEW c \in Clients, ForgetClient(c)
  PROVE  SessionsInv'
<1>1. CASE transport[c] = "lost"
  BY <1>1, TeardownKeeps DEF ForgetClient
<1>2. CASE transport[c] # "lost"
  <2>1. SessionsTypeOK' /\ WorkerControl' /\ UnboundUntilClaimed' /\ OpenIsListed'
    BY <1>2 DEF ForgetClient, SessionsInv, SessionsTypeOK, WorkerControl, UnboundUntilClaimed, OpenIsListed,
       TransportStates, ReaderStates, Open
  <2>2. EvictionCovers' /\ OnlineHasClient' /\ OneOpenClientUnlessRaced'
        /\ OfflineOnlyByTeardown'
    BY <1>2, QuietKeeps DEF ForgetClient, Open, Live, SessionsInv, SessionsTypeOK
  <2> QED
    BY <2>1, <2>2 DEF SessionsInv
<1> QED
  BY <1>1, <1>2

LEMMA DisconnectedKeeps ==
  ASSUME SessionsInv, NEW c \in Clients, Disconnected(c)
  PROVE  SessionsInv'
  BY TeardownKeeps DEF Disconnected, SessionsInv, WorkerControl

LEMMA SessionsStutter ==
  ASSUME SessionsInv, UNCHANGED sessionsVars
  PROVE  SessionsInv'
  BY QuietKeeps DEF sessionsVars, SessionsInv, SessionsTypeOK, WorkerControl, UnboundUntilClaimed,
       OpenIsListed, Open, Live

-----------------------------------------------------------------------------
LEMMA SessionsStep ==
  SessionsInv /\ [SessionsNext]_(sessionsVars) => SessionsInv'
<1> SUFFICES ASSUME SessionsInv, [SessionsNext]_(sessionsVars) PROVE SessionsInv'
  OBVIOUS
<1>1. ASSUME NEW c \in Clients, SessionsSteps(c) PROVE SessionsInv'
  BY <1>1, HandleHelloKeeps, ResumeEvictKeeps, FinishBindKeeps, ConnectionLostKeeps,
       StopReadingKeeps,
     WorkerCancelledKeeps, ForgottenKeeps, DisconnectedKeeps DEF SessionsSteps, EndRead
<1>2. CASE SessionsNext
  BY <1>1, <1>2, AcceptKeeps, ReadHelloKeeps, PeerFinKeeps, PeerLostKeeps, StopReadingKeeps DEF
       SessionsNext, BadLine
<1>3. CASE UNCHANGED sessionsVars
  BY <1>3, SessionsStutter
<1> QED
  BY <1>2, <1>3

\* The strengthening holds in every reachable state.
THEOREM SessionsInvariant ==
  SessionsSpec => []SessionsInv
  BY SessionsStart, SessionsStep, PTL DEF SessionsSpec

\* Type correctness, and that a connection has its two tasks or none.
THEOREM SessionsTypes ==
  SessionsSpec => []SessionsTypeOK
  BY SessionsInvariant, PTL DEF SessionsInv

\* No account stays online after the disconnect callback of its last connection
\* (SessionManager.bind against SocketServer._handle_client's teardown).
THEOREM OnlineIsBacked ==
  SessionsSpec => []OnlineHasClient
  BY SessionsInvariant, PTL DEF SessionsInv

\* bind closes every older open connection of the account, except one whose own
\* bind overlapped with it.
THEOREM LaterHelloWins ==
  SessionsSpec => []OneOpenClientUnlessRaced
  BY SessionsInvariant, PTL DEF SessionsInv

\* A live session is offline only through the teardown of another connection of
\* its account (on_client_disconnect looks at the account alone).
THEOREM OfflineHasCause ==
  SessionsSpec => []OfflineOnlyByTeardown
  BY SessionsInvariant, PTL DEF SessionsInv

-----------------------------------------------------------------------------
(* CloseRounds: why a call that reports success has left nothing it        *)
(* matched open.  A ticket that is open and was once in the store is in    *)
(* every later state of the store and in every snapshot on its way         *)
(* (tickets are not used twice), so the next pass over the store meets it  *)
(* again, or reads it on the other side of the filter.                     *)

USE CloseAssumption

\* A ticket that is open goes from the store to every snapshot on its way, and from
\* a snapshot to the later ones.
Forward ==
  /\ \A i \in 1 .. Len(inflight) : store \cap book \subseteq inflight[i]
  /\ \A i, k \in 1 .. Len(inflight) : i <= k => inflight[i] \cap book \subseteq inflight[k]

\* Tickets the pass has still to ask for, or that it failed to close, or passed over.
Unsettled(r) ==
  CASE r.pc = "next" -> r.todo \cup r.failed \cup r.turned
    [] r.pc = "reply" -> r.todo \cup r.failed \cup {r.ticket} \cup r.turned
    [] r.pc = "last" -> r.failed \cup r.turned
    [] r.pc = "ok" -> r.turned
    [] OTHER -> r.seen

\* What holds of call c in the state r.
CallIsRight(c, r) ==
  /\ r.seen \subseteq Wanted(c) \ unborn
  /\ r.seen \cap book \subseteq store \cap Unsettled(r)
  /\ Filter(c) = "all" => r.turned = {}
  /\ r.todo \subseteq r.seen \ r.closed
  /\ r.closed \subseteq r.seen /\ r.closed \cap book = {}
  /\ IsFiniteSet(r.closed) /\ r.count = Cardinality(r.closed)
  /\ r.pc = "sleep" => r.round < MaxRounds - 1
  /\ r.pc = "reply" => /\ r.ticket \in r.seen \ (r.todo \cup r.closed)
                       /\ r.reply = "ok" => r.ticket \notin book

CInv == CloseTypeOK /\ Forward /\ \A c \in Closers : CallIsRight(c, call[c])

LEMMA NewCallIsRight ==
  ASSUME NEW c \in Closers
  PROVE  NewCall \in Calls /\ CallIsRight(c, NewCall)
  BY FS_EmptySet DEF NewCall, Calls, CallIsRight, Unsettled

LEMMA CloseStarts ==
  CloseInit => CInv
<1> SUFFICES ASSUME CloseInit PROVE CInv
  OBVIOUS
<1>1. Len(inflight) = 0 /\ inflight \in Seq(SUBSET (Tickets \ unborn))
  BY EmptySeq DEF CloseInit
<1>2. Forward
  BY <1>1 DEF Forward
<1>3. \A c \in Closers : call[c] = NewCall
  BY DEF CloseInit
<1>4. call \in [Closers -> Calls]
  BY <1>3, NewCallIsRight DEF CloseInit
<1>5. CloseTypeOK
  BY <1>1, <1>4 DEF CloseInit, CloseTypeOK
<1> QED
  BY <1>2, <1>3, <1>5, NewCallIsRight DEF CInv

\* What the others do to the tickets leaves right what was right of a call: tickets
\* open only if they never were, and the store loses none that is open.
LEMMA WorldKeeps ==
  ASSUME NEW c \in Closers, NEW r, CallIsRight(c, r),
         unborn' \subseteq unborn, book' \subseteq book \cup unborn,
         store \cap book \subseteq store'
  PROVE  CallIsRight(c, r)'
<1>1. Unsettled(r)' = Unsettled(r)
  BY DEF Unsettled
<1> HIDE DEF Unsettled
<1>2. r.seen \cap book' \subseteq r.seen \cap book
  BY DEF CallIsRight
<1>3. r.closed \cap book' = {} /\ (r.ticket \in r.seen /\ r.ticket \notin book => r.ticket \notin book')
  BY <1>2 DEF CallIsRight
<1> QED
  BY <1>1, <1>2, <1>3 DEF CallIsRight

LEMMA WorldKeepsCalls ==
  ASSUME CInv, unborn' \subseteq unborn, book' \subseteq book \cup unborn,
         store \cap book \subseteq store', UNCHANGED call
  PROVE  \A c \in Closers : CallIsRight(c, call[c])'
<1> SUFFICES ASSUME NEW c \in Closers PROVE CallIsRight(c, call[c])'
  OBVIOUS
<1>1. PICK r : r = call[c]
  OBVIOUS
<1>2. CallIsRight(c, r)'
  BY <1>1, WorldKeeps DEF CInv
<1> QED
  BY <1>1, <1>2

\* A step of a call that leaves the tickets alone.
LEMMA StepKeeps ==
  ASSUME CInv, NEW c \in Closers, NEW x \in Calls,
         call' = [call EXCEPT ![c] = x],
         CallIsRight(c, x), UNCHANGED <<unborn, book, inflight, store, gaining>>,
         late' \subseteq Tickets \ unborn
  PROVE  CInv'
<1>1. CloseTypeOK'
  BY DEF CInv, CloseTypeOK
<1>2. Forward'
  BY DEF CInv, Forward
<1>3. ASSUME NEW d \in Closers PROVE CallIsRight(d, call[d])'
  <2>1. PICK r : r = call'[d]
    OBVIOUS
  <2>2. CallIsRight(d, r)
    BY <2>1 DEF CInv, CloseTypeOK
  <2>3. CallIsRight(d, r)'
    BY <2>2, WorldKeeps
  <2> QED
    BY <2>1, <2>3
<1> QED
  BY <1>1, <1>2, <1>3 DEF CInv

LEMMA StartKeeps ==
  ASSUME CInv, NEW c \in Closers, Start(c)
  PROVE  CInv'
<1>1. PICK x : x = [call[c] EXCEPT !.pc = "refresh"]
  OBVIOUS
<1>2. call[c] \in Calls /\ CallIsRight(c, call[c]) /\ late \subseteq Tickets \ unborn
  BY DEF CInv, CloseTypeOK
<1>3. x \in Calls /\ CallIsRight(c, x)
  BY <1>1, <1>2 DEF Calls, CallIsRight, Unsettled
<1>4. call' = [call EXCEPT ![c] = x]
  BY <1>1 DEF Start
<1> QED
  BY <1>2, <1>3, <1>4, StepKeeps DEF Start, Keep

\* Without a filter every ticket matches.
LEMMA AllMatch ==
  ASSUME NEW c \in Closers, Filter(c) = "all"
  PROVE  Matching(c) = store \cap Wanted(c)
<1>1. \A t : Passes(c, t)
  BY DEF Passes
<1> QED
  BY <1>1 DEF Matching

\* The pass finds in the store every ticket it has seen before and that is open, and
\* tries it or passes over it.
LEMMA AfterRefreshKeeps ==
  ASSUME CInv, NEW c \in Closers, AfterRefresh(c)
  PROVE  CInv'
<1> DEFINE T == ToClose(c)
           M == Matching(c)
<1>1. PICK r : r = call[c]
  OBVIOUS
<1>2. PICK x : x = [r EXCEPT !.pc = IF T = {} THEN "last" ELSE "next", !.todo = T,
                             !.failed = {}, !.seen = @ \cup T,
                             !.turned = (r.seen \cap store) \ M]
  OBVIOUS
<1>3. r \in Calls /\ CallIsRight(c, r) /\ r.pc = "refresh"
      /\ late \subseteq Tickets \ unborn /\ store \subseteq Tickets \ unborn
  BY <1>1 DEF CInv, CloseTypeOK, AfterRefresh
<1>4. /\ T = M \ r.closed /\ M \subseteq store \cap Wanted(c)
      /\ Filter(c) = "all" => M = store \cap Wanted(c)
  BY <1>1, AllMatch DEF ToClose, Matching
<1> HIDE DEF T, M
<1>5. /\ x \in Calls
      /\ x.pc = IF T = {} THEN "last" ELSE "next"
      /\ x.todo = T /\ x.failed = {} /\ x.seen = r.seen \cup T
      /\ x.turned = (r.seen \cap store) \ M
      /\ x.closed = r.closed /\ x.count = r.count
  BY <1>2, <1>3, <1>4 DEF Calls
<1>6. x.seen \cap book \subseteq T \cup x.turned /\ T \subseteq store /\ x.turned \subseteq store
  BY <1>3, <1>4, <1>5 DEF CallIsRight
<1>7. Unsettled(x) = T \cup x.turned
  BY <1>5 DEF Unsettled
<1>8. Filter(c) = "all" => x.turned = {}
  BY <1>3, <1>4, <1>5 DEF CallIsRight
<1>9. CallIsRight(c, x)
  BY <1>3, <1>4, <1>5, <1>6, <1>7, <1>8 DEF CallIsRight
<1>10. call' = [call EXCEPT ![c] = x]
  BY <1>1, <1>2 DEF AfterRefresh, T, M
<1> QED
  BY <1>3, <1>5, <1>9, <1>10, StepKeeps DEF AfterRefresh, Keep

LEMMA RefreshRaisesKeeps ==
  ASSUME CInv, NEW c \in Closers, RefreshRaises(c)
  PROVE  CInv'
<1>1. PICK r : r = call[c]
  OBVIOUS
<1>2. PICK x : x = [r EXCEPT !.pc = "raised"]
  OBVIOUS
<1>3. r \in Calls /\ CallIsRight(c, r) /\ r.pc = "refresh" /\ late \subseteq Tickets \ unborn
  BY <1>1 DEF CInv, CloseTypeOK, RefreshRaises
<1>4. x \in Calls /\ CallIsRight(c, x)
  BY <1>2, <1>3 DEF Calls, CallIsRight, Unsettled
<1>5. call' = [call EXCEPT ![c] = x]
  BY <1>1, <1>2 DEF RefreshRaises
<1> QED
  BY <1>3, <1>4, <1>5, StepKeeps DEF RefreshRaises, Keep

LEMMA AskKeeps ==
  ASSUME CInv, NEW c \in Closers, Ask(c)
  PROVE  CInv'
<1>1. PICK r : r = call[c]
  OBVIOUS
<1>2. PICK t \in r.todo : call' = [call EXCEPT ![c].pc = "reply", ![c].ticket = t,
                                               ![c].reply = "none", ![c].todo = @ \ {t}]
  BY <1>1 DEF Ask
<1>3. PICK x : x = [r EXCEPT !.pc = "reply", !.ticket = t, !.reply = "none", !.todo = @ \ {t}]
  OBVIOUS
<1>4. r \in Calls /\ CallIsRight(c, r) /\ r.pc = "next" /\ late \subseteq Tickets \ unborn
  BY <1>1 DEF CInv, CloseTypeOK, Ask
<1>5. /\ x \in Calls
      /\ x.pc = "reply" /\ x.ticket = t /\ x.reply = "none" /\ x.todo = r.todo \ {t}
      /\ x.failed = r.failed /\ x.seen = r.seen /\ x.closed = r.closed /\ x.count = r.count
      /\ x.turned = r.turned
  BY <1>2, <1>3, <1>4 DEF Calls
<1>6. /\ Unsettled(x) = r.todo \cup r.failed \cup r.turned
      /\ Unsettled(r) = r.todo \cup r.failed \cup r.turned
  BY <1>2, <1>4, <1>5 DEF Unsettled
<1>7. CallIsRight(c, x)
  BY <1>2, <1>4, <1>5, <1>6 DEF CallIsRight
<1>8. call' = [call EXCEPT ![c] = x]
  BY <1>1, <1>2, <1>3
<1> QED
  BY <1>4, <1>5, <1>7, <1>8, StepKeeps DEF Ask, Keep

LEMMA AfterAnswerShape ==
  ASSUME CInv, NEW c \in Closers
  PROVE  /\ AfterAnswer(c) \in {"next", "sleep", "last"}
         /\ AfterAnswer(c) # "next" => call[c].todo = {}
         /\ AfterAnswer(c) = "sleep" => call[c].round < MaxRounds - 1
  BY DEF AfterAnswer

LEMMA ClosedKeeps ==
  ASSUME CInv, NEW c \in Closers, Closed(c)
  PROVE  CInv'
<1> DEFINE to == AfterAnswer(c)
<1>1. PICK r : r = call[c]
  OBVIOUS
<1>2. PICK x : x = [r EXCEPT !.pc = to, !.closed = @ \cup {r.ticket}, !.count = @ + 1,
                             !.ticket = NoTicket, !.reply = "none"]
  OBVIOUS
<1>3. r \in Calls /\ CallIsRight(c, r) /\ r.pc = "reply" /\ r.reply = "ok"
      /\ late \subseteq Tickets \ unborn
  BY <1>1 DEF CInv, CloseTypeOK, Closed
<1>4. /\ to \in {"next", "sleep", "last"} /\ (to # "next" => r.todo = {})
      /\ (to = "sleep" => r.round < MaxRounds - 1)
  BY <1>1, AfterAnswerShape
<1> HIDE DEF to
<1>5. r.ticket \in r.seen \ (r.todo \cup r.closed) /\ r.ticket \notin book
      /\ r.seen \subseteq Tickets
  BY <1>3 DEF CallIsRight, Calls
<1>6. /\ x \in Calls
      /\ x.pc = to /\ x.closed = r.closed \cup {r.ticket} /\ x.count = r.count + 1
      /\ x.todo = r.todo /\ x.failed = r.failed /\ x.seen = r.seen /\ x.round = r.round
      /\ x.turned = r.turned
  <2> DEFINE z == r.closed \cup {r.ticket}
             n == r.count + 1
  <2>1. z \in SUBSET Tickets /\ n \in Nat
    BY <1>3, <1>5 DEF Calls
  <2>2. x = [r EXCEPT !.pc = to, !.closed = z, !.count = n, !.ticket = NoTicket,
                    !.reply = "none"]
    BY <1>2
  <2> HIDE DEF z, n
  <2>3. /\ x \in Calls
        /\ x.pc = to /\ x.closed = z /\ x.count = n
        /\ x.todo = r.todo /\ x.failed = r.failed /\ x.seen = r.seen /\ x.round = r.round
        /\ x.turned = r.turned
    BY <1>3, <1>4, <2>1, <2>2 DEF Calls
  <2> QED
    BY <2>3 DEF z, n
<1>7. IsFiniteSet(x.closed) /\ x.count = Cardinality(x.closed)
  <2>1. PICK z : z = r.closed
    OBVIOUS
  <2>2. IsFiniteSet(z) /\ r.count = Cardinality(z) /\ r.ticket \notin z
    BY <1>3, <1>5, <2>1 DEF CallIsRight
  <2>3. IsFiniteSet(z \cup {r.ticket}) /\ Cardinality(z \cup {r.ticket}) = Cardinality(z) + 1
    BY <2>2, FS_AddElement
  <2> QED
    BY <1>6, <2>1, <2>2, <2>3
<1>8. r.seen \cap book \subseteq r.todo \cup r.failed \cup r.turned
  BY <1>3, <1>5 DEF CallIsRight, Unsettled
<1>9. x.seen \cap book \subseteq Unsettled(x)
  BY <1>4, <1>6, <1>8 DEF Unsettled
<1>10. CallIsRight(c, x)
  BY <1>3, <1>4, <1>5, <1>6, <1>7, <1>9 DEF CallIsRight
<1>11. call' = [call EXCEPT ![c] = x]
  BY <1>1, <1>2 DEF Closed, to
<1> QED
  BY <1>3, <1>6, <1>10, <1>11, StepKeeps DEF Closed, Keep

LEMMA NotClosedKeeps ==
  ASSUME CInv, NEW c \in Closers, NotClosed(c)
  PROVE  CInv'
<1> DEFINE to == AfterAnswer(c)
<1>1. PICK r : r = call[c]
  OBVIOUS
<1>2. PICK x : x = [r EXCEPT !.pc = to, !.failed = @ \cup {r.ticket}, !.ticket = NoTicket,
                             !.reply = "none"]
  OBVIOUS
<1>3. r \in Calls /\ CallIsRight(c, r) /\ r.pc = "reply" /\ late \subseteq Tickets \ unborn
  BY <1>1 DEF CInv, CloseTypeOK, NotClosed
<1>4. /\ to \in {"next", "sleep", "last"} /\ (to # "next" => r.todo = {})
      /\ (to = "sleep" => r.round < MaxRounds - 1)
  BY <1>1, AfterAnswerShape
<1> HIDE DEF to
<1>5. r.ticket \in r.seen /\ r.seen \subseteq Tickets \ unborn
  BY <1>3 DEF CallIsRight, Calls
<1>6. /\ x \in Calls
      /\ x.pc = to /\ x.failed = r.failed \cup {r.ticket} /\ x.count = r.count
      /\ x.todo = r.todo /\ x.closed = r.closed /\ x.seen = r.seen /\ x.round = r.round
      /\ x.turned = r.turned
  BY <1>2, <1>3, <1>4, <1>5 DEF Calls
<1>7. r.seen \cap book \subseteq r.todo \cup r.failed \cup {r.ticket} \cup r.turned
  BY <1>3 DEF CallIsRight, Unsettled
<1>8. x.seen \cap book \subseteq Unsettled(x)
  BY <1>4, <1>6, <1>7 DEF Unsettled
<1>9. CallIsRight(c, x)
  BY <1>3, <1>4, <1>6, <1>8 DEF CallIsRight
<1>10. call' = [call EXCEPT ![c] = x]
  BY <1>1, <1>2 DEF NotClosed, to
<1>11. UNCHANGED <<unborn, book, inflight, store, gaining>> /\ late' \subseteq Tickets \ unborn
  BY <1>1, <1>3, <1>5 DEF NotClosed
<1> QED
  BY <1>6, <1>9, <1>10, <1>11, StepKeeps

LEMMA NextRoundKeeps ==
  ASSUME CInv, NEW c \in Closers, NextRound(c)
  PROVE  CInv'
<1>1. PICK r : r = call[c]
  OBVIOUS
<1>2. PICK x : x = [r EXCEPT !.pc = "refresh", !.round = @ + 1]
  OBVIOUS
<1>3. r \in Calls /\ CallIsRight(c, r) /\ r.pc = "sleep" /\ late \subseteq Tickets \ unborn
  BY <1>1 DEF CInv, CloseTypeOK, NextRound
<1>4. r.round + 1 \in 0 .. MaxRounds - 1
  BY <1>3 DEF CallIsRight, Calls
<1>5. x \in Calls /\ CallIsRight(c, x)
  BY <1>2, <1>3, <1>4 DEF Calls, CallIsRight, Unsettled
<1>6. call' = [call EXCEPT ![c] = x]
  BY <1>1, <1>2 DEF NextRound
<1> QED
  BY <1>3, <1>5, <1>6, StepKeeps DEF NextRound, Keep

\* No failure of the last pass that found something: nothing it saw is open, but for what
\* it passed over.
LEMMA ReturnKeeps ==
  ASSUME CInv, NEW c \in Closers, Return(c)
  PROVE  CInv'
<1>1. PICK r : r = call[c]
  OBVIOUS
<1>2. PICK x : x = [r EXCEPT !.pc = IF r.failed = {} THEN "ok" ELSE "failed"]
  OBVIOUS
<1>3. r \in Calls /\ CallIsRight(c, r) /\ r.pc = "last" /\ late \subseteq Tickets \ unborn
  BY <1>1 DEF CInv, CloseTypeOK, Return
<1>4. x \in Calls /\ CallIsRight(c, x)
  BY <1>2, <1>3 DEF Calls, CallIsRight, Unsettled
<1>5. call' = [call EXCEPT ![c] = x]
  BY <1>1, <1>2 DEF Return, Outcome
<1> QED
  BY <1>3, <1>4, <1>5, StepKeeps DEF Return, Keep

-----------------------------------------------------------------------------
\* Snapshots on their way: one more of the present tickets, or one less.
LEMMA AppendKeepsForward ==
  ASSUME CInv, UNCHANGED <<unborn, store>>, book' \subseteq book,
         inflight' = Append(inflight, book')
  PROVE  Forward' /\ inflight' \in Seq(SUBSET (Tickets \ unborn))
<1> DEFINE Snaps == SUBSET (Tickets \ unborn)
           n == Len(inflight)
<1>1. inflight \in Seq(Snaps) /\ book' \in Snaps /\ n \in Nat
  BY DEF CInv, CloseTypeOK
<1> HIDE DEF Snaps
<1>2. /\ inflight' \in Seq(Snaps)
      /\ Len(inflight') = n + 1
      /\ \A i \in 1 .. n : inflight'[i] = inflight[i]
      /\ inflight'[n + 1] = book'
  BY <1>1, AppendProperties
<1>3. Forward
  BY DEF CInv
<1> HIDE DEF n
<1>4. \A i \in 1 .. n + 1 : i \in 1 .. n \/ i = n + 1
  BY <1>1
<1>5. ASSUME NEW i \in 1 .. n + 1 PROVE store \cap book' \subseteq inflight'[i]
  BY <1>2, <1>3, <1>4 DEF Forward, n
<1>6. ASSUME NEW i \in 1 .. n + 1, NEW k \in 1 .. n + 1, i <= k
      PROVE  inflight'[i] \cap book' \subseteq inflight'[k]
  <2>1. CASE k = n + 1
    BY <1>2, <2>1
  <2>2. CASE k # n + 1
    <3>1. i \in 1 .. n /\ k \in 1 .. n
      BY <1>1, <1>6, <2>2
    <3> QED
      BY <1>2, <1>3, <1>6, <3>1 DEF Forward, n
  <2> QED
    BY <2>1, <2>2
<1> QED
  BY <1>2, <1>5, <1>6 DEF Forward, Snaps

LEMMA SendSnapshotKeeps ==
  ASSUME CInv, SendSnapshot
  PROVE  CInv'
<1> DEFINE Snaps == SUBSET (Tickets \ unborn)
<1>1. inflight' = <<book>> /\ UNCHANGED <<unborn, book, store, gaining, late, call>>
  BY DEF SendSnapshot, Snapshots!Take
<1>2. book \in Snaps
  BY DEF CInv, CloseTypeOK
<1>3. inflight' \in Seq(Snaps) /\ Len(inflight') = 1 /\ inflight'[1] = book
  BY <1>1, <1>2
<1>4. Forward'
  BY <1>1, <1>3 DEF Forward
<1>5. CloseTypeOK'
  BY <1>1, <1>3 DEF CInv, CloseTypeOK
<1>6. \A c \in Closers : CallIsRight(c, call[c])'
  BY <1>1, WorldKeepsCalls
<1> QED
  BY <1>4, <1>5, <1>6 DEF CInv

LEMMA HandleSnapshotKeeps ==
  ASSUME CInv, HandleSnapshot
  PROVE  CInv'
<1> DEFINE Snaps == SUBSET (Tickets \ unborn)
           n == Len(inflight)
<1>1. /\ inflight # <<>> /\ store' = Head(inflight) /\ inflight' = Tail(inflight)
      /\ UNCHANGED <<unborn, book, late, call>>
      /\ gaining' \subseteq store'
  BY DEF HandleSnapshot, Snapshots!Arrive
<1>2. inflight \in Seq(Snaps) /\ n \in Nat
  BY DEF CInv, CloseTypeOK
<1> HIDE DEF Snaps
<1>3. /\ Head(inflight) = inflight[1] /\ n >= 1
      /\ Head(inflight) \in Snaps /\ Tail(inflight) \in Seq(Snaps)
      /\ Len(Tail(inflight)) = n - 1
      /\ \A i \in 1 .. Len(Tail(inflight)) : Tail(inflight)[i] = inflight[i + 1]
  BY <1>1, <1>2, HeadTailProperties, EmptySeq
<1>4. /\ store' = inflight[1] /\ Len(inflight') = n - 1
      /\ \A i \in 1 .. n - 1 : inflight'[i] = inflight[i + 1]
  BY <1>1, <1>3
<1>5. Forward
  BY DEF CInv
<1> HIDE DEF n
<1>6. \A i \in 1 .. n - 1 : i + 1 \in 1 .. n /\ 1 <= i + 1
  BY <1>2, <1>3
<1>7. 1 \in 1 .. n
  BY <1>2, <1>3
<1>8. Forward'
  <2>1. \A i \in 1 .. n - 1 : inflight[1] \cap book \subseteq inflight[i + 1]
    BY <1>5, <1>6, <1>7 DEF Forward, n
  <2>2. \A i, k \in 1 .. n - 1 : i <= k => inflight[i + 1] \cap book \subseteq inflight[k + 1]
    <3>1. \A i, k \in 1 .. n - 1 : i <= k => i + 1 <= k + 1
      BY <1>2
    <3> QED
      BY <1>5, <1>6, <3>1 DEF Forward, n
  <2>3. \A i \in 1 .. n - 1 : store' \cap book' \subseteq inflight'[i]
    BY <1>1, <1>4, <2>1
  <2>4. \A i, k \in 1 .. n - 1 : i <= k => inflight'[i] \cap book' \subseteq inflight'[k]
    BY <1>1, <1>4, <2>2
  <2> QED
    BY <1>4, <2>3, <2>4 DEF Forward
<1>9. CloseTypeOK'
  BY <1>1, <1>3 DEF CInv, CloseTypeOK, Snaps
<1>10. store \cap book \subseteq store'
  BY <1>4, <1>5, <1>7 DEF Forward, n
<1>11. \A c \in Closers : CallIsRight(c, call[c])'
  BY <1>1, <1>10, WorldKeepsCalls
<1> QED
  BY <1>8, <1>9, <1>11 DEF CInv

LEMMA EACloseKeeps ==
  ASSUME CInv, NEW c \in Closers, EAClose(c)
  PROVE  CInv'
<1>1. PICK r : r = call[c]
  OBVIOUS
<1>2. r \in Calls /\ CallIsRight(c, r) /\ r.pc = "reply"
  BY <1>1 DEF CInv, CloseTypeOK, EAClose
<1>3. PICK a \in {"ok", "refused"} : /\ call' = [call EXCEPT ![c].reply = a]
                                     /\ a = "ok" => book' = book \ {r.ticket}
  BY <1>1 DEF EAClose
<1>4. /\ book' \subseteq book /\ inflight' = Append(inflight, book')
      /\ UNCHANGED <<unborn, store, gaining, late>>
  BY DEF EAClose
<1>5. Forward' /\ inflight' \in Seq(SUBSET (Tickets \ unborn))
  BY <1>4, AppendKeepsForward
<1>6. PICK x : x = [r EXCEPT !.reply = a]
  OBVIOUS
<1>7. /\ x \in Calls /\ x.reply = a /\ x.pc = "reply" /\ x.ticket = r.ticket
      /\ x.todo = r.todo /\ x.failed = r.failed /\ x.seen = r.seen /\ x.closed = r.closed
      /\ x.count = r.count /\ x.turned = r.turned
  BY <1>2, <1>3, <1>6 DEF Calls
<1>8. call' = [call EXCEPT ![c] = x]
  BY <1>1, <1>3, <1>6
<1>9. CloseTypeOK'
  BY <1>4, <1>5, <1>7, <1>8 DEF CInv, CloseTypeOK
<1>10. CallIsRight(c, x)'
  <2>1. CallIsRight(c, r)'
    BY <1>2, <1>4, WorldKeeps
  <2>2. Unsettled(x)' = Unsettled(r)'
    BY <1>2, <1>7 DEF Unsettled
  <2>3. x.reply = "ok" => x.ticket \notin book'
    BY <1>3, <1>7
  <2> QED
    BY <1>2, <1>7, <2>1, <2>2, <2>3 DEF CallIsRight
<1>11. ASSUME NEW d \in Closers PROVE CallIsRight(d, call[d])'
  <2>1. PICK y : y = call'[d]
    OBVIOUS
  <2>2. CASE d = c
    BY <1>8, <1>10, <2>2 DEF CInv, CloseTypeOK
  <2>3. CASE d # c
    <3>1. CallIsRight(d, y)
      BY <1>8, <2>1, <2>3 DEF CInv, CloseTypeOK
    <3>2. CallIsRight(d, y)'
      BY <1>4, <3>1, WorldKeeps
    <3> QED
      BY <2>1, <3>2
  <2> QED
    BY <2>2, <2>3
<1> QED
  BY <1>5, <1>9, <1>11 DEF CInv

LEMMA EACloseLateKeeps ==
  ASSUME CInv, NEW t \in Tickets, EACloseLate(t)
  PROVE  CInv'
<1>1. UNCHANGED <<unborn, store, gaining, call>> /\ late' \subseteq late /\ book' \subseteq book
  BY DEF EACloseLate
<1>2. Forward' /\ inflight' \in Seq(SUBSET (Tickets \ unborn))
  <2>1. CASE UNCHANGED <<book, inflight>>
    BY <1>1, <2>1 DEF CInv, CloseTypeOK, Forward
  <2>2. CASE inflight' = Append(inflight, book')
    BY <1>1, <2>2, AppendKeepsForward
  <2> QED
    BY <2>1, <2>2 DEF EACloseLate
<1>3. CloseTypeOK'
  BY <1>1, <1>2 DEF CInv, CloseTypeOK
<1>4. \A c \in Closers : CallIsRight(c, call[c])'
  BY <1>1, WorldKeepsCalls
<1> QED
  BY <1>2, <1>3, <1>4 DEF CInv

LEMMA OpenKeeps ==
  ASSUME CInv, NEW t \in Tickets, MarketOpen(t)
  PROVE  CInv'
<1>1. /\ t \in unborn /\ unborn' = unborn \ {t} /\ book' = book \cup {t}
      /\ UNCHANGED <<inflight, store, gaining, late, call>>
  BY DEF MarketOpen
<1>2. inflight \in Seq(SUBSET (Tickets \ unborn)) /\ t \notin store
  BY <1>1 DEF CInv, CloseTypeOK
<1>3. \A i \in 1 .. Len(inflight) : t \notin inflight[i]
  <2>1. \A i \in 1 .. Len(inflight) : inflight[i] \in SUBSET (Tickets \ unborn)
    BY <1>2, ElementOfSeq
  <2> QED
    BY <1>1, <2>1
<1>4. Forward'
  BY <1>1, <1>2, <1>3 DEF CInv, Forward
<1>5. CloseTypeOK'
  <2>1. inflight' \in Seq(SUBSET (Tickets \ unborn'))
    <3>1. SUBSET (Tickets \ unborn) \subseteq SUBSET (Tickets \ unborn')
      BY <1>1
    <3> QED
      BY <1>1, <1>2, <3>1, SeqMonotonic
  <2> QED
    BY <1>1, <2>1 DEF CInv, CloseTypeOK
<1>6. \A c \in Closers : CallIsRight(c, call[c])'
  BY <1>1, WorldKeepsCalls
<1> QED
  BY <1>4, <1>5, <1>6 DEF CInv

LEMMA MarketCloseKeeps ==
  ASSUME CInv, NEW t \in Tickets, MarketClose(t)
  PROVE  CInv'
<1>1. book' \subseteq book /\ UNCHANGED <<unborn, inflight, store, gaining, late, call>>
  BY DEF MarketClose
<1>2. Forward' /\ CloseTypeOK'
  BY <1>1 DEF CInv, Forward, CloseTypeOK
<1>3. \A c \in Closers : CallIsRight(c, call[c])'
  BY <1>1, WorldKeepsCalls
<1> QED
  BY <1>2, <1>3 DEF CInv

LEMMA LoseSnapshotsKeeps ==
  ASSUME CInv, LoseSnapshots
  PROVE  CInv'
<1>1. inflight' = <<>> /\ UNCHANGED <<unborn, book, store, gaining, late, call>>
  BY DEF LoseSnapshots, Snapshots!Lose
<1>2. Len(inflight') = 0 /\ inflight' \in Seq(SUBSET (Tickets \ unborn))
  BY <1>1, EmptySeq
<1>3. Forward'
  BY <1>2 DEF Forward
<1>4. CloseTypeOK'
  BY <1>1, <1>2 DEF CInv, CloseTypeOK
<1>5. \A c \in Closers : CallIsRight(c, call[c])'
  BY <1>1, WorldKeepsCalls
<1> QED
  BY <1>3, <1>4, <1>5 DEF CInv

LEMMA CloseInvariant ==
  CloseSpec => []CInv
<1>1. CInv /\ [CloseNext]_(closeVars) => CInv'
  <2> SUFFICES ASSUME CInv, [CloseNext]_(closeVars) PROVE CInv'
    OBVIOUS
  <2>1. CASE UNCHANGED closeVars
    <3>1. \A c \in Closers : CallIsRight(c, call[c])'
      BY <2>1, WorldKeepsCalls DEF closeVars
    <3> QED
      BY <2>1, <3>1 DEF closeVars, CInv, CloseTypeOK, Forward
  <2>2. ASSUME NEW c \in Closers, Start(c) \/ Steps(c) \/ EAClose(c) PROVE CInv'
    BY <2>2, StartKeeps, AfterRefreshKeeps, RefreshRaisesKeeps, AskKeeps, ClosedKeeps, NotClosedKeeps,
       NextRoundKeeps, ReturnKeeps, EACloseKeeps DEF Steps
  <2>3. ASSUME NEW t \in Tickets, EACloseLate(t) \/ MarketOpen(t) \/ MarketClose(t) PROVE CInv'
    BY <2>3, EACloseLateKeeps, OpenKeeps, MarketCloseKeeps
  <2> QED
    BY <2>1, <2>2, <2>3, SendSnapshotKeeps, HandleSnapshotKeeps, LoseSnapshotsKeeps
       DEF CloseNext
<1> QED
  BY <1>1, CloseStarts, PTL DEF CloseSpec

\* The books of close_matching: a ticket in closed_tickets is not open, and
\* total_closed counts tickets.
THEOREM BooksAreRight ==
  CloseSpec => []Consistent
<1>1. CInv => Consistent
  BY DEF CInv, CallIsRight, Consistent, ClosedMeansGone, EachTicketCountsOnce
<1> QED
  BY <1>1, CloseInvariant, PTL

\* "ok" of close_matching means that no ticket any of its passes matched is open,
\* however late the store was, whoever else closed, whatever timed out; with a filter, but for
\* tickets that its last pass read on the other side of zero.
THEOREM OkIsTrue ==
  CloseSpec => []OkMeansMatchedGone
<1>1. CInv => OkMeansMatchedGone
  BY DEF CInv, CallIsRight, Unsettled, OkMeansMatchedGone
<1> QED
  BY <1>1, CloseInvariant, PTL

-----------------------------------------------------------------------------
(* CloseRounds on SnapshotChannel *)

LEMMA SnapshotsInit == CloseInit => Snapshots!Init
  BY DEF CloseInit, Snapshots!Init

\* The EA sends a snapshot after a close that it tried, and now and then.
LEMMA SendingIsTaking ==
  ASSUME CInv, \/ \E c \in Closers : EAClose(c)
               \/ \E t \in Tickets : EACloseLate(t)
               \/ SendSnapshot
  PROVE  [Snapshots!Next]_(Snapshots!vars)
<1>1. book \in SUBSET Tickets
  BY DEF CInv, CloseTypeOK
<1>2. CASE SendSnapshot
  BY <1>1, <1>2 DEF SendSnapshot, Snapshots!Next
<1>3. CASE \/ \E c \in Closers : EAClose(c)
           \/ \E t \in Tickets : EACloseLate(t)
  <2>1. book' \subseteq book /\ UNCHANGED store
    BY <1>3 DEF EAClose, EACloseLate
  <2>2. CASE inflight' = Append(inflight, book')
    <3>1. book' \in SUBSET Tickets /\ Snapshots!Take(book')
      BY <1>1, <2>1, <2>2 DEF Snapshots!Take
    <3> QED
      BY <3>1 DEF Snapshots!Next
  <2>3. CASE UNCHANGED <<book, inflight>>
    BY <2>1, <2>3 DEF Snapshots!vars
  <2> QED
    BY <1>3, <2>2, <2>3 DEF EAClose, EACloseLate
<1> QED
  BY <1>2, <1>3

LEMMA MarketIsChange ==
  ASSUME CInv, NEW t \in Tickets, MarketOpen(t) \/ MarketClose(t)
  PROVE  Snapshots!Next
<1>1. book' \in SUBSET Tickets
  BY DEF MarketOpen, MarketClose, CInv, CloseTypeOK
<1>2. Snapshots!Change(book')
  BY DEF MarketOpen, MarketClose, Snapshots!Change
<1> QED
  BY <1>1, <1>2 DEF Snapshots!Next

\* The channel does not see the calls.
LEMMA CallsAreHidden ==
  ASSUME \/ \E c \in Closers : Start(c) \/ Steps(c)
         \/ UNCHANGED closeVars
  PROVE  UNCHANGED Snapshots!vars
  BY DEF Start, Steps, AfterRefresh, RefreshRaises, Ask, Closed, NotClosed, NextRound, Return, Keep,
         closeVars, Snapshots!vars

LEMMA SnapshotsStep == CInv /\ [CloseNext]_(closeVars) => [Snapshots!Next]_(Snapshots!vars)
<1> SUFFICES ASSUME CInv, [CloseNext]_(closeVars) PROVE [Snapshots!Next]_(Snapshots!vars)
  OBVIOUS
<1>1. CASE \/ \E c \in Closers : EAClose(c)
           \/ \E t \in Tickets : EACloseLate(t)
           \/ SendSnapshot
  BY <1>1, SendingIsTaking
<1>2. CASE \E t \in Tickets : MarketOpen(t) \/ MarketClose(t)
  BY <1>2, MarketIsChange
<1>3. CASE HandleSnapshot \/ LoseSnapshots
  BY <1>3 DEF HandleSnapshot, LoseSnapshots, Snapshots!Next
<1>4. CASE \/ \E c \in Closers : Start(c) \/ Steps(c)
           \/ UNCHANGED closeVars
  BY <1>4, CallsAreHidden
<1> QED
  BY <1>1, <1>2, <1>3, <1>4 DEF CloseNext

\* close_matching reads a store fed as SnapshotChannel says: what SnapshotFlow is proved to
\* implement is what CloseRounds assumes of the way of a snapshot.
THEOREM ClosesReadTheChannel == CloseSpec => StoreIsFed
  BY SnapshotsInit, SnapshotsStep, CloseInvariant, PTL DEF CloseSpec, StoreIsFed, Snapshots!Spec
=============================================================================
