---------------------------- MODULE SnapshotFlow ----------------------------
(***************************************************************************)
(* How the server's picture of an account is kept: the EA streams its open *)
(* positions as positions_begin, position..., positions_end (SendPositions-*)
(* Snapshot in src/mql5/Experts/SocketBridgeEA.mq5), the connection's read *)
(* loop queues them, its worker applies them in order to the account's     *)
(* PositionStore (src/python/position_store.py), and refresh_snapshot      *)
(* (src/python/position_close.py) waits for the next positions_end.        *)
(*                                                                         *)
(* The worker can itself be inside a handler that awaits an order_result   *)
(* of the same connection (a grid job or an entry on a tick).  Replies are *)
(* dispatched by the read loop, and the evaluators that refresh run as     *)
(* tasks of their own: the properties say that with these two rules nobody *)
(* waits for a message that is stuck behind himself.                       *)
(*                                                                         *)
(* One connection at a time; the store and the waits outlive it.           *)
(***************************************************************************)
EXTENDS Naturals, Sequences, SequencesExt, FiniteSets

CONSTANTS
  Tickets,
  Waiters,     \* tasks that call refresh_snapshot
  Evaluators,  \* those that are started by the worker's handlers
  Nobody,
  MaxBacklog,  \* bound: a refresh starts with no more than this under way
  MaxLinks     \* bound: how many connections the EA makes

ASSUME FlowAssumption ==
  /\ Evaluators \subseteq Waiters
  /\ Nobody \notin Waiters
  /\ IsFiniteSet(Tickets)
  /\ MaxBacklog \in Nat
  /\ MaxLinks \in Nat \ {0}

VARIABLES
  up,        \* the connection is open
  links,     \* connections made so far
  book,      \* tickets open on the account
  commands,  \* to the EA, in order
  inbox,     \* from the EA: on the wire, and read into the worker's queue
  underway,  \* history: the books of the snapshots that end in inbox, in order
  worker,    \* "idle", or "order" in a handler that awaits its order_result
  pending,   \* PositionStore._pending
  store,     \* PositionStore._positions
  current,   \* whose Event is in _snapshot_wait
  signalled, \* the waiters whose Event is set
  waiter,    \* control point of refresh_snapshot
  shown,     \* history: the book of the burst that was applied last
  replaced   \* history: waiters since whose prepare the store was replaced

vars == <<up, links, book, commands, inbox, underway, worker, pending, store, current,
          signalled, waiter, shown, replaced>>

link == <<up, links>>
waits == <<current, signalled, waiter, replaced>>

\* Messages: the two frames of a snapshot, the position of a ticket, a price, an
\* order_result.  (of: history, the book the burst was made from.)
Message(kind) == [kind |-> kind]
Position(t) == [kind |-> "position", ticket |-> t]
End(b) == [kind |-> "end", of |-> b]
Messages ==
  [kind : {"begin", "tick", "result"}] \cup [kind : {"position"}, ticket : Tickets]
    \cup [kind : {"end"}, of : SUBSET Tickets]

\* What is under way between the EA and the worker.
Backlog == Len(commands) + Len(inbox)

\* A snapshot of the book b as the EA sends it.
Burst(b) ==
  <<Message("begin")>> \o [i \in 1 .. Cardinality(b) |-> Position(SetToSeq(b)[i])] \o <<End(b)>>

Init ==
  /\ up = TRUE
  /\ links = 1
  /\ book \in SUBSET Tickets
  /\ commands = <<>>
  /\ inbox = <<>>
  /\ underway = <<>>
  /\ worker = "idle"
  /\ pending = {}
  /\ store = {}
  /\ current = Nobody
  /\ signalled = {}
  /\ waiter = [w \in Waiters |-> "idle"]
  /\ shown = {}
  /\ replaced = {}

-----------------------------------------------------------------------------
(* The EA *)

\* OnTimer with the socket up: a periodic snapshot, or the price of a watched
\* symbol.  Bound: only with nothing under way (so one order at a time, too).
Stream(burst) ==
  /\ up
  /\ Backlog = 0
  /\ inbox' = inbox \o burst
  /\ UNCHANGED <<link, book, commands, worker, pending, store, waits, shown>>

StreamPositions == Stream(Burst(book)) /\ underway' = Append(underway, book)
StreamPrice == Stream(<<Message("tick")>>) /\ UNCHANGED underway

\* get_positions
AnswerGet ==
  /\ commands # <<>>
  /\ Head(commands) = "get"
  /\ commands' = Tail(commands)
  /\ inbox' = inbox \o Burst(book)
  /\ underway' = Append(underway, book)
  /\ UNCHANGED <<link, book, worker, pending, store, waits, shown>>

\* open_order: refused, or filled; the reply follows, and after a fill a snapshot.
AnswerOrder ==
  /\ commands # <<>>
  /\ Head(commands) = "order"
  /\ commands' = Tail(commands)
  /\ \/ inbox' = Append(inbox, Message("result")) /\ UNCHANGED <<book, underway>>
     \/ \E t \in Tickets \ book :
          /\ book' = book \cup {t}
          /\ inbox' = Append(inbox, Message("result")) \o Burst(book')
          /\ underway' = Append(underway, book')
  /\ UNCHANGED <<link, worker, pending, store, waits, shown>>

\* The account changes by itself: SL, TP, manual trades.
Trade ==
  /\ \E t \in Tickets : book' \in {book \cup {t}, book \ {t}} \ {book}
  /\ UNCHANGED <<link, commands, inbox, underway, worker, pending, store, waits, shown>>

-----------------------------------------------------------------------------
(* The read loop and the worker *)

\* on_immediate
Immediate(m) == m.kind = "result"

\* The read loop comes to a reply, whatever is queued in front of it: its future
\* is resolved, the handler that awaits it goes on and ends.
ReadReply ==
  \E i \in 1 .. Len(inbox) :
    /\ Immediate(inbox[i])
    /\ inbox' = RemoveAt(inbox, i)
    /\ worker' = "idle"
    /\ UNCHANGED <<link, book, commands, underway, pending, store, waits, shown>>

\* mutant: the evaluators are awaited by the handler that starts them.
WorkerFreeInline == worker = "idle" /\ \A w \in Evaluators : waiter[w] # "waiting"

\* The worker can take the next message: no handler is running.
WorkerFree == worker = "idle"

\* mutant: positions_begin does not clear what an earlier burst left behind.
HandlePositionKeeping ==
  /\ WorkerFree
  /\ inbox # <<>>
  /\ LET m == Head(inbox) IN
       \/ m.kind = "begin" /\ UNCHANGED pending
       \/ m.kind = "position" /\ pending' = pending \cup {m.ticket}
  /\ inbox' = Tail(inbox)
  /\ UNCHANGED <<link, book, commands, underway, worker, store, waits, shown>>

\* on_positions_begin and on_position, on the store of the client's account.
HandlePosition ==
  /\ WorkerFree
  /\ inbox # <<>>
  /\ LET m == Head(inbox) IN
       \/ m.kind = "begin" /\ pending' = {}
       \/ m.kind = "position" /\ pending' = pending \cup {m.ticket}
  /\ inbox' = Tail(inbox)
  /\ UNCHANGED <<link, book, commands, underway, worker, store, waits, shown>>

\* mutant: the event is only set when the snapshot brings a change.
WakesIfChanged(b) == IF current = Nobody \/ b = store THEN {} ELSE {current}

\* if self._snapshot_wait is not None: self._snapshot_wait.set()
Wakes(b) == IF current = Nobody THEN {} ELSE {current}

\* mutant: a snapshot only adds positions.
Merged == store \cup pending

\* self._positions = self._pending
Replaced == pending

\* on_positions_end: end_snapshot.  (What follows, notifications and a new
\* evaluator task, changes nothing here: evaluators start at any time, the 1 s
\* supervisor starts them as well.)
HandleEnd ==
  /\ WorkerFree
  /\ inbox # <<>>
  /\ Head(inbox).kind = "end"
  /\ inbox' = Tail(inbox)
  /\ underway' = Tail(underway)
  /\ store' = Replaced
  /\ shown' = Head(inbox).of
  /\ pending' = {}
  /\ signalled' = signalled \cup Wakes(pending)
  /\ replaced' = Waiters
  /\ UNCHANGED <<link, book, commands, worker, current, waiter>>

\* on_tick: a grid job or an entry may send an order and await its result.
HandleTick ==
  /\ WorkerFree
  /\ inbox # <<>>
  /\ Head(inbox).kind = "tick"
  /\ inbox' = Tail(inbox)
  /\ \/ UNCHANGED <<worker, commands>>
     \/ worker' = "order" /\ commands' = Append(commands, "order")
  /\ UNCHANGED <<link, book, underway, pending, store, waits, shown>>

\* The timer of the handler's request.
OrderTimeout ==
  /\ worker = "order"
  /\ worker' = "idle"
  /\ UNCHANGED <<link, book, commands, inbox, underway, pending, store, waits, shown>>

-----------------------------------------------------------------------------
(* refresh_snapshot *)

\* prepare_snapshot_wait: a new Event, which nobody has set.
Renewed(w) == signalled \ {w}

\* prepare_snapshot_wait, then request_positions: the Event replaces the one of
\* any other waiter.  With no connection refresh_snapshot returns at once.
Refresh(w) ==
  /\ up
  /\ Backlog <= MaxBacklog
  /\ waiter[w] = "idle"
  /\ current' = w
  /\ signalled' = Renewed(w)
  /\ replaced' = replaced \ {w}
  /\ waiter' = [waiter EXCEPT ![w] = "waiting"]
  /\ commands' = Append(commands, "get")
  /\ UNCHANGED <<link, book, inbox, underway, worker, pending, store, shown>>

\* The Event is set: refresh_snapshot returns.
Wake(w) ==
  /\ waiter[w] = "waiting"
  /\ w \in signalled
  /\ waiter' = [waiter EXCEPT ![w] = "idle"]
  /\ UNCHANGED <<link, book, commands, inbox, underway, worker, pending, store, current,
                 signalled, shown, replaced>>

\* TimeoutError: logged, and refresh_snapshot returns.
WaitTimeout(w) ==
  /\ waiter[w] = "waiting"
  /\ waiter' = [waiter EXCEPT ![w] = "idle"]
  /\ UNCHANGED <<link, book, commands, inbox, underway, worker, pending, store, current,
                 signalled, shown, replaced>>

-----------------------------------------------------------------------------
(* The connection *)

\* The connection ends: the worker is cancelled in whatever handler it is in,
\* and what was not handled is lost.
Disconnect ==
  /\ up
  /\ up' = FALSE
  /\ commands' = <<>>
  /\ inbox' = <<>>
  /\ underway' = <<>>
  /\ worker' = "idle"
  /\ UNCHANGED <<links, book, pending, store, waits, shown>>

\* The EA is back, with a new client, queue and worker.
Connect ==
  /\ ~up
  /\ links < MaxLinks
  /\ links' = links + 1
  /\ up' = TRUE
  /\ UNCHANGED <<book, commands, inbox, underway, worker, pending, store, waits, shown>>

-----------------------------------------------------------------------------
Handle == HandlePosition \/ HandleEnd \/ HandleTick
Answer == AnswerGet \/ AnswerOrder

Next ==
  \/ StreamPositions \/ StreamPrice \/ Answer \/ Trade
  \/ ReadReply \/ Handle \/ OrderTimeout
  \/ \E w \in Waiters : Refresh(w) \/ Wake(w) \/ WaitTimeout(w)
  \/ Disconnect \/ Connect

\* An EA that is there answers, and its timer sends a snapshot again and again
\* (strong, since the bound on the backlog can disable it).  The loop runs the read loop, the worker and
\* the tasks that were woken.  The timers are NOT fair: the liveness properties
\* ask what happens without their help.
Fairness ==
  /\ WF_vars(Answer)
  /\ SF_vars(StreamPositions)
  /\ WF_vars(ReadReply)
  /\ WF_vars(Handle)
  /\ \A w \in Waiters : WF_vars(Wake(w))

Spec == Init /\ [][Next]_vars /\ Fairness

-----------------------------------------------------------------------------
TypeOK ==
  /\ up \in BOOLEAN
  /\ links \in 1 .. MaxLinks
  /\ book \subseteq Tickets
  /\ commands \in Seq({"get", "order"})
  /\ inbox \in Seq(Messages)
  /\ underway \in Seq(SUBSET Tickets)
  /\ worker \in {"idle", "order"}
  /\ pending \subseteq Tickets
  /\ store \subseteq Tickets
  /\ current \in Waiters \cup {Nobody}
  /\ signalled \subseteq Waiters
  /\ waiter \in [Waiters -> {"idle", "waiting"}]
  /\ shown \subseteq Tickets
  /\ replaced \subseteq Waiters
  /\ ~up => commands = <<>> /\ inbox = <<>> /\ worker = "idle"

\* The store is never a mixture: whatever bursts were cut by a disconnect, it is
\* the whole book that the account had when the EA sent the last one applied.
StoreWasReal == store = shown

\* Nobody is woken by a snapshot from before his own call: an Event that is set
\* was set by a positions_end handled after prepare_snapshot_wait.
WokenAfterPrepare == signalled \subseteq replaced

\* The types and the Events: what the other properties rest on.
Consistent == TypeOK /\ WokenAfterPrepare

\* The other direction: a task that waits and has missed a positions_end had
\* its Event replaced by another task's call.
MissedOnlyIfSuperseded ==
  \A w \in Waiters :
    waiter[w] = "waiting" /\ w \in replaced \ signalled => current # w

\* The task whose Event is in the store is woken by a snapshot without its
\* timer, as long as the connection lasts: neither a worker that awaits an
\* order nor evaluators started by that worker keep the snapshot from it.
SnapshotReachesWaiter ==
  \A w \in Waiters :
    (waiter[w] = "waiting" /\ current = w)
      ~> (waiter[w] = "idle" \/ current # w \/ ~up)

\* A handler that awaits an order_result gets it without its timer: the reply
\* overtakes whatever is queued behind that handler.
WorkerResumes == (worker = "order") ~> (worker = "idle")

\* Neither of the two deadlocks that the server's comments warn of happens.
NobodyIsStuck == SnapshotReachesWaiter /\ WorkerResumes

\* Whatever is cut, and whatever the read loop takes out from in between, the books
\* that the EA took reach the store whole, in order, and one by one.
Channel == INSTANCE SnapshotChannel WITH coming <- underway
ImplementsChannel == Channel!Spec

\* position_store.py:45: "Wait until the next positions_end (or timeout)".
\* Whoever waits when a positions_end is handled has his Event set.
\* It does not hold: a second prepare_snapshot_wait replaces the Event.
NextEndWakes ==
  [][\A w \in Waiters : waiter[w] = "waiting" /\ HandleEnd => w \in signalled']_vars
=============================================================================
