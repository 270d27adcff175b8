------------------------------ MODULE Entries ------------------------------
(***************************************************************************)
(* The EntryManager of one account (src/python/entry_manager.py): evaluate *)
(* decides, symbol by symbol, whether to send a market order.  It is       *)
(* called by the connection's worker on every tick and by the one-second   *)
(* supervisor, so evaluations overlap: they pass a first round of checks,  *)
(* queue for the symbol's lock, check again, and then await the bars, the  *)
(* trend filter and the order, with the state they checked out of sight.   *)
(*                                                                         *)
(* Time enters as two flags per symbol, "the cooldown runs" and "the       *)
(* back-off runs", which may end at any moment.  The checks of evaluate    *)
(* that only look at configuration, session flag, spread and clock are an  *)
(* evaluation that does not happen.  What an entry waits for is numbered,  *)
(* and "bar" is the last one that came: the closed bars that indicators    *)
(* and model are computed on, the dates on which the schedule is due, the  *)
(* intervals that have elapsed, or the times the price went through the    *)
(* trigger.                                                                *)
(*                                                                         *)
(* An order is a call of RemoteCalls: its timeout says nothing about the   *)
(* account, and the store shows the account late (SnapshotFlow).           *)
(***************************************************************************)
EXTENDS Naturals, Sequences, SequencesExt, FiniteSets, Functions

CONSTANTS
  Symbols,     \* symbol_list()
  Tasks,       \* callers of evaluate
  Cancellable, \* those that run in a connection's worker
  OnlyIfFlat,  \* config.only_if_flat
  MaxOpen,     \* config.max_open_positions
  MaxPerDay,   \* config.max_entries_per_day
  MaxBook,     \* bound: positions per symbol the broker accepts
  Modes,       \* values of config.trigger_mode; "bars" stands for the three
               \* that ask indicators or model, "price" for the two of a price
  MaxBar,      \* bound: how many bars close
  None

ASSUME EntriesAssumption ==
  /\ IsFiniteSet(Symbols) /\ IsFiniteSet(Tasks)
  /\ Cancellable \subseteq Tasks
  /\ OnlyIfFlat \in BOOLEAN
  /\ MaxOpen \in Nat
  /\ MaxPerDay \in Nat \ {0}
  /\ MaxBook \in Nat
  /\ Modes \subseteq {"bars", "schedule", "interval", "price"}
  /\ MaxBar \in Nat \ {0}
  /\ None \notin Nat
  /\ None \notin Symbols /\ None \notin Tasks

VARIABLES
  queue,      \* _SymState.lock: its holder, then who waits, in order
  task,       \* the local state of each caller
  acting,     \* _SymState.acting
  inflight,   \* EntryManager._inflight
  cooling,    \* now - last_entry_ts < cooldown_seconds
  backoff,    \* now < fail_until
  enteredBar, \* _SymState.entered_bar_ts
  entries,    \* _entries_today
  newDay,     \* the date is not _entries_day any more
  mode,       \* config.trigger_mode
  bar,        \* the bar, date, interval or crossing that came last
  seen,       \* bars: the newest one the symbol's signals were computed on;
              \* schedule_fired_date; the one before which last_entry_ts was
              \* set; the one before which last_ask was set
  book,       \* positions open on the account, by symbol
  snap,       \* the snapshot on its way
  store,      \* PositionStore._positions
  late,       \* orders nobody waits for any more, still with the EA
  spent,      \* history: what was entered on, or perhaps (bars: since the last
              \* reset)
  overtaken   \* history: evaluations during which the back-off or a reset began

manager == <<acting, inflight, cooling, backoff, enteredBar, entries, newDay>>
account == <<book, snap, store, late>>
bars == <<mode, bar, seen>>
vars == <<queue, task, manager, bars, account, spent, overtaken>>

-----------------------------------------------------------------------------
\* pc: the await of evaluate the task is in; bar: what it enters on (bar_ts);
\* reply: what open_order will return.
States == [pc : {"idle", "lock", "signal", "trend", "order", "notify"},
           sym : Symbols \cup {None}, bar : 1 .. MaxBar \cup {None},
           reply : {"none", "ok", "refused"}]
Idle == [pc |-> "idle", sym |-> None, bar |-> None, reply |-> "none"]

In(t, pcs) == task[t].pc \in pcs

\* mutant: there is no lock, whoever asked goes on.
HoldsNothing(t, s) == task[t].sym = s /\ Contains(queue[s], t)

\* The lock is the task's: it is the first of those who asked.
Holds(t, s) == task[t].sym = s /\ queue[s] # <<>> /\ Head(queue[s]) = t

Total(positions) == FoldFunction(LAMBDA p, q : p + q, 0, positions)

Init ==
  /\ queue = [s \in Symbols |-> <<>>]
  /\ task = [t \in Tasks |-> Idle]
  /\ acting = [s \in Symbols |-> FALSE]
  /\ inflight = 0
  /\ cooling = [s \in Symbols |-> FALSE]
  /\ backoff = [s \in Symbols |-> FALSE]
  /\ enteredBar = [s \in Symbols |-> None]
  /\ entries = 0
  /\ newDay = TRUE
  /\ mode \in Modes
  /\ bar = 1
  /\ seen = [s \in Symbols |-> IF mode = "bars" THEN 1 ELSE None]
  /\ book = [s \in Symbols |-> 0]
  /\ snap = book
  /\ store = book
  /\ late = {}
  /\ spent = [s \in Symbols |-> {}]
  /\ overtaken = {}

-----------------------------------------------------------------------------
(* evaluate *)

\* The entries of today as _guards_ok sees them: a new date starts from zero.
Today == IF newDay THEN 0 ELSE entries

\* The first half of _guards_ok: the positions of the store and the orders in
\* flight leave room.
RoomFor(s) ==
  /\ ~(OnlyIfFlat /\ store[s] > 0)
  /\ Total(store) + inflight < MaxOpen

GuardsOk(s) == RoomFor(s) /\ Today < MaxPerDay

\* _guards_ok starts the counter of a new day, if it gets as far as that.
RollDay(reached) ==
  /\ entries' = IF reached THEN Today ELSE entries
  /\ newDay' = (newDay /\ ~reached)

\* last_ask and last_bid are replaced.  The evaluation keeps what was there, and
\* with it the crossing since then, if the price is still past the trigger.  The
\* price is always the newest: an older tick of an evicted worker, which may set
\* it back, is left out.
Crossed(s) == {None} \cup (IF mode = "price" /\ seen[s] \notin {None, bar} THEN {bar} ELSE {})
PriceSeen(s) == seen' = IF mode = "price" THEN [seen EXCEPT ![s] = bar] ELSE seen

\* The first round of checks: when all pass, the task queues for the lock.  The
\* price counts as seen whether the guards pass or not.
Begin(t, s) ==
  /\ In(t, {"idle"})
  /\ ~acting[s] /\ ~backoff[s] /\ ~cooling[s]
  /\ RollDay(RoomFor(s))
  /\ PriceSeen(s)
  /\ IF GuardsOk(s)
       THEN /\ \E b \in Crossed(s) :
                 task' = [task EXCEPT ![t] = [Idle EXCEPT !.pc = "lock", !.sym = s, !.bar = b]]
            /\ queue' = [queue EXCEPT ![s] = Append(@, t)]
       ELSE UNCHANGED <<task, queue>>
  /\ UNCHANGED <<acting, inflight, cooling, backoff, enteredBar, mode, bar, account, spent,
                 overtaken>>

\* A task leaves the queue, from whatever place it has in it.
Without(q, t) == RemoveAt(q, CHOOSE i \in DOMAIN q : q[i] = t)

\* evaluate ends: the lock goes to the next in the queue.
Leave(t) ==
  /\ task' = [task EXCEPT ![t] = Idle]
  /\ queue' = [queue EXCEPT ![task[t].sym] = Without(@, t)]
  /\ overtaken' = overtaken \ {t}

\* mutant: the second round trusts the cooldown of the first.
FreshNoCooldown(s) == ~acting[s]

\* The second round of checks, under the lock; fail_until is not among them.
Fresh(s) == ~acting[s] /\ ~cooling[s]

\* The evaluation goes on to the next await, for what it enters on.
GoOn(t, pc, b) ==
  /\ task' = [task EXCEPT ![t].pc = pc, ![t].bar = b]
  /\ UNCHANGED <<queue, overtaken>>

\* What schedule, interval and price wait for has come.  The date counts as fired
\* before the order is sent; an interval is over until the next entry.
Fires(s, b) ==
  \/ mode = "schedule" /\ seen[s] # bar /\ seen' = [seen EXCEPT ![s] = bar]
  \/ mode = "interval" /\ seen[s] \notin {None, bar} /\ UNCHANGED seen
  \/ mode = "price" /\ b # None /\ UNCHANGED seen

\* It has not: the interval is running, or it is too early in the day.
Waits(s, b) ==
  \/ mode = "schedule"
  \/ mode = "interval" /\ seen[s] = bar
  \/ mode = "price" /\ b = None

\* The first evaluation starts the interval, and with it the cooldown.
Arms(s) ==
  /\ mode = "interval" /\ seen[s] = None
  /\ seen' = [seen EXCEPT ![s] = bar]
  /\ cooling' = [cooling EXCEPT ![s] = TRUE]

\* The lock is acquired and the checks are made again; then indicators and model
\* await their bars, and the other triggers are looked at without an await.
Enter(t) ==
  /\ In(t, {"lock"})
  /\ LET s == task[t].sym
         b == task[t].bar
         pass == Fresh(s) /\ GuardsOk(s) IN
       /\ Holds(t, s)
       /\ RollDay(Fresh(s) /\ RoomFor(s))
       /\ \/ pass /\ mode = "bars" /\ GoOn(t, "signal", None) /\ UNCHANGED <<seen, cooling>>
          \/ pass /\ Fires(s, b) /\ UNCHANGED cooling
             /\ GoOn(t, "trend", IF mode = "price" THEN b ELSE bar)
          \/ pass /\ Arms(s) /\ Leave(t)
          \/ (~pass \/ Waits(s, b)) /\ Leave(t) /\ UNCHANGED <<seen, cooling>>
  /\ UNCHANGED <<acting, inflight, backoff, enteredBar, mode, bar, account, spent>>

\* The indicators or the model have been computed on the bars of the cache, which
\* only get newer: no signal, or one of a closed bar.  A bar that was entered on
\* is not entered on again.
Signal(t) ==
  /\ In(t, {"signal"})
  /\ \E b \in seen[task[t].sym] .. bar :
       /\ seen' = [seen EXCEPT ![task[t].sym] = b]
       /\ \/ Leave(t)
          \/ /\ b # enteredBar[task[t].sym]
             /\ GoOn(t, "trend", b)
  /\ UNCHANGED <<manager, mode, bar, account, spent>>

\* The trend filter is against the side.
TrendDenies(t) ==
  /\ In(t, {"trend"})
  /\ Leave(t)
  /\ UNCHANGED <<manager, bars, account, spent>>

\* _execute_entry up to the await of open_order.
Send(t) ==
  /\ In(t, {"trend"})
  /\ acting' = [acting EXCEPT ![task[t].sym] = TRUE]
  /\ inflight' = inflight + 1
  /\ RollDay(TRUE)
  /\ task' = [task EXCEPT ![t].pc = "order"]
  /\ UNCHANGED <<queue, cooling, backoff, enteredBar, bars, account, spent, overtaken>>

\* last_entry_ts is set to this moment: the cooldown and the interval begin.
Restarted(s) ==
  /\ cooling' = [cooling EXCEPT ![s] = TRUE]
  /\ seen' = IF mode = "interval" THEN [seen EXCEPT ![s] = bar] ELSE seen

\* last_entry_ts and entered_bar_ts, set to this moment and this bar.
MarkEntered(t) ==
  /\ Restarted(task[t].sym)
  /\ IF mode = "bars" THEN enteredBar' = [enteredBar EXCEPT ![task[t].sym] = task[t].bar]
     ELSE UNCHANGED enteredBar

\* {"ok": true}: then the notification is awaited, inside the same try.
Accepted(t) ==
  /\ In(t, {"order"})
  /\ task[t].reply = "ok"
  /\ MarkEntered(t)
  /\ entries' = entries + 1
  /\ task' = [task EXCEPT ![t].pc = "notify"]
  /\ spent' = [spent EXCEPT ![task[t].sym] = @ \cup {task[t].bar}]
  /\ UNCHANGED <<queue, acting, inflight, backoff, newDay, mode, bar, account, overtaken>>

\* finally: acting is over, one order less in flight.
Finally(t) ==
  /\ acting' = [acting EXCEPT ![task[t].sym] = FALSE]
  /\ inflight' = IF inflight = 0 THEN 0 ELSE inflight - 1

Notified(t) ==
  /\ In(t, {"notify"})
  /\ Finally(t)
  /\ Leave(t)
  /\ UNCHANGED <<cooling, backoff, enteredBar, entries, newDay, bars, account, spent>>

\* The evaluations of a symbol that are past their first checks, but for t.
Others(s, t) == {u \in Tasks \ {t} : task[u].sym = s}

\* The back-off begins for everyone else who is evaluating the symbol.
BackOff(t) ==
  /\ backoff' = [backoff EXCEPT ![task[t].sym] = TRUE]
  /\ task' = [task EXCEPT ![t] = Idle]
  /\ queue' = [queue EXCEPT ![task[t].sym] = Without(@, t)]
  /\ overtaken' = (overtaken \ {t}) \cup Others(task[t].sym, t)

\* Any other answer but a timeout: the EA refused, or nobody was connected.
Rejected(t) ==
  /\ In(t, {"order"})
  /\ task[t].reply = "refused"
  /\ BackOff(t)
  /\ Finally(t)
  /\ UNCHANGED <<cooling, enteredBar, entries, newDay, bars, account, spent>>

\* A command whose caller has gone stays with the EA.
Abandon(t) ==
  late' = IF task[t].reply = "none" THEN late \cup {task[t].sym} ELSE late

\* mutant: a timeout is treated like a refusal.
TimedOutAsRefused(t) ==
  /\ In(t, {"order"})
  /\ BackOff(t)
  /\ Finally(t)
  /\ Abandon(t)
  /\ spent' = [spent EXCEPT ![task[t].sym] = @ \cup {task[t].bar}]
  /\ UNCHANGED <<cooling, enteredBar, entries, newDay, bars, book, snap, store>>

\* The timeout of open_order: the order may have been filled, so the cooldown
\* and the bar count as after an entry.
TimedOut(t) ==
  /\ In(t, {"order"})
  /\ BackOff(t)
  /\ MarkEntered(t)
  /\ Finally(t)
  /\ Abandon(t)
  /\ spent' = [spent EXCEPT ![task[t].sym] = @ \cup {task[t].bar}]
  /\ UNCHANGED <<entries, newDay, mode, bar, book, snap, store>>

\* mutant: an order that is cancelled leaves its marks behind.
CancelledNoFinally(t) ==
  /\ t \in Cancellable
  /\ ~In(t, {"idle"})
  /\ Leave(t)
  /\ late' = IF In(t, {"order"}) /\ task[t].reply = "none"
               THEN late \cup {task[t].sym} ELSE late
  /\ UNCHANGED <<manager, bars, book, snap, store, spent>>

\* mutant: the lock is not left when the task that holds it is cancelled.
CancelledHoldingLock(t) ==
  /\ t \in Cancellable
  /\ ~In(t, {"idle"})
  /\ task' = [task EXCEPT ![t] = Idle]
  /\ overtaken' = overtaken \ {t}
  /\ IF In(t, {"order", "notify"}) THEN Finally(t) ELSE UNCHANGED <<acting, inflight>>
  /\ IF In(t, {"order"}) THEN Abandon(t) ELSE UNCHANGED late
  /\ UNCHANGED <<queue, cooling, backoff, enteredBar, entries, newDay, bars, book, snap,
                 store, spent>>

\* The worker is cancelled at its await.  The lock is left and the finally of
\* _execute_entry runs, but nothing of the order is recorded.
Cancelled(t) ==
  /\ t \in Cancellable
  /\ ~In(t, {"idle"})
  /\ Leave(t)
  /\ IF In(t, {"order", "notify"}) THEN Finally(t) ELSE UNCHANGED <<acting, inflight>>
  /\ IF In(t, {"order"}) THEN Abandon(t) ELSE UNCHANGED late
  /\ UNCHANGED <<cooling, backoff, enteredBar, entries, newDay, bars, book, snap, store, spent>>

-----------------------------------------------------------------------------
(* Time, and the other managers *)

CooldownOver(s) ==
  /\ cooling[s]
  /\ cooling' = [cooling EXCEPT ![s] = FALSE]
  /\ UNCHANGED <<queue, task, acting, inflight, backoff, enteredBar, entries, newDay, bars,
                 account, spent, overtaken>>

BackoffOver(s) ==
  /\ backoff[s]
  /\ backoff' = [backoff EXCEPT ![s] = FALSE]
  /\ UNCHANGED <<queue, task, acting, inflight, cooling, enteredBar, entries, newDay, bars,
                 account, spent, overtaken>>

Midnight ==
  /\ newDay' = TRUE
  /\ UNCHANGED <<queue, task, acting, inflight, cooling, backoff, enteredBar, entries, bars,
                 account, spent, overtaken>>

BarCloses ==
  /\ bar < MaxBar
  /\ bar' = bar + 1
  /\ UNCHANGED <<queue, task, manager, mode, seen, account, spent, overtaken>>

\* reset_symbol_signal: a basket of the symbol has been closed.
Reset(s) ==
  /\ enteredBar' = [enteredBar EXCEPT ![s] = None]
  /\ Restarted(s)
  /\ spent' = IF mode = "bars" THEN [spent EXCEPT ![s] = {}] ELSE spent
  /\ overtaken' = overtaken \cup Others(s, None)
  /\ UNCHANGED <<queue, task, acting, inflight, backoff, entries, newDay, mode, bar, account>>

-----------------------------------------------------------------------------
(* The EA and the account *)

\* The order is executed, or refused, and the reply reaches the future.
Fill(t) ==
  /\ In(t, {"order"})
  /\ task[t].reply = "none"
  /\ book[task[t].sym] < MaxBook
  /\ book' = [book EXCEPT ![task[t].sym] = @ + 1]
  /\ task' = [task EXCEPT ![t].reply = "ok"]
  /\ UNCHANGED <<queue, manager, bars, snap, store, late, spent, overtaken>>

Refuse(t) ==
  /\ In(t, {"order"})
  /\ task[t].reply = "none"
  /\ task' = [task EXCEPT ![t].reply = "refused"]
  /\ UNCHANGED <<queue, manager, bars, account, spent, overtaken>>

\* An order that nobody waits for is filled, or comes to nothing.
LateFill(s) ==
  /\ s \in late
  /\ late' = late \ {s}
  /\ \/ UNCHANGED book
     \/ book[s] < MaxBook /\ book' = [book EXCEPT ![s] = @ + 1]
  /\ UNCHANGED <<queue, task, manager, bars, snap, store, spent, overtaken>>

\* A position is closed.
Close(s) ==
  /\ book[s] > 0
  /\ book' = [book EXCEPT ![s] = @ - 1]
  /\ UNCHANGED <<queue, task, manager, bars, snap, store, late, spent, overtaken>>

\* A snapshot leaves the EA, and later replaces the store.  (How: SnapshotFlow.)
SendSnapshot ==
  /\ snap' = book
  /\ UNCHANGED <<queue, task, manager, bars, book, store, late, spent, overtaken>>

HandleSnapshot ==
  /\ store' = snap
  /\ UNCHANGED <<queue, task, manager, bars, book, snap, late, spent, overtaken>>

-----------------------------------------------------------------------------
Steps(t) ==
  \/ Enter(t) \/ Signal(t) \/ TrendDenies(t) \/ Send(t)
  \/ Accepted(t) \/ Notified(t) \/ Rejected(t) \/ TimedOut(t)

Next ==
  \/ \E t \in Tasks :
       \/ \E s \in Symbols : Begin(t, s)
       \/ Steps(t) \/ Cancelled(t) \/ Fill(t) \/ Refuse(t)
  \/ \E s \in Symbols :
       CooldownOver(s) \/ BackoffOver(s) \/ Reset(s) \/ LateFill(s) \/ Close(s)
  \/ Midnight \/ BarCloses
  \/ SendSnapshot \/ HandleSnapshot

\* Every await of evaluate has a timer or is served by the loop.
Fairness == \A t \in Tasks : WF_vars(Steps(t))

Spec == Init /\ [][Next]_vars /\ Fairness

-----------------------------------------------------------------------------
TypeOK ==
  /\ queue \in [Symbols -> Seq(Tasks)]
  /\ task \in [Tasks -> States]
  /\ acting \in [Symbols -> BOOLEAN]
  /\ inflight \in 0 .. Cardinality(Tasks)
  /\ cooling \in [Symbols -> BOOLEAN]
  /\ backoff \in [Symbols -> BOOLEAN]
  /\ enteredBar \in [Symbols -> 1 .. MaxBar \cup {None}]
  /\ entries \in Nat
  /\ newDay \in BOOLEAN
  /\ bar \in 1 .. MaxBar
  /\ mode \in Modes
  /\ seen \in [Symbols -> 1 .. bar \cup {None}]
  /\ book \in [Symbols -> 0 .. MaxBook]
  /\ snap \in [Symbols -> 0 .. MaxBook]
  /\ store \in [Symbols -> 0 .. MaxBook]
  /\ late \subseteq Symbols
  /\ spent \in [Symbols -> SUBSET (1 .. MaxBar)]
  /\ overtaken \subseteq {t \in Tasks : ~In(t, {"idle"})}

Ordering(s) == {t \in Tasks : task[t].sym = s /\ In(t, {"order", "notify"})}

\* The marks that block other evaluations tell the truth whatever ends an order:
\* a symbol is acting while exactly one task has an order of it, and _inflight
\* counts the orders.  A mark left behind would stop the symbol for ever.
OrdersAreMarked ==
  /\ \A s \in Symbols : Cardinality(Ordering(s)) = IF acting[s] THEN 1 ELSE 0
  /\ inflight = Cardinality({t \in Tasks : In(t, {"order", "notify"})})

\* The types and the marks: what the other properties rest on.
Consistent == TypeOK /\ OrdersAreMarked

Sends(t) == In(t, {"trend"}) /\ task'[t].pc = "order"

\* What an entry waited for is entered on once, also when the order timed out and
\* may have been filled: no second order goes out for the same bar (until a close
\* resets the symbol), date, interval or crossing.  (An order whose caller was
\* cancelled is forgotten, and not counted here.)
OneEntryPerSignal ==
  [][\A t \in Tasks : Sends(t) => task[t].bar \notin spent[task[t].sym]]_vars

\* An order goes out in the cooldown or the back-off only from an evaluation that
\* was already past its first checks when the back-off or a reset began.
PausesHoldUnlessOvertaken ==
  [][\A t \in Tasks :
       Sends(t) /\ (cooling[task[t].sym] \/ backoff[task[t].sym]) => t \in overtaken]_vars

\* The daily limit is checked before the order is decided and counted after the
\* answer, so symbols can pass it together; each of them at most once, as its lock
\* lets one evaluation through at a time.
DailyOvershootIsBounded ==
  entries <= MaxPerDay + Cardinality(Symbols) - 1

\* Every evaluation returns, whatever the EA does and whoever is cancelled while
\* it waits for the lock.
EvaluationsReturn == \A t \in Tasks : ~In(t, {"idle"}) ~> In(t, {"idle"})

\* entry_manager.py:209: "counted into the max_open_positions guard so two
\* symbols can't both slip past the limit".  The entry manager is the only one
\* here who opens positions.  It does not hold: two symbols pass the guard
\* before either is counted.
LimitIsKept == Total(book) <= MaxOpen
=============================================================================
