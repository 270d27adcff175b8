# A TLA+ model of the MetaTrader account server

The server under `src/python` keeps one TCP connection per MetaTrader terminal (an
"EA", `src/mql5`), a session per MT account, and a set of managers that open and
close positions by themselves.  All of it runs on one asyncio event loop: nothing
is preempted, but every `await` lets any other task in.  The models here are about
what happens at those awaits, when connections break, replies come late, snapshots
lag behind the account, threads answer out of order, tasks are cancelled and the
process restarts.

An action of a module is the code between two awaits that can really suspend; its
guard comes from the conditions of the code, its primed variables from the
assignments.  `PROJECT.json` maps every definition to the lines it models.

## 1. The system

| Part | State it keeps | Operations | Talks to |
|---|---|---|---|
| TCP server (`socket_server.py`, `protocol.py`) | `_clients` in order of connection; per client a read loop, a queue and a worker | accept, read, dispatch, tear down | sessions (hello, disconnect callback), handlers |
| Sessions (`session_manager.py`) | `sessions`, `connected`, `Client.account_id`, subscribers | `bind`, `on_client_disconnect`, overview broadcast | closes other clients, loads the managers' configuration |
| Handlers (`handlers.py`) | `has_synced_once`, `last_drawdown_tier`, evaluator tasks | one per message type | store, gateways, managers, Telegram |
| Position store (`position_store.py`) | `_positions`, `_pending`, `_snapshot_wait` | begin / add / end, wait, queries | written by handlers, read by everyone |
| Trade gateway (`trade_gateway.py`) | `_pending` futures | send and await, resolve | the account's latest client |
| History gateway (`history_gateway.py`) | futures with a list of bars | fetch, bar, end | as above |
| Close by ticket (`position_close.py`) | only locals | `refresh_snapshot`, `close_matching` | store, gateway; called by four parts |
| Risk manager (`risk_manager.py`) | config, `_acting`, `_evaluating`, trailing peak, date of the timed close, stops it has set | account, symbol and ticket rules, break-even and trailing stops | close by ticket, gateway, entry manager (reset) |
| Position manager (`position_manager.py`) | baskets with step counters, hedge counter | hedge/DCA/grid/pyramid adds, basket close | same |
| Entry manager (`entry_manager.py`) | per symbol lock, cooldown, back-off, streaks; `_inflight`, `_entries_today` | `evaluate`, resets | gateway, history gateway |
| Grid jobs (`grid_jobs.py`) | list of jobs | start, `on_price` | gateway |
| EA (`SocketBridgeEA.mq5`, `Socket.mqh`) | socket, receive buffer, deal counter, the account itself | timer, commands, snapshots, deal sync | the server |
| Closed deals (`SyncClosedDeals`, `on_deal_closed`, `upsert_deal`) | `g_last_history_total`; the table `deals` | count, report, write | EA to worker to `trades.db` and Telegram |
| Configuration, users, links (`account_*.py`, `auth.py`, `db.py`, SQL) | rows in Supabase and SQLite | CRUD, link / unlink | web, managers |
| Web API (`web.py`) and pages | the model a page was opened with | 46 routes | all of the above |
| Telegram (`telegram_commands.py`, `telegram_notify.py`) | update offsets; a queue, a lock and the times of the last sends | poll, notify, reply | sessions, gateway, close by ticket |
| Signals, ML, back-test (`indicators.py`, `ml_entry.py`, `backtest.py`) | none of their own | pure functions | entry manager, web |

How they meet: the EA's messages enter through the read loop.  Replies
(`order_result`, bars) are dispatched there at once, everything else goes to the
connection's worker, one message at a time.  Handlers write the store and start
evaluators; one-second supervisors start them too, as do web routes and Telegram
commands.  Whoever trades calls a gateway, which writes to the newest client of
the account and waits for a future.

What is hard, and where: see `hazards` in `PROJECT.json`, each with its line.  In short,

* connections: two connections of one account at once, a teardown that ends after
  its successor was bound, a worker cancelled in the middle of a handler;
* requests: timer against reply, replies lost, tasks cancelled while they wait;
* snapshots: bursts cut by a disconnect, several waiters on one Event, a worker
  that waits for what it has itself to deliver;
* deals: counted before they are sent, sent again by every new start of the EA, and
  never acknowledged;
* closing: decisions on a store that is behind the account, concurrent closers;
* entries, baskets, grids: checks made before an await and used after it, counters
  in memory against tickets on the account, signals that must be used once;
* risk: a peak and a date that outlive what they were about, stops computed from
  what was read before an await;
* configuration: threads that overlap, writes and reloads of which only one
  succeeds, a permission that is gone when it is used;
* Telegram: an offset that does not survive the process, rates kept by sleeping.

## 2. The modules

`MCx` extends module `x` for TLC (MCSnapshotFlow also Deals; MCOrders is Signals, Entries
and GridJobs in one state space); `xProofs` extends it with theorems.  Three proof modules
extend more than one: ServerProofs is about TradeGateway, Sessions and CloseRounds,
SnapshotFlowProofs about SnapshotFlow and Deals, EntriesProofs about Entries and Signals,
which is why their names are kept apart (`SessionsInit`, `CloseInit`, `DealsInit`,
`SignalsInit`, `GridInit`).  The modules share their seams: an order anywhere is a call of RemoteCalls (done, refused, or
unknown and perhaps executed later), a store follows the account through a
SnapshotChannel, which SnapshotFlow implements and CloseRounds is built on, a close inside
Risk is what CloseRounds returns.  TelegramCommands contains TelegramNotify.

### Sessions
`_handle_client`, the worker, `bind` and the teardown, for connections numbered in
the order of `_clients`.  `transport` is what the server's socket is, `reader` and
`worker` are the control points of the two tasks.  `HandleHello`, `ResumeEvict` and
`FinishBind` are the pieces of `bind` between its awaits; `ForgetClient` and
`Disconnected` those of the `finally` of `_handle_client`; `WorkerCancelled` ends
whatever handler the worker is in.  Connections end by FIN, by reset, by eviction
or because a line does not parse (`BadLine`).  `raced` is a history variable: the
pairs of connections whose `bind` calls overlapped.

* `OneOpenClientUnlessRaced`: what is true of the docstring "only ever one live
  client per account".  Two `bind`s that overlap can both win, since each works on
  its own copy of the client list and awaits in the loop.
* `OfflineOnlyByTeardown`: a live bound connection is shown offline only by the
  teardown of another connection of the account.
* `EveryoneIsServed`: every ended connection leaves `_clients` with its callbacks
  run, and every hello is answered or its connection torn down.

### RemoteCalls and TradeGateway
`RemoteCalls` is the abstract promise to a caller: at most one effect, at most one
answer; "done" and "refused" are true, "not sent" means never, "unknown" says
nothing.  `TradeGateway` is `_send` and `resolve` with the future, `_pending`, the
timer, cancellation, a connection that can be broken before the server knows, and
the EA that executes commands in order.  `ImplementsCalls` is the refinement;
`ExecutedOnce` and `CallsReturn` say that an id is executed once and every call
returns with no answer from the EA.  The timer of the code starts behind the `drain` of
the command, which ends when the peer reads, its buffers have room, or the connection is
lost: with full buffers and a connection that neither moves nor breaks a call waits for
TCP to give up, and the model, whose timer runs from the send on, does not show how long.
Timers may win over a result that is already set, as `asyncio.wait_for` does since
Python 3.12.

### CloseRounds
`close_matching` with its rounds, called several times at once, over an account
(`book`) that changes by itself and a store that follows through snapshots on their
way (`inflight`): `Snapshots` is a SnapshotChannel, and `SendSnapshot`, `HandleSnapshot` and
`LoseSnapshots` are its steps.  A close that timed out can be executed later (`late`).
`StoreIsFed` says that nothing else feeds the store; it is proved.

* `Consistent`: the types; a ticket counted as closed is gone, and is counted once.
* `OkMeansMatchedGone`: without a filter, "ok" means that no ticket the call ever matched
  is open, although an empty round clears the failures and trusts a store that may be old.
  It holds because a snapshot without a ticket that was once shown proves it gone.  With a
  filter for winners or losers a ticket also drops out by changing sign: what is then left
  open was on the other side of zero when the last pass read the store (`turned`, history).
* `FailedIsRetried` is what the docstring says of those, and is violated
  (`filtered_close`).
* `CloseReturns`: also with a dead EA.

The profit of a ticket is the side of zero on which the snapshot in the store shows it
(`gaining`), chosen anew with every snapshot.  `RefreshRaises` is the exception of a lost
connection under `request_positions`, which ends the call.  Left out: a terminal whose list
changes while it sends one snapshot.

### SnapshotChannel and SnapshotFlow
`SnapshotChannel` is what the users of a store may count on: the store is one whole
snapshot, snapshots replace it in the order in which they were taken, and all that are
on their way may be lost at once.  `SnapshotFlow` is how: EA, wire, queue, worker, store, Event.  `inbox` is wire and
queue in one sequence; `ReadReply` takes an `order_result` from anywhere in it, the
ordered handlers only from its head and only while the worker is free.  `waiter`
and `signalled` are the calls of `refresh_snapshot` and the Events they wait on.

* `StoreWasReal`: the store is always exactly one snapshot that the EA sent, however
  bursts were cut.
* `ImplementsChannel`: the refinement.  `underway` is the history it needs: the books of
  the snapshots whose `positions_end` is in `inbox`, in order.
* `MissedOnlyIfSuperseded` and the second part of `Consistent`: who is woken by
  which `positions_end`.
* `NobodyIsStuck`: the two deadlocks that the comments of `handlers.py:44-60` and
  `socket_server.py:59-66` describe do not happen; checked with every timer switched
  off, which could otherwise hide them.

### Deals
The closing deals of an account (`deals`) on their way to `trades.db`.  `SyncClosedDeals`
takes the new ones and counts them; `SendClosedDeal` reports them one by one, with the
totals of their position at that moment, on a connection that may be broken already;
`OnDealClosed` is the worker's handler.  A total is modelled by the number of deals it
adds up, which orders what is written over a row.  `FreshEA` is a new start of the EA,
`CutWire` whatever ends a connection with reports on their way.  `run`, `notices`, `lost`
and `before` are history variables.

* `NoDealIsForgotten`: a deal that was counted is in the row of its position, or in a
  report on its way, or still to be sent, unless the last report of the position vanished.
* `RowsNeverFall`: a row never goes back to fewer deals, whatever is sent again.
* `AnnouncedOncePerRun`: a deal is announced once by each start of the EA at most.

### Entries
`EntryManager.evaluate` for overlapping callers: the first checks (`Begin`), the
symbol's FIFO lock (`queue`), the second checks (`Enter`), the awaits of the signal
and the trend filter, the order and its `finally`.  Cooldown and back-off are flags
that may end at any time.  The trigger is one of four kinds: a closed bar for the
indicators and the model, the date of a schedule, an interval since the last entry,
or a price that crosses a level.  Whatever a symbol may enter on is numbered by
`bar`, which `BarCloses` advances; `seen` is what the code remembers of it
(`schedule_fired_date`, `last_entry_ts`, `last_ask`/`last_bid`, the bar of the signal),
and each trigger consumes it where the code does: the price when it is seen, before
the limits and the lock; the date before the trend filter; the interval and the bar
with the answer.  Checks that only look at configuration, clock or spread are
evaluations that do not happen.

* `Consistent`: the types, and `acting` and `_inflight` are exact whatever ends an
  order.
* `OneEntryPerSignal`: no second order for one bar, date, interval or crossing, also
  after a timeout; `spent` is the history it needs.  An order whose worker was
  cancelled is not recorded by the code and not counted here.
* `PausesHoldUnlessOvertaken`: cooldown and back-off hold, except for evaluations
  already under way when a back-off or a reset began (the second checks do not look
  at `fail_until`, and nothing looks again after the awaits).
* `DailyOvershootIsBounded`: the daily limit is exceeded at most by one entry per
  further symbol.  The overshoot takes two symbols, and `orders` has two.
* `LimitIsKept`: the comment about `max_open_positions`, which is false (section 4).
* `EvaluationsReturn`: nobody waits for the lock for ever.

Left out: entry numbers in comments.

### Signals
How votes become a side: `combine_signals` with its four logics, the streaks that
`confirm_bars` asks for, the model's own streak, and the combined mode.  `Look` is the
live evaluation of the newest closed bar; bars may be skipped, looked at twice, looked at
under other settings, and looked at blindly: without 30 bars the indicators lose their
streak, and without them or with the model switched off its streak rests (`AfterLook`).
`ResetSignals` is what every close of a basket, a round or the account does to both.
`Replay` is the loop of `run_backtest`, a recursive function over the same bars.  How an
indicator votes and what the model thinks is an input.  `looks`, `smooth` and `breaks` are
history variables.

* `StreaksAreEarned`: the last bars a source had an opinion on, as many as its streak
  counts, had its side when they were looked at last.
* `LiveIsReplayed`: when every bar was looked at under one configuration, the live manager
  goes on only with the side the backtest enters with; and exactly when the backtest does,
  if nothing was closed and no look was blind.  It holds for indicators or model alone:
  closes and missing bars make the live manager wait, and do nothing else.  It is violated
  in the combined mode (`signals_combined`).
* `ReplayAgrees`: the same side also across closes, which is what the words of the backtest
  say, and is false also for indicators or model alone (section 4).

### Baskets
`PositionManager.evaluate` on one symbol: both sides, at most one action per
evaluation, `_evaluating` held over all awaits.  `Visited` seeds or drops the state of
a basket, `Plans` are the adds that may be due together, in the order they are tried,
`Told` is where the steps are counted, after the orders and the notification.
`_close_basket` has rounds of its own.  Which rule is due is an input; limits, counters
and what each await lets in are the model's.  `excused` is a history variable: open
tickets that no counter stands for (late fills, hedges the store did not show at a
seeding, steps of a state that was dropped).  `RefreshFails` ends a close whose refresh
raises with the counters in place.

* `LadderIsCounted`: what is not excused stays within the limits of the rules, across
  restarts and late answers: the step of a pyramid and its late fill, and a limit of two
  hedges that a recount after a restart has to keep.
* `CountersSurvive`: no counter falls but by a restart, by the close of the own basket,
  or when the store does not show the basket.
* `GateIsHeld`: one evaluation runs at a time and the gate is open when none does.

### Risk
`RiskManager.evaluate` with its rules in order.  The trailing of the account keeps
`peak` and `armed`, the timed closes the date, `_apply_broker_rules` what it has set.
A plain limit that is exceeded is an input.  The clock has three parts a day, the last
of them from 20:00.  A modification that timed out may be executed later (`late`,
`LateModify`).  `high`, `timed` and `looked` are history variables, and a restart does not
empty them.

* `OneEvaluates`: one caller at a time is past the gate, over all awaits, and the gate
  opens again.
* `TrailingIsFounded`: a trailing close follows a fall that was really seen: since the
  account was last known to be empty, some check saw a total above an arm level and above
  the one it closes at by the amount to give back.  `high` starts anew only when a check
  finds no position, or an account close has closed them all.  The fall may be profit that
  was realised: after a close by a symbol rule, of single tickets or by the user the peak
  stays, and the code closes what remains at once.
* `TimedCloseIsDaily`: with `close_time` a start of the server closes once a day, not twice
  and not never.  The date is in memory only, so after a restart past `close_time` the
  account is closed once more on the same day.
* `StopsOnlyTighten`: the manager never loosens a stop, whether the EA executes in time or
  late, but for initial stops and stops that were moved after it read the positions.

### Configuration
One configuration row of one account, on its way from a page to the manager: web
handlers, database threads, `reload_config`, `bind` and the supervisor, links of users,
and training, which reads the row, works for long and writes it back.  Every thread
call is two steps, so answers may be applied in another order than they were made.
One run covers risk, entry and manage configurations (`kind` is chosen at the start).

* `ManagerFollowsRow`: at rest, a loaded manager obeys the row, or it missed one: an
  answer was lost, a reload failed, or an older row was applied last.
* `TrainingKeepsRules`, `WritesAreTheOwners`, `LoadedAtLast`.

### GridJobs
`start_job` and `on_price`, for the workers of an old and a new connection.  A worker
goes through its own copy of the list and awaits the terminal at every order, so two
workers may order for one job, and one may remove a job the other still holds.
`spoiled` is a history variable: orders that were cancelled or sent beside another.

* `CountIsKept`: a job opens the orders it was asked for, and at most one more for each
  spoiled one.
* `SpacingIsKept`: as long as none was, they lie in its direction by the spacing.

### TelegramNotify and TelegramCommands
The queue that drops its oldest message, its worker, replies and keyboards, all
through one lock, a throttle and a back-off that is taken outside the lock; and the
poller that reads the chats, asks for updates, executes them one by one and keeps the
offset in memory.  Telegram itself is modelled from how the code uses it: it forgets
what lies before the offset it is asked for.

* `ThrottleIsKept` (of one process: the times of the sends are in memory, and the first
  send after a restart is not held back), `NoCommandIsLost`, `RepeatedOnlyByRestart` (at
  most once more per restart), `TradesForItsChat` (unless chats changed during the round).

## 3. The runs

| Run | Instance | What it shows |
|---|---|---|
| `sessions` | 3 connections, 2 accounts | all of Sessions; three connections are what a race of two hellos over a third needs |
| `gateway` | 3 requests, 1 reconnect | all of TradeGateway, and the refinement |
| `close_rounds` | 2 tickets, a call for both and a call for the winners among one, 2 rounds, 2 snapshots on their way | all of CloseRounds |
| `filtered_close` | 1 ticket, the call for the winners | violates `FailedIsRetried` |
| `snapshot_flow` | 2 tickets, an evaluator and a request, 2 connections, backlog 1; 2 positions, 3 closing deals, 2 starts of the EA | all of SnapshotFlow and of Deals, and the refinement |
| `entries` | 1 symbol, 3 tasks (two of them cancellable), 2 bars, four kinds of triggers | all of Entries but what symbols share |
| `baskets` | 2 callers, a group of two hedges, one pyramid step, 2 rounds, up to 3 tickets everything; a fourth only while just hedges are added and no basket is closed | all of Baskets, with room on the account to exceed the limit of two hedges |
| `risk` | 2 callers, 1 ticket, 6 configurations, 2 days, 1 restart, 1 late modification | all of Risk, one family of rules at a time |
| `configuration` | 2 pages of a user, a second user, the supervisor, 2 writes | all of Configuration, for each of the three kinds |
| `telegram` | 1 chat and a stranger's, 2 accounts, 3 senders, queue 1, 2 updates, 1 restart | TelegramCommands with TelegramNotify |
| `orders` | Signals: 3 bars, 2 indicators, streaks of 2, indicators or model alone; Entries: 2 symbols, 3 tasks (the workers on one symbol, the supervisor on both), one entry a day, interval trigger; GridJobs: 2 jobs that want opposite moves, 2 workers, 2 orders each, 3 prices | all of Signals and GridJobs, and in Entries two symbols between check and count |
| `signals_combined` | 3 bars, the combined mode | violates `LiveIsReplayed` |

Two runs have several modules that share no variable in one state space, where one of
them moves and the others rest: `snapshot_flow` the two streams of the EA (`StreamsNext`),
`orders` three things that decide on orders (`OrdersNext`).  The type invariants of Deals,
Baskets, Risk, Configuration, GridJobs, TelegramCommands and Signals and the `Consistent`
of SnapshotFlow are not among the properties of the runs: they are proved, and the other
invariants rest on them.

Bounds.  `MaxRounds` is 3 in the code and 2 in the runs: a first, a later and a last
round all occur.  `MaxBacklog` and `MaxInflight` limit how much is under way when
something new starts, not what can be in one burst.  `MaxClients`, `MaxReconnects`,
`MaxLinks`, `MaxBar`, `LastBar`, `LastTick`, `LastTime`, `MaxWrites`, `MaxUpdates` and
`MaxNotes`, `MaxDeals` and `MaxRuns` end the behaviours; three deals are a partial close
beside another position, two starts a history that is sent twice; one reconnect is enough for a reply or a command to meet
the wrong connection, two writes for one to overtake the reload of the other, two bars
for a second entry, three for a streak of two behind or before something that breaks it.  `MaxStarts`
is one restart, after which the same day goes on; `MaxLate` is one modification the EA
executes behind another.  `MaxBook` and `MaxTickets` stand for the broker refusing; four
tickets are a seed, the two hedges of the limit, and the one that would exceed it; with
the fourth on the account the pyramid and the closes of baskets are left to the states with
three (`BasketsSpec` of MCBaskets), to keep the run within minutes.  `MaxSpoiled` only limits
cancellations.  Six parts of days are a Thursday and a Friday evening, which the
weekend rule needs.  Symbols share only `_inflight` and the counter of the day: `entries` has one symbol,
and the daily limit, which rests on what they share, is checked in `orders` with two, where
the tasks that race for the second are the supervisor and what the workers do on the first.  In `baskets`, DCA and grid are disabled: they
differ from a pyramid only in when they are due, which is an input anyway.  Symmetry is
used between callers and between accounts that the specification treats alike, and
only in runs without liveness properties.  The runs do not check for deadlock: every
system here may rest (nobody connects, nobody calls), and the bounds end the others.

Fairness.  The event loop runs tasks that are ready and fires timers, so there is
weak fairness for the server's own steps.  TCP reports the end of a connection the
server has closed (`ConnectionLost`).  The EA and the network are not fair, with one
exception: in SnapshotFlow an EA that is connected answers and goes on streaming
(its timer), and in exchange no timer of the server is fair.  `StreamPositions` is
strongly fair there because the bound on the backlog disables it in between.  In
Configuration the supervisor comes round every second (weak fairness), and its database
calls, which fail in between and may be overtaken by other loads, are strongly fair: a
database that is asked again and again answers at last.  The other modules state safety
only, and no fairness.

## 4. Where the code and its words differ

Two runs each end in a disagreement of the code with its own words.

* `signals_combined`: `backtest.py:3` promises the same signal code as the live manager.
  In the combined mode the backtest asks the model only on bars with confirmed indicators,
  and its streak counts those; the live manager counts all bars it looks at.
* `filtered_close`: `position_close.py:46-49` says that a ticket whose close failed is tried
  again in a later pass.  When it has changed sign by then, the filter does not match it,
  an empty pass clears the failure, and the result is ok.

The following definitions say what a comment, a page or the README of the server says.
TLC refutes each when it is put in the place of a run's properties, in the instance of
section 3 or in the one named here; each is kept in its module as documentation, and none
is among the properties of a run.

* `LimitIsKept` (Entries; two symbols, one open position, schedule trigger):
  entry_manager.py:208-210, two symbols cannot both slip past `max_open_positions`.  They
  can, between the check and `_inflight`.
* `ReplayAgrees` (Signals; the constants of `orders`): backtest.py:3 again, for indicators
  or model alone.  The live manager begins its streaks anew after every close
  (entry_manager.py:247-275), the backtest lets them go on behind its own exits.
* `LiveIsOnline` (Sessions): README.md:225, the green dot means "EA online".  The late
  teardown of an evicted connection marks its successor's session offline.
* `OkMeansFlat` (CloseRounds): risk_manager.py:516, "the whole account is flat".  A
  position the store has not shown is not looked at.
* `NextEndWakes` (SnapshotFlow): position_store.py:45, "Wait until the next
  positions_end".  A second caller replaces the Event.
* `NoBackfill` (Deals): SocketBridgeEA.mq5:707 and README.md:123, only deals closed after
  the EA connected are sent.  The deal counter starts at 0 and nothing sets it on a
  connection, so the first synchronisation of each start sends the whole history, and
  each old position is announced again.
* `WeekendCloses` (Risk): the page says that positions are closed on Friday at 20:00.
  `close_time` and the weekend share one date, so an earlier close uses the evening up.
* `WeightsAreKept` (Configuration): index.html:2920, saving other settings never wipes
  the trained weights.  A page opened before the training sends none.

## 5. The proofs

Every safety property of the runs is proved for arbitrary constants.  The assumptions are the named `ASSUME`s of the modules: the bounds
are naturals, the "none" values are outside the sets they complete, and tickets, symbols
and tasks are finite where they are counted (SnapshotFlow, Entries).  Almost no property
is inductive.  What each needs besides, and why:

**Sessions** (ServerProofs): `SessionsTypeOK`, `OnlineHasClient`, `OneOpenClientUnlessRaced`,
`OfflineOnlyByTeardown`.  A worker in a handler belongs to a read loop that reads (so no
disconnect callback has run behind `bind`'s back), an account is claimed once and after
the hello, open connections are listed, and what an eviction has still to visit covers
every open connection of its account except those it raced with.  The last is the reason
why the later hello wins: `Claim` happens with nothing left to visit.

**TradeGateway** (ServerProofs): `TypeOK`, `RepliesAreTrue`, `NoLeakedFuture`,
`WaiterIsReachable`, `ExecutedOnce` and the refinement `ImplementsCalls`.  A request
nobody has sent is nowhere in the system, and a command under way belongs to a caller who
waits or was told "unknown".  With that each step is a step of `RemoteCalls` or a stutter.

**CloseRounds** (ServerProofs): `Consistent`, `OkMeansMatchedGone`.  `Forward`: an open
ticket that the store shows stays in all snapshots on their way, so the store never
takes it back while it is open; losing all of them cannot hurt it.  `CallIsRight`: what a call has matched and is still
open is in the store, and among what the pass has to ask for, has failed to close, or
(with a filter) found on the other side of zero.  An empty pass therefore proves everything
matched gone, or turned.  `ClosesReadTheChannel`: each step is
one of SnapshotChannel or invisible to it, so what the calls read is a store fed as
SnapshotFlow is proved to feed it.

**SnapshotFlow**: `Consistent`, `StoreWasReal`, `MissedOnlyIfSuperseded` and the refinement
`ImplementsChannel`.  `Whole` reads
`inbox` with `pending`: whatever the worker will commit at a `positions_end` is the book
that end belongs to, and no two ends share a begin.  It is kept by cuts because a
connection that ends loses a whole queue, and a burst begins by clearing `pending`.  The
refinement adds `InOrder`: the ends in `inbox` are those of the books in `underway`, one to
one and in order.  Messages that are no ends come and go without moving it (`EndsMove`), a
burst adds an end behind the others (`BurstAppended`), the worker takes the first
(`EndHandled`).  With `Whole`, what it then stores is the first book, which is `Arrive`.

**Deals** (SnapshotFlowProofs): `DealsTypeOK`, `NoDealIsForgotten`, `AnnouncedOncePerRun`,
`RowsNeverFall`.  `RowsRight`: a report adds up no fewer deals than the row it will be
written over and than the reports of its position in front of it, which holds because
the history only grows and a report counts all of it.  `BatchIsNew`, `WireIsNew`: what a
start of the EA has yet to send lies behind all it has sent, and a deal that is on its way
has been announced less often than the start that sent it.  The lemmas about `Exits`
(monotone, and unchanged by deals of others) carry both.

**Entries**: `Consistent`, `PausesHoldUnlessOvertaken`, `DailyOvershootIsBounded`,
`OneEntryPerSignal`.  `QueuesRight`: who is past the lock of a symbol is the first in its
queue, hence alone; the rest leans on it.  The daily limit: entries made and symbols that
may still enter (`Busy`) together stay below the bound.  The pauses: an evaluation nobody
overtook is past a check only while that pause is off.  One entry per signal
(`SignalsRight`): what was entered on lies behind what was looked at, and before every
bar, date or interval about to be entered on; a crossing is in the hands of one task.

**Baskets**: `TypeOK`, `GateIsHeld`, `LadderIsCounted`,
`CountersSurvive`.  Between the fill of an order and `Told` a step is open and not
counted.  The invariant says that one caller at most is past the gate, that the counter
and what this caller has in hand cover the open steps, and that both with what it still
sends fit under the limit.

**Risk**: `TypeOK`, `OneEvaluates`, `TrailingIsFounded`, `TimedCloseIsDaily`,
`StopsOnlyTighten`.  The peak never exceeds the highest total seen since the account was
known to be empty, and an armed trailing was armed by such a total; a caller holds the gate
from its decision to its end; the dates of the timed closes of one start rise up to the one
noted; a late modification carries the stop it was computed from.

**Configuration**: `TypeOK`, `ManagerFollowsRow`, `TrainingKeepsRules`,
`WritesAreTheOwners`.  Whenever the manager is behind the row, or a task carries an
older row the manager would take, some task will still bring the present row, or one was
missed for a cause the history names.

**GridJobs**: `TypeOK`, `CountIsKept`, `SpacingIsKept`.  A job is on the list once and a
worker comes to it once in its copy; the orders sent and those remaining add up to the
count, but for one a worker has not counted yet and the spoiled ones; the order an
unspoiled job waits for keeps the spacing from the last one.

**TelegramNotify and TelegramCommands**: `TypeOK`, `ThrottleIsKept`, `NoCommandIsLost`,
`RepeatedOnlyByRestart`, `TradesForItsChat`.  Senders: who sends holds the lock.  Poller:
everything done, forgotten or before its place in the batch was gone through, and what
lies ahead was tried only before a restart.

**Signals** (EntriesProofs): `SignalsTypeOK`, `StreaksAreEarned`, `LiveIsReplayed`.  The streak
alone does not say which bars it counted; the invariant adds that it carries the bar and the
verdict that were looked at last, so that the code's "same bar as before" and the history's
agree, or that it is empty since a reset.  `LiveIsReplayed` is proved for indicators or model
alone (with the combined mode it is false): every solution of the equation that defines
`Replay` for the closed bars has, at the bar looked at last, a streak that the live one
trails (`InStep`, `Trails`; of the model it is seen through the allowed side, `Shadow`): it
is the same while nothing broke the live one, and otherwise the live one is not
longer, and of the same side if it has one.  A longer need than the live count only makes
the live manager wait.  A bar that closes extends the solutions and each new one contains an
old one (`ReplayGoesOn`), so the induction over the bars is the one over the steps of the
specification.

Only model-checked: liveness (`EveryoneIsServed`, `CallsReturn`, `CloseReturns`,
`NobodyIsStuck`, `EvaluationsReturn`, `LoadedAtLast`), since the prover has no fairness
reasoning and no ENABLED.

## 6. Not modelled, and the plan

`components` in `PROJECT.json` lists every part and its state.  Next:

1. The history gateway, as a second instance of RemoteCalls with several messages per
   answer; the drawdown tiers of the account messages.
2. Proofs across modules, as SnapshotChannel is one: that CloseRounds uses the gateway as
   RemoteCalls allows, and that a close inside Risk is what CloseRounds returns, as
   refinements instead of a convention.

Outside: the pages but for the model they carry, formatting of messages, the HTTP
client of Supabase, the passwords and cookies of `auth.py`, the floating-point
arithmetic of indicators, models and trade outcomes, start-up, the test double of the
EA and the cron script.  The MT4 EA is a port of the MT5 one, which is the reference
here.
