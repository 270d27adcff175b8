-------------------------------- MODULE Risk --------------------------------
(***************************************************************************)
(* The RiskManager of one account (src/python/risk_manager.py).  evaluate  *)
(* runs from tasks the message handlers spawn and from the supervisor; it  *)
(* reads the store once and goes through the rules in a fixed order:       *)
(* account rules, account trailing, exposure, time, symbol rules, single   *)
(* tickets, and last the stops of the tickets at the broker.  The first    *)
(* rule that closes an account or a basket ends the evaluation.            *)
(*                                                                         *)
(* Which plain limit is exceeded is an input.  What the manager remembers  *)
(* is modelled: the peak and the armed flag of the trailing, the date of   *)
(* the last timed close, the tickets whose stops it has set.  The inside   *)
(* of a close is CloseRounds.  Tickets are BUY positions, prices are       *)
(* levels, and a SELL position mirrors them.  The store shows all tickets  *)
(* or none: none until the EA has streamed, or when nothing is open.       *)
(***************************************************************************)
EXTENDS Integers, Sequences, FiniteSets

CONSTANTS
  Callers,    \* tasks that call evaluate
  Tickets,
  Configs,    \* rules that may be enabled together: see ConfigType
  ArmUsd, GiveUsd, ArmPct, GivePct, \* account trailing
  Totals,     \* bound: floating profits of the account
  CloseAt,    \* part of the day in which close_time falls
  LastTick,   \* bound: parts of days that pass; day 1 is a Friday
  InitialStop, BreakEven, BreakEvenArm, TrailArm, Distance, \* levels
  Prices,     \* bound: levels of the market
  MaxLate,    \* bound: modifications that timed out and may still be executed
  MaxStarts,  \* bound: starts of the server
  None

\* time: close_time is set; weekend: close_before_weekend; usd, pct: account
\* trailing; initial: trade_sl_pips or ATR stops; atr: it is the latter.
ConfigType == [time : BOOLEAN, weekend : BOOLEAN, usd : BOOLEAN, pct : BOOLEAN,
               initial : BOOLEAN, atr : BOOLEAN, breakeven : BOOLEAN, trail : BOOLEAN]

ASSUME RiskAssumption ==
  /\ Configs \subseteq ConfigType
  /\ {ArmUsd, GiveUsd, ArmPct, GivePct} \subseteq Nat \ {0}
  /\ Totals \subseteq Int
  /\ CloseAt \in 0 .. 2
  /\ LastTick \in Nat
  /\ {InitialStop, BreakEven, BreakEvenArm, TrailArm, Distance} \subseteq Nat \ {0}
  /\ Prices \subseteq Nat
  /\ MaxLate \in Nat /\ MaxStarts \in Nat \ {0}
  /\ None \notin Nat

VARIABLES
  cfg,        \* config
  tick,       \* the clock: three parts a day, the last one from 20:00
  total,      \* store.total_profit()
  price,      \* price_cache
  stop,       \* the stop of each ticket at the broker, 0 when it has none
  late,       \* modifications the broker has not executed, whose caller gave up
  shown,      \* PositionStore._positions holds tickets
  store,      \* and their stops
  peak,       \* _peak_profit
  armed,      \* _trailing_armed
  firedDay,   \* _close_time_fired_date
  applied,    \* _broker_sltp_applied
  last,       \* _last_sl_tp
  cooling,    \* now - _last_action_ts < cooldown_seconds
  evaluating, \* _evaluating; _acting is true only while it is
  task,       \* the local state of each caller
  starts,     \* how often the server has started
  high,       \* history: the highest total a trailing check saw since the account
              \* was last known to be empty
  timed,      \* history: when the timed closes began, and in which start
  looked      \* history: when the time rules were reached, and in which start

market == <<cfg, tick, total, price, shown, store, starts>>
broker == <<stop, late, applied, last>>
trailing == <<peak, armed, high>>
clock == <<firedDay, timed, looked>>
vars == <<market, broker, trailing, clock, cooling, evaluating, task>>

-----------------------------------------------------------------------------
\* pc: the await; why: the rule that closes; positions: the stops read at the
\* start; todo: tickets not looked at yet; ticket, want: of modify_position;
\* seen: the price read before the ATR fetch.
States == [pc : {"idle", "close", "single", "stops", "atr", "modify"},
           why : {"none", "account", "matching", "trailing", "time", "symbol"},
           from : Int, positions : [Tickets -> Nat], todo : SUBSET Tickets,
           ticket : Tickets \cup {None}, want : Nat, seen : Nat, first : BOOLEAN]
Idle == [pc |-> "idle", why |-> "none", from |-> 0, positions |-> [t \in Tickets |-> 0],
         todo |-> {}, ticket |-> None, want |-> 0, seen |-> 0, first |-> FALSE]

\* A modification under way: the stop it was computed from, and whether it is
\* the initial stop of its ticket.
Orders == [ticket : Tickets, want : Nat, base : Nat, first : BOOLEAN]

\* A moment of a start of the server.
Moments == [at : 0 .. LastTick, run : 1 .. MaxStarts]
Now == [at |-> tick, run |-> starts]

Day(n) == n \div 3
Part(n) == n % 3
Larger(a, b) == IF a > b THEN a ELSE b

Init ==
  /\ cfg \in Configs
  /\ tick = 0
  /\ total = 0
  /\ price \in Prices
  /\ stop = [t \in Tickets |-> 0]
  /\ late = <<>>
  /\ shown = FALSE
  /\ store = stop
  /\ peak = 0
  /\ armed = FALSE
  /\ firedDay = None
  /\ applied = {}
  /\ last = [t \in Tickets |-> None]
  /\ cooling = FALSE
  /\ evaluating = FALSE
  /\ task = [c \in Callers |-> Idle]
  /\ starts = 1
  /\ high = 0
  /\ timed = <<>>
  /\ looked = {}

-----------------------------------------------------------------------------
(* _check_account_trailing *)

Top == Larger(peak, total)

\* One flag serves both kinds of trailing, and the USD check comes first.
ArmedByUsd == armed \/ (cfg.usd /\ total >= ArmUsd)
ArmedByPct == ArmedByUsd \/ (cfg.pct /\ total >= ArmPct)
UsdHit == cfg.usd /\ ArmedByUsd /\ total <= Top - GiveUsd
PctHit == cfg.pct /\ ArmedByPct /\ total <= Top - GivePct
TrailingHit == UsdHit \/ PctHit

\* The peak and the flag after the check; a total that is not positive starts
\* anew unless it closes.  The account is known to be empty when the check sees
\* no positions and closes nothing.
TrackPeak ==
  LET anew == ~TrailingHit /\ total <= 0 IN
  /\ peak' = IF anew THEN 0 ELSE Top
  /\ armed' = (~anew /\ IF UsdHit THEN ArmedByUsd ELSE ArmedByPct)
  /\ high' = IF ~shown /\ ~TrailingHit THEN 0 ELSE Larger(high, total)

-----------------------------------------------------------------------------
(* _check_time_rules *)

CloseTimeDue == cfg.time /\ Part(tick) >= CloseAt
WeekendDue == cfg.weekend /\ Day(tick) = 1 /\ Part(tick) = 2

\* mutant: the date is not looked at.
TimedHitAnyDate == CloseTimeDue \/ WeekendDue

\* Both rules look at the same date.
TimedHit == (CloseTimeDue \/ WeekendDue) /\ firedDay # Day(tick)

-----------------------------------------------------------------------------
(* evaluate *)

\* mutant: _evaluating is not looked at.
MayEvaluateUngated(c) == task[c].pc = "idle" /\ ~cooling

\* The gate; it is taken in the same step as the first rules.
MayEvaluate(c) == task[c].pc = "idle" /\ ~evaluating /\ ~cooling

End(c) == task' = [task EXCEPT ![c] = Idle] /\ evaluating' = FALSE

\* A rule closes the account or a basket.
Close(c, why) ==
  /\ task' = [task EXCEPT ![c] = [Idle EXCEPT !.pc = "close", !.why = why, !.from = total]]
  /\ evaluating' = TRUE
  /\ cooling' = TRUE

\* A take-profit, stop-loss, equity, drawdown, margin or daily limit.  With
\* account_action "matching" it closes winners or losers only.
AccountRule(c) ==
  /\ MayEvaluate(c)
  /\ \E why \in {"account", "matching"} : Close(c, why)
  /\ UNCHANGED <<market, broker, trailing, clock>>

TrailingRule(c) ==
  /\ MayEvaluate(c)
  /\ TrackPeak
  /\ TrailingHit
  /\ Close(c, "trailing")
  /\ UNCHANGED <<market, broker, clock>>

\* max_positions or max_total_lot.
ExposureRule(c) ==
  /\ MayEvaluate(c)
  /\ shown
  /\ TrackPeak /\ ~TrailingHit
  /\ Close(c, "account")
  /\ UNCHANGED <<market, broker, clock>>

\* The date is noted before the close is tried.
TimeRule(c) ==
  /\ MayEvaluate(c)
  /\ TrackPeak /\ ~TrailingHit
  /\ TimedHit
  /\ firedDay' = Day(tick)
  /\ timed' = Append(timed, Now)
  /\ looked' = looked \cup {Now}
  /\ Close(c, "time")
  /\ UNCHANGED <<market, broker>>

\* No account rule closes: a symbol rule does, or single tickets are closed and
\* then the stops are looked at.  The positions are those of the start.
LaterRules(c) ==
  /\ MayEvaluate(c)
  /\ TrackPeak /\ ~TrailingHit
  /\ ~TimedHit
  /\ looked' = looked \cup {Now}
  /\ \/ shown /\ Close(c, "symbol")
     \/ /\ \E singly \in {FALSE, shown} :
             /\ task' = [task EXCEPT ![c] = [Idle EXCEPT
                           !.pc = IF singly THEN "single" ELSE "stops",
                           !.positions = store, !.todo = {t \in Tickets : shown}]]
             /\ cooling' = singly
        /\ evaluating' = TRUE
  /\ UNCHANGED <<market, broker, firedDay, timed>>

\* mutant: the peak of a closed account is kept.
AfterAccountCloseKept == UNCHANGED <<peak, armed>>

\* _trailing_armed = False, _peak_profit = 0.0
AfterAccountClose == peak' = 0 /\ armed' = FALSE

\* _execute_account_close and _execute_basket_close return.  Only an account
\* close without failures starts the trailing anew (and resets the entry
\* signals when it closed everything); a basket close that realises the profit
\* leaves peak and flag, and so do closes of single tickets and by others.
Closed(c) ==
  /\ task[c].pc = "close"
  /\ End(c)
  /\ \/ /\ task[c].why # "symbol"
        /\ AfterAccountClose
        /\ high' = IF task[c].why = "matching" THEN high ELSE 0
     \/ UNCHANGED trailing
  /\ UNCHANGED <<market, broker, clock, cooling>>

\* _close_single for the tickets that are due; the stops come next, closed
\* tickets included (the EA refuses those).
ClosedSingly(c) ==
  /\ task[c].pc = "single"
  /\ task' = [task EXCEPT ![c].pc = "stops"]
  /\ \E gone \in SUBSET Tickets :
       /\ applied' = applied \ gone
       /\ last' = [t \in Tickets |-> IF t \in gone THEN None ELSE last[t]]
  /\ UNCHANGED <<market, stop, late, trailing, clock, cooling, evaluating>>

-----------------------------------------------------------------------------
(* _apply_broker_rules *)

\* mutant: break-even does not compare with the stop that is there.
BreakEvenStopAny(sl, p) == cfg.breakeven /\ p >= BreakEvenArm

\* Break-even moves stop sl at price p.
BreakEvenStop(sl, p) == cfg.breakeven /\ p >= BreakEvenArm /\ BreakEven > sl

\* So does trailing.  The peak of a ticket is never stored (the default of the
\* lookup is the profit it is compared with), so the arm looks at the price.
TrailStop(sl, p) == cfg.trail /\ p >= TrailArm /\ p - Distance > sl

\* The initial stop is set once per ticket, if the stop is another.
SetsInitial(t, sl) == cfg.initial /\ t \notin applied /\ sl # InitialStop

\* new_sl: the later rule wins.
NewStop(sl, p, initial) ==
  IF TrailStop(sl, p) THEN p - Distance
  ELSE IF BreakEvenStop(sl, p) THEN BreakEven
  ELSE IF initial THEN InitialStop ELSE sl

\* The rules of ticket t at price p, and _modify_sltp unless it sent the same
\* stop before.  The ticket counts as applied before the EA has answered.  known: an
\* initial stop can be computed; by ATR it needs bars.
Stops(c, t, p, known) ==
  LET sl == task[c].positions[t]
      initial == known /\ SetsInitial(t, sl)
      new == NewStop(sl, p, initial)
      send == new # sl /\ new # last[t] IN
  /\ applied' = IF initial THEN applied \cup {t} ELSE applied
  /\ task' = [task EXCEPT ![c].pc = IF send THEN "modify" ELSE "stops",
                          ![c].ticket = IF send THEN t ELSE None,
                          ![c].want = IF send THEN new ELSE 0,
                          ![c].first = send /\ initial /\ new = InitialStop,
                          ![c].todo = @ \ {t}, ![c].seen = 0]
  /\ UNCHANGED <<market, stop, late, last, trailing, clock, cooling, evaluating>>

\* The next ticket; with an ATR stop to compute, the bars may be in the cache or
\* have to be fetched after the price was read, and the fetch may fail.
NextTicket(c) ==
  /\ task[c].pc = "stops"
  /\ \E t \in task[c].todo :
       \/ Stops(c, t, price, TRUE)
       \/ /\ cfg.atr /\ t \notin applied
          /\ task' = [task EXCEPT ![c].pc = "atr", ![c].ticket = t, ![c].seen = price]
          /\ UNCHANGED <<market, broker, trailing, clock, cooling, evaluating>>

AtrFetched(c) ==
  /\ task[c].pc = "atr"
  /\ \E known \in BOOLEAN : Stops(c, task[c].ticket, task[c].seen, known)

\* The stop is changed and the answer arrives, or is lost; or it is not changed,
\* and the call fails or times out.  The EA executes in the order of the sends, so
\* an earlier modification that is late comes first, and this one may be late too.
Modified(c) ==
  /\ task[c].pc = "modify"
  /\ LET t == task[c].ticket
         order == [ticket |-> t, want |-> task[c].want, first |-> task[c].first,
                   base |-> task[c].positions[t]] IN
       \/ /\ late = <<>>
          /\ stop' = [stop EXCEPT ![t] = order.want]
          /\ last' \in {last, [last EXCEPT ![t] = order.want]}
          /\ UNCHANGED late
       \/ UNCHANGED <<stop, late, last>>
       \/ /\ Len(late) < MaxLate
          /\ late' = Append(late, order)
          /\ UNCHANGED <<stop, last>>
  /\ task' = [task EXCEPT ![c].pc = "stops", ![c].ticket = None, ![c].want = 0,
                          ![c].first = FALSE]
  /\ UNCHANGED <<market, applied, trailing, clock, cooling, evaluating>>

\* The EA executes a modification nobody waits for any more.
LateModify ==
  /\ late # <<>>
  /\ stop' = [stop EXCEPT ![Head(late).ticket] = Head(late).want]
  /\ late' = Tail(late)
  /\ UNCHANGED <<market, applied, last, trailing, clock, cooling, evaluating, task>>

\* Every ticket was looked at.  The memory of tickets that are gone is pruned.
Evaluated(c) ==
  /\ task[c].pc = "stops" /\ task[c].todo = {}
  /\ End(c)
  /\ UNCHANGED <<market, broker, trailing, clock, cooling>>

-----------------------------------------------------------------------------
(* The market, the account, the process.  Only what the configuration looks at
   changes. *)

manager == <<applied, last, trailing, clock, evaluating, task>>

PriceMoves ==
  /\ cfg.breakeven \/ cfg.trail
  /\ price' \in Prices
  /\ UNCHANGED <<cfg, tick, total, shown, store, starts, stop, late, manager, cooling>>

ClockMoves ==
  /\ cfg.time \/ cfg.weekend
  /\ tick < LastTick
  /\ tick' = tick + 1
  /\ UNCHANGED <<cfg, total, price, shown, store, starts, stop, late, manager, cooling>>

\* The user, or _trail_basket, moves a stop.
OthersMoveStop(t) ==
  /\ cfg.initial \/ cfg.breakeven \/ cfg.trail
  /\ \E level \in 0 .. 3 : stop' = [stop EXCEPT ![t] = level]
  /\ UNCHANGED <<market, late, manager, cooling>>

\* positions_end.  The profit floats, and part of it may have been realised by the
\* closes of a basket, of single tickets or by the user.  With the trailing the
\* account may also be empty.
Snapshot ==
  /\ \/ /\ cfg.usd \/ cfg.pct
        /\ shown' \in BOOLEAN
        /\ total' \in IF shown' THEN Totals ELSE {0}
     \/ ~(cfg.usd \/ cfg.pct) /\ shown' = TRUE /\ UNCHANGED total
  /\ store' = stop
  /\ UNCHANGED <<cfg, tick, price, starts, stop, late, manager, cooling>>

CooldownEnds == cooling' = FALSE /\ UNCHANGED <<market, stop, late, manager>>

\* The server restarts: everything in memory is gone, the positions too.  What was
\* sent to the EA may still be executed.
Restart ==
  /\ starts < MaxStarts
  /\ starts' = starts + 1
  /\ shown' = FALSE /\ total' = 0 /\ store' = [t \in Tickets |-> 0]
  /\ peak' = 0 /\ armed' = FALSE
  /\ firedDay' = None
  /\ applied' = {} /\ last' = [t \in Tickets |-> None]
  /\ cooling' = FALSE
  /\ evaluating' = FALSE
  /\ task' = [c \in Callers |-> Idle]
  /\ late' \in {late, <<>>}
  /\ UNCHANGED <<cfg, tick, price, stop, high, timed, looked>>

-----------------------------------------------------------------------------
Next ==
  \/ \E c \in Callers :
       \/ AccountRule(c) \/ TrailingRule(c) \/ ExposureRule(c) \/ TimeRule(c)
       \/ LaterRules(c) \/ Closed(c) \/ ClosedSingly(c)
       \/ NextTicket(c) \/ AtrFetched(c) \/ Modified(c) \/ Evaluated(c)
  \/ LateModify \/ PriceMoves \/ ClockMoves
  \/ \E t \in Tickets : OthersMoveStop(t)
  \/ Snapshot \/ CooldownEnds \/ Restart

Spec == Init /\ [][Next]_vars

-----------------------------------------------------------------------------
TypeOK ==
  /\ cfg \in Configs
  /\ tick \in 0 .. LastTick
  /\ total \in Totals \cup {0}
  /\ price \in Prices
  /\ {stop, store} \subseteq [Tickets -> Nat]
  /\ late \in Seq(Orders)
  /\ peak \in Nat
  /\ armed \in BOOLEAN
  /\ firedDay \in Nat \cup {None}
  /\ applied \subseteq Tickets
  /\ last \in [Tickets -> Nat \cup {None}]
  /\ {cooling, evaluating, shown} \subseteq BOOLEAN
  /\ task \in [Callers -> States]
  /\ high \in Nat
  /\ starts \in 1 .. MaxStarts
  /\ timed \in Seq(Moments)
  /\ looked \subseteq Moments

\* The comment at risk_manager.py:162: two callers never evaluate at once and fire the
\* same close twice.  From the guard over every await of a close, of single tickets
\* and of the stops at most one caller is past the gate, which is closed while one
\* is and open again when none is.
OneEvaluates ==
  /\ \A c, d \in Callers : task[c].pc # "idle" /\ task[d].pc # "idle" => c = d
  /\ evaluating <=> \E c \in Callers : task[c].pc # "idle"

\* A trailing close follows a fall of the floating profit that was really seen: since
\* the account was last known to be empty (a check found no positions, an account
\* close closed them all) some check saw the total above one of the arm levels and
\* above the total it closes at, by the amount to give back.  (Not above its own
\* level: with both kinds enabled the lower arm serves both.)  The fall may be
\* profit that a symbol rule, a closed ticket or the user has realised since: those
\* leave peak and flag, and the code then closes the rest at once.
TrailingIsFounded ==
  LET arms == {a \in {ArmUsd} : cfg.usd} \cup {a \in {ArmPct} : cfg.pct}
      gives == {g \in {GiveUsd} : cfg.usd} \cup {g \in {GivePct} : cfg.pct} IN
  \A c \in Callers : task[c].why = "trailing" =>
    /\ \E a \in arms : high >= a
    /\ \E g \in gives : high - task[c].from >= g

\* With close_time set, a start of the server makes at most one timed close a day, and
\* one on each day on which it reaches the time rules past close_time: two callers
\* and a failed close make no second one, and no earlier day stands in for it.  The
\* date is in memory only, so each restart past close_time closes the account once
\* more on the same day.
TimedCloseIsDaily ==
  cfg.time => \A d \in {Day(n) : n \in 0 .. LastTick}, run \in 1 .. MaxStarts :
    LET closes == {i \in DOMAIN timed : Day(timed[i].at) = d /\ timed[i].run = run}
        reached == {m \in looked : Day(m.at) = d /\ m.run = run /\ Part(m.at) >= CloseAt} IN
    Cardinality(closes) <= 1 /\ (reached # {} => closes # {})

\* A stop the manager moves gets tighter, whether the EA executes in time or after
\* the caller gave up.  Excused are the initial stop of a ticket, which overwrites a
\* better one (after a restart every ticket is new again), and a stop that was moved
\* after the positions were read: by others, or by a modification the store does
\* not show yet.
StopsOnlyTighten ==
  [][\A t \in Tickets : stop'[t] < stop[t] =>
       /\ \A c \in Callers : task[c].ticket = t /\ task'[c] # task[c] =>
            task[c].first \/ task[c].positions[t] # stop[t]
       /\ late # <<>> /\ late' = Tail(late) /\ Head(late).ticket = t =>
            Head(late).first \/ Head(late).base # stop[t]]_vars

\* static/index.html:1410, "Đóng trước cuối tuần (T6 20:00)": an evaluation that
\* gets to the time rules on Friday evening has closed the account that evening.
\* It does not hold: close_time may have used up the date before.
WeekendCloses ==
  LET evening == {n \in 0 .. LastTick : Day(n) = 1 /\ Part(n) = 2} IN
  cfg.weekend => \A m \in looked :
    m.at \in evening => \E i \in DOMAIN timed : timed[i].at \in evening
=============================================================================
