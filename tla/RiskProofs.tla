----------------------------- MODULE RiskProofs -----------------------------
(***************************************************************************)
(* What the risk manager promises for any configurations, profits, prices, *)
(* tickets and callers.  None of its properties is inductive.  RiskInv     *)
(* says who runs, what a close was decided on, that a stop is modified to  *)
(* tighten the one that was read, in time or late, and that the days that  *)
(* the clock closes in one start differ, up to the last one noted.         *)
(***************************************************************************)
EXTENDS Risk, FiniteSetTheorems, SequenceTheorems, TLAPS

USE RiskAssumption

\* Since the account was last empty it has been at level "top", above an arm of the
\* trailing, and "from" gives back what the trailing gives back.
Reached(top) == (cfg.usd /\ top >= ArmUsd) \/ (cfg.pct /\ top >= ArmPct)
GivenBack(top, from) == (cfg.usd /\ top - from >= GiveUsd) \/ (cfg.pct /\ top - from >= GivePct)

\* A caller in local state x closes by the trailing for a reason, and modifies a stop
\* to set it for the first time or to tighten the one it read.
Sound(x) ==
  /\ x.pc = "idle" => x.why = "none"
  /\ x.why = "trailing" => Reached(high) /\ GivenBack(high, x.from)
  /\ x.pc \in {"atr", "modify"} => x.ticket \in Tickets
  /\ x.pc = "modify" => x.first \/ x.want > x.positions[x.ticket]

\* The peak was seen since the account was last empty, armed has a reason, and a
\* store without positions shows no profit.
PeakIsEarned == peak <= high /\ (armed => Reached(high)) /\ (shown \/ total = 0)

\* A modification that is late tightens the stop it was computed from.
LateTightens == \A i \in DOMAIN late : late[i].first \/ late[i].want > late[i].base

\* The timed closes of one start are on different days up to today and up to the noted
\* one, and every day on which close_time was found to be over has one.
TimedDays ==
  /\ \A i, j \in DOMAIN timed :
       timed[i].run = timed[j].run /\ Day(timed[i].at) = Day(timed[j].at) => i = j
  /\ \A i \in DOMAIN timed :
       /\ timed[i].run <= starts
       /\ timed[i].run = starts => firedDay # None /\ Day(timed[i].at) <= firedDay
  /\ firedDay # None => firedDay <= Day(tick)
  /\ firedDay # None => \E i \in DOMAIN timed : timed[i].run = starts /\ Day(timed[i].at) = firedDay
  /\ cfg.time => \A m \in looked : Part(m.at) >= CloseAt =>
       \E i \in DOMAIN timed : timed[i].run = m.run /\ Day(timed[i].at) = Day(m.at)

RiskInv ==
  /\ TypeOK /\ OneEvaluates
  /\ \A c \in Callers : Sound(task[c])
  /\ PeakIsEarned /\ LateTightens /\ TimedDays

\* A day follows another.
LEMMA DaysRise == \A m, n \in Nat : Day(n) \in Nat /\ (m <= n => Day(m) <= Day(n))
  BY DEF Day

LEMMA RestState ==
  Idle \in States /\ Idle.pc = "idle" /\ Idle.why = "none"
  BY DEF Idle, States

LEMMA InitRisk == ASSUME Init PROVE RiskInv
<1>1. /\ cfg \in Configs /\ tick = 0 /\ total = 0 /\ price \in Prices
      /\ stop = [t \in Tickets |-> 0] /\ store = stop /\ peak = 0 /\ armed = FALSE
      /\ firedDay = None /\ applied = {} /\ last = [t \in Tickets |-> None]
      /\ cooling = FALSE /\ evaluating = FALSE /\ task = [c \in Callers |-> Idle]
      /\ high = 0 /\ timed = <<>> /\ looked = {} /\ late = <<>> /\ shown = FALSE /\ starts = 1
  BY DEF Init
<1>2. LastTick \in Nat /\ MaxStarts \in Nat \ {0}
  BY DEF RiskAssumption
<1>3. task \in [Callers -> States] /\ \A c \in Callers : task[c].pc = "idle" /\ task[c].why = "none"
  BY <1>1, RestState
<1>4. TypeOK
  <2>1. {stop, store} \subseteq [Tickets -> Nat] /\ last \in [Tickets -> Nat \cup {None}]
    BY <1>1
  <2>2. timed \in Seq(Moments) /\ late \in Seq(Orders)
    BY <1>1
  <2>3. {cooling, evaluating, shown} \subseteq BOOLEAN /\ armed \in BOOLEAN
    BY <1>1
  <2>4. /\ cfg \in Configs /\ tick \in 0 .. LastTick /\ total \in Totals \cup {0} /\ price \in Prices
        /\ peak \in Nat /\ high \in Nat /\ firedDay \in Nat \cup {None} /\ applied \subseteq Tickets
        /\ looked \subseteq Moments /\ starts \in 1 .. MaxStarts
    BY <1>1, <1>2
  <2> QED
    BY <1>3, <2>1, <2>2, <2>3, <2>4 DEF TypeOK
<1>5. OneEvaluates /\ (\A c \in Callers : Sound(task[c])) /\ PeakIsEarned /\ LateTightens
  BY <1>1, <1>3 DEF OneEvaluates, Sound, PeakIsEarned, LateTightens
<1>6. TimedDays
  BY <1>1 DEF TimedDays
<1> QED
  BY <1>4, <1>5, <1>6 DEF RiskInv

\* Caller c gets the local state x: the gate stays with at most one.
LEMMA RiskTask ==
  ASSUME RiskInv, NEW c \in Callers, NEW x \in States, task' = [task EXCEPT ![c] = x],
         task[c].pc # "idle" \/ ~evaluating, evaluating' = (x.pc # "idle"), Sound(x)'
  PROVE  /\ task' \in [Callers -> States] /\ OneEvaluates' /\ evaluating' \in BOOLEAN
         /\ \A d \in Callers : Sound(task[d])'
<1>1. task \in [Callers -> States]
  BY DEF RiskInv, TypeOK
<1>2. task'[c] = x /\ \A d \in Callers \ {c} : task'[d] = task[d]
  BY <1>1
<1>3. \A d \in Callers \ {c} : task[d].pc = "idle" /\ task[d].why = "none"
  BY DEF RiskInv, OneEvaluates, Sound
<1>4. OneEvaluates'
  <2>1. \A d \in Callers : task'[d].pc # "idle" => d = c
    BY <1>2, <1>3
  <2>2. (\E d \in Callers : task'[d].pc # "idle") <=> x.pc # "idle"
    BY <1>2, <2>1
  <2> QED
    BY <2>1, <2>2 DEF OneEvaluates
<1>5. ASSUME NEW d \in Callers PROVE Sound(task[d])'
  <2>1. CASE d = c
    BY <1>2, <2>1 DEF Sound
  <2>2. CASE d # c
    BY <1>2, <1>3, <2>2 DEF Sound
  <2> QED
    BY <2>1, <2>2
<1> QED
  BY <1>1, <1>4, <1>5

\* What a check of the trailing leaves, and why it closes.
LEMMA PeakTracked ==
  ASSUME RiskInv, TrackPeak, UNCHANGED <<cfg, total, shown>>
  PROVE  /\ PeakIsEarned' /\ peak' \in Nat /\ high' \in Nat /\ armed' \in BOOLEAN
         /\ TrailingHit => Reached(high') /\ GivenBack(high', total)
<1>1. /\ peak \in Nat /\ high \in Nat /\ peak <= high /\ total \in Int /\ armed \in BOOLEAN
      /\ armed => Reached(high)
      /\ shown \/ total = 0
      /\ ArmUsd \in Nat \ {0} /\ ArmPct \in Nat \ {0} /\ GiveUsd \in Nat \ {0} /\ GivePct \in Nat \ {0}
  BY DEF RiskInv, TypeOK, PeakIsEarned, RiskAssumption
<1>2. cfg.usd \in BOOLEAN /\ cfg.pct \in BOOLEAN
  BY DEF RiskInv, TypeOK, RiskAssumption, ConfigType
<1>3. PICK top \in Nat : top = Larger(high, total) /\ top >= high /\ top >= total
  BY <1>1 DEF Larger
<1>4. Top \in Nat /\ Top <= top
  BY <1>1, <1>3 DEF Top, Larger
<1>5. ArmedByPct => Reached(top)
  BY <1>1, <1>2, <1>3 DEF ArmedByPct, ArmedByUsd, Reached
<1>6. ArmedByUsd => ArmedByPct
  BY DEF ArmedByPct
<1>7. TrailingHit => Reached(top) /\ GivenBack(top, total)
  BY <1>1, <1>3, <1>4, <1>5, <1>6 DEF TrailingHit, UsdHit, PctHit, GivenBack
<1>8. TrailingHit \/ shown => high' = top
  BY <1>3 DEF TrackPeak
<1>9. high' \in Nat
  BY <1>3 DEF TrackPeak
<1>10. CASE ~TrailingHit /\ total <= 0
  <2>1. peak' = 0 /\ armed' = FALSE
    BY <1>10 DEF TrackPeak
  <2>2. peak' \in Nat /\ peak' <= high' /\ (shown' \/ total' = 0)
    BY <1>1, <1>9, <2>1
  <2>3. armed' \in BOOLEAN /\ ~armed'
    BY <2>1
  <2> QED
    BY <1>9, <1>10, <2>2, <2>3 DEF PeakIsEarned
<1>11. CASE ~(~TrailingHit /\ total <= 0)
  <2>1. /\ peak' = Top
        /\ armed' \in BOOLEAN /\ (armed' => ArmedByUsd \/ ArmedByPct)
    <3>1. ArmedByUsd \in BOOLEAN /\ ArmedByPct \in BOOLEAN
      BY DEF ArmedByUsd, ArmedByPct
    <3> QED
      BY <1>11, <3>1 DEF TrackPeak
  <2>2. high' = top
    BY <1>1, <1>8, <1>11
  <2>3. armed' => Reached(top)
    BY <1>5, <1>6, <2>1
  <2> QED
    BY <1>1, <1>4, <1>7, <1>9, <2>1, <2>2, <2>3 DEF PeakIsEarned, Reached
<1> QED
  BY <1>7, <1>8, <1>10, <1>11

LEMMA TotalIsNumber == ASSUME RiskInv PROVE total \in Int
<1>1. total \in Totals \cup {0}
  BY DEF RiskInv, TypeOK
<1>2. Totals \subseteq Int /\ 0 \in Int
  BY DEF RiskAssumption
<1> QED
  BY <1>1, <1>2

\* A rule closes.
LEMMA RuleCloses ==
  ASSUME RiskInv, NEW c \in Callers, MayEvaluate(c), UNCHANGED cfg,
         NEW why \in {"account", "matching", "trailing", "time", "symbol"}, Close(c, why),
         why = "trailing" => Reached(high') /\ GivenBack(high', total)
  PROVE  /\ task' \in [Callers -> States] /\ OneEvaluates' /\ \A d \in Callers : Sound(task[d])'
         /\ evaluating' \in BOOLEAN /\ cooling' \in BOOLEAN
<1>1. PICK x : x = [Idle EXCEPT !.pc = "close", !.why = why, !.from = total]
  OBVIOUS
<1>2. total \in Int
  BY TotalIsNumber
<1>3. x \in States /\ x.pc = "close" /\ x.why = why /\ x.from = total
  BY <1>1, <1>2, RestState DEF States
<1>4. task' = [task EXCEPT ![c] = x] /\ evaluating' = TRUE /\ cooling' = TRUE
  BY <1>1 DEF Close
<1>5. Sound(x)'
  BY <1>3 DEF Sound, Reached, GivenBack
<1> QED
  BY <1>3, <1>4, <1>5, RiskTask DEF MayEvaluate

\* The clock and the rules are as before.
LEMMA DaysStay == ASSUME TimedDays, UNCHANGED <<cfg, tick, starts, clock>> PROVE TimedDays'
  BY DEF TimedDays, clock, Day, Part

\* Now is a moment.
LEMMA NowIsMoment ==
  ASSUME RiskInv
  PROVE  /\ Now \in Moments /\ Now.at = tick /\ Now.run = starts
         /\ tick \in Nat /\ starts \in Nat /\ timed \in Seq(Moments) /\ looked \subseteq Moments
         /\ Day(tick) \in Nat /\ None # Day(tick)
         /\ \A m \in Moments : m.at \in Nat /\ m.run \in Nat /\ Day(m.at) \in Nat
<1>1. /\ tick \in 0 .. LastTick /\ starts \in 1 .. MaxStarts /\ LastTick \in Nat /\ MaxStarts \in Nat
      /\ timed \in Seq(Moments) /\ looked \subseteq Moments /\ None \notin Nat
  BY DEF RiskInv, TypeOK, RiskAssumption
<1>2. tick \in Nat /\ \A m \in Moments : m.at \in Nat /\ m.run \in Nat
  BY <1>1 DEF Moments
<1>3. Day(tick) \in Nat /\ \A m \in Moments : Day(m.at) \in Nat
  BY <1>2, DaysRise
<1> QED
  BY <1>1, <1>2, <1>3 DEF Now, Moments

\* A timed close is noted: this start has none on this day yet.
LEMMA DayIsNoted ==
  ASSUME RiskInv, TimedHit, firedDay' = Day(tick),
         timed' = Append(timed, Now), looked' = looked \cup {Now}, UNCHANGED <<cfg, tick, starts>>
  PROVE  TimedDays' /\ firedDay' \in Nat /\ timed' \in Seq(Moments) /\ looked' \subseteq Moments
<1>1. /\ TimedDays /\ firedDay # Day(tick) /\ firedDay \in Nat \cup {None}
  BY DEF RiskInv, TypeOK, TimedHit
<1>2. /\ Now \in Moments /\ Now.at = tick /\ Now.run = starts
      /\ tick \in Nat /\ starts \in Nat /\ timed \in Seq(Moments) /\ looked \subseteq Moments
      /\ Day(tick) \in Nat /\ None # Day(tick)
      /\ \A m \in Moments : m.at \in Nat /\ m.run \in Nat /\ Day(m.at) \in Nat
  BY NowIsMoment
<1>3. PICK n \in Nat : n = Len(timed)
  BY <1>2
<1>4. /\ timed' \in Seq(Moments) /\ DOMAIN timed' = 1 .. n + 1 /\ DOMAIN timed = 1 .. n
      /\ timed'[n + 1] = Now /\ \A i \in 1 .. n : timed'[i] = timed[i] /\ timed[i] \in Moments
  BY <1>2, <1>3
<1>5. n + 1 \in DOMAIN timed' /\ \A i \in DOMAIN timed' : i = n + 1 \/ i \in 1 .. n
  BY <1>3, <1>4
\* Earlier closes of this start are on earlier days.
<1>6. ASSUME NEW i \in 1 .. n, timed[i].run = starts PROVE Day(timed[i].at) < Day(tick)
  <2>1. firedDay # None /\ Day(timed[i].at) <= firedDay /\ firedDay <= Day(tick)
    BY <1>1, <1>4, <1>6 DEF TimedDays
  <2>2. Day(timed[i].at) \in Nat /\ Day(tick) \in Nat
    BY <1>2, <1>4
  <2>3. firedDay \in Nat /\ firedDay # Day(tick)
    BY <1>1, <2>1
  <2>4. PICK a \in Nat, b \in Nat : a = Day(timed[i].at) /\ b = Day(tick)
    BY <2>2
  <2> QED
    BY <2>1, <2>3, <2>4
<1>7. ASSUME NEW i \in 1 .. n, timed[i].run = starts
      PROVE  Day(timed[i].at) # Day(tick) /\ Day(timed[i].at) <= Day(tick)
  <2>1. Day(timed[i].at) < Day(tick) /\ Day(timed[i].at) \in Nat
    BY <1>2, <1>4, <1>6, <1>7
  <2> QED
    BY <1>2, <2>1
<1>8. ASSUME NEW i \in DOMAIN timed', NEW j \in DOMAIN timed',
             timed'[i].run = timed'[j].run, Day(timed'[i].at) = Day(timed'[j].at)
      PROVE  i = j
  <2>1. CASE i \in 1 .. n /\ j \in 1 .. n
    <3>1. \A a, b \in 1 .. n : timed[a].run = timed[b].run /\ Day(timed[a].at) = Day(timed[b].at) => a = b
      BY <1>1, <1>4 DEF TimedDays
    <3>2. timed'[i] = timed[i] /\ timed'[j] = timed[j]
      BY <1>4, <2>1
    <3> QED
      BY <1>8, <2>1, <3>1, <3>2
  <2>2. CASE i = n + 1 /\ j \in 1 .. n
    BY <1>2, <1>4, <1>7, <1>8, <2>2
  <2>3. CASE j = n + 1 /\ i \in 1 .. n
    BY <1>2, <1>4, <1>7, <1>8, <2>3
  <2> QED
    BY <1>5, <2>1, <2>2, <2>3
<1>9. ASSUME NEW i \in DOMAIN timed'
      PROVE  /\ timed'[i].run <= starts
             /\ timed'[i].run = starts => Day(timed'[i].at) <= Day(tick)
  <2>1. CASE i = n + 1
    <3>1. timed'[i].run = starts /\ timed'[i].at = tick
      BY <1>2, <1>4, <2>1
    <3>2. PICK b \in Nat : b = Day(tick)
      BY <1>2
    <3> QED
      BY <1>2, <3>1, <3>2
  <2>2. CASE i \in 1 .. n
    <3>1. timed[i].run <= starts
      BY <1>1, <1>4, <2>2 DEF TimedDays
    <3> QED
      BY <1>4, <1>7, <2>2, <3>1
  <2> QED
    BY <1>5, <2>1, <2>2
<1>10. ASSUME cfg.time, NEW m \in looked', Part(m.at) >= CloseAt
       PROVE  \E i \in DOMAIN timed' : timed'[i].run = m.run /\ Day(timed'[i].at) = Day(m.at)
  <2>1. CASE m = Now
    BY <1>4, <1>5, <2>1
  <2>2. CASE m # Now
    <3>1. PICK i \in 1 .. n : timed[i].run = m.run /\ Day(timed[i].at) = Day(m.at)
      BY <1>1, <1>4, <1>10, <2>2 DEF TimedDays
    <3>2. i \in DOMAIN timed'
      BY <1>3, <1>4
    <3> QED
      BY <1>4, <3>1, <3>2
  <2> QED
    BY <2>1, <2>2
<1>11. \E i \in DOMAIN timed' : timed'[i].run = starts /\ Day(timed'[i].at) = Day(tick)
  BY <1>2, <1>4, <1>5
<1>12. TimedDays'
  <2>1. Day(tick) <= Day(tick)
    BY <1>2
  <2> QED
    BY <1>2, <1>8, <1>9, <1>10, <1>11, <2>1 DEF TimedDays, Day, Part
<1> QED
  BY <1>2, <1>4, <1>12

\* The time rules find nothing due: today has its close, or needs none.
LEMMA DayIsDone ==
  ASSUME RiskInv, ~TimedHit, looked' = looked \cup {Now},
         UNCHANGED <<cfg, tick, starts, firedDay, timed>>
  PROVE  TimedDays' /\ looked' \subseteq Moments
<1>1. TimedDays /\ Now \in Moments /\ Now.at = tick /\ Now.run = starts /\ looked \subseteq Moments
      /\ None # Day(tick)
  BY NowIsMoment DEF RiskInv
<1>2. ASSUME cfg.time, NEW m \in looked', Part(m.at) >= CloseAt
      PROVE  \E i \in DOMAIN timed : timed[i].run = m.run /\ Day(timed[i].at) = Day(m.at)
  <2>1. CASE m = Now
    <3>1. firedDay = Day(tick)
      BY <1>1, <1>2, <2>1 DEF TimedHit, CloseTimeDue
    <3> QED
      BY <1>1, <2>1, <3>1 DEF TimedDays
  <2>2. CASE m # Now
    BY <1>1, <1>2, <2>2 DEF TimedDays
  <2> QED
    BY <2>1, <2>2
<1>3. TimedDays'
  BY <1>1, <1>2 DEF TimedDays, Part, Day
<1> QED
  BY <1>1, <1>3

\* The rules of the account: the first that is due closes.
LEMMA RulesKeep ==
  ASSUME RiskInv, NEW c \in Callers,
         AccountRule(c) \/ TrailingRule(c) \/ ExposureRule(c) \/ TimeRule(c) \/ LaterRules(c)
  PROVE  RiskInv'
<1>1. MayEvaluate(c) /\ UNCHANGED <<market, broker>>
  BY DEF AccountRule, TrailingRule, ExposureRule, TimeRule, LaterRules
<1>2. UNCHANGED <<cfg, tick, total, price, shown, store, starts, stop, late, applied, last>>
  BY <1>1 DEF market, broker
<1>3. TypeOK /\ TimedDays /\ PeakIsEarned /\ LateTightens'
  BY <1>2 DEF RiskInv, LateTightens
<1>4. CASE AccountRule(c)
  <2>1. PICK why \in {"account", "matching"} : Close(c, why)
    BY <1>4 DEF AccountRule
  <2>2. UNCHANGED <<peak, armed, high, firedDay, timed, looked>>
    BY <1>4 DEF AccountRule, trailing, clock
  <2>3. /\ task' \in [Callers -> States] /\ OneEvaluates' /\ \A d \in Callers : Sound(task[d])'
        /\ evaluating' \in BOOLEAN /\ cooling' \in BOOLEAN
    BY <1>1, <1>2, <2>1, RuleCloses
  <2>4. TypeOK'
    BY <1>2, <1>3, <2>2, <2>3 DEF TypeOK
  <2>5. TimedDays' /\ PeakIsEarned'
    BY <1>2, <1>3, <2>2 DEF TimedDays, PeakIsEarned, Reached, Day, Part
  <2> QED
    BY <1>3, <2>3, <2>4, <2>5 DEF RiskInv
<1>5. CASE TrailingRule(c) \/ ExposureRule(c)
  <2>1. TrackPeak /\ UNCHANGED <<firedDay, timed, looked>>
    BY <1>5 DEF TrailingRule, ExposureRule, clock
  <2>2. /\ PeakIsEarned' /\ peak' \in Nat /\ high' \in Nat /\ armed' \in BOOLEAN
        /\ TrailingHit => Reached(high') /\ GivenBack(high', total)
    BY <1>2, <2>1, PeakTracked
  <2>3. (Close(c, "trailing") /\ TrailingHit) \/ Close(c, "account")
    BY <1>5 DEF TrailingRule, ExposureRule
  <2>4. /\ task' \in [Callers -> States] /\ OneEvaluates' /\ \A d \in Callers : Sound(task[d])'
        /\ evaluating' \in BOOLEAN /\ cooling' \in BOOLEAN
    BY <1>1, <1>2, <2>2, <2>3, RuleCloses
  <2>5. TypeOK'
    BY <1>2, <1>3, <2>1, <2>2, <2>4 DEF TypeOK
  <2>6. TimedDays'
    BY <1>2, <1>3, <2>1 DEF TimedDays, Day, Part
  <2> QED
    BY <1>3, <2>2, <2>4, <2>5, <2>6 DEF RiskInv
<1>6. CASE TimeRule(c)
  <2>1. /\ TrackPeak /\ TimedHit /\ firedDay' = Day(tick) /\ timed' = Append(timed, Now)
        /\ looked' = looked \cup {Now} /\ Close(c, "time")
    BY <1>6 DEF TimeRule
  <2>2. PeakIsEarned' /\ peak' \in Nat /\ high' \in Nat /\ armed' \in BOOLEAN
    BY <1>2, <2>1, PeakTracked
  <2>3. TimedDays' /\ firedDay' \in Nat /\ timed' \in Seq(Moments) /\ looked' \subseteq Moments
    BY <1>2, <2>1, DayIsNoted
  <2>4. /\ task' \in [Callers -> States] /\ OneEvaluates' /\ \A d \in Callers : Sound(task[d])'
        /\ evaluating' \in BOOLEAN /\ cooling' \in BOOLEAN
    BY <1>1, <1>2, <2>1, RuleCloses
  <2>5. TypeOK'
    BY <1>2, <1>3, <2>2, <2>3, <2>4 DEF TypeOK
  <2> QED
    BY <1>3, <2>2, <2>3, <2>4, <2>5 DEF RiskInv
<1>7. CASE LaterRules(c)
  <2>1. /\ TrackPeak /\ ~TimedHit /\ looked' = looked \cup {Now} /\ UNCHANGED <<firedDay, timed>>
    BY <1>7 DEF LaterRules
  <2>2. PeakIsEarned' /\ peak' \in Nat /\ high' \in Nat /\ armed' \in BOOLEAN
    BY <1>2, <2>1, PeakTracked
  <2>3. TimedDays' /\ looked' \subseteq Moments
    BY <1>2, <2>1, DayIsDone
  <2>4. /\ task' \in [Callers -> States] /\ OneEvaluates' /\ \A d \in Callers : Sound(task[d])'
        /\ evaluating' \in BOOLEAN /\ cooling' \in BOOLEAN
    <3>1. CASE Close(c, "symbol")
      BY <1>1, <1>2, <3>1, RuleCloses
    <3>2. ASSUME NEW singly \in {FALSE, shown}, evaluating' = TRUE, cooling' = singly,
                 task' = [task EXCEPT ![c] = [Idle EXCEPT
                           !.pc = IF singly THEN "single" ELSE "stops",
                           !.positions = store, !.todo = {t \in Tickets : shown}]]
          PROVE  /\ task' \in [Callers -> States] /\ OneEvaluates' /\ \A d \in Callers : Sound(task[d])'
                 /\ evaluating' \in BOOLEAN /\ cooling' \in BOOLEAN
      <4>1. PICK pc \in {"single", "stops"} : pc = IF singly THEN "single" ELSE "stops"
        OBVIOUS
      <4>2. PICK x : x = [Idle EXCEPT !.pc = pc, !.positions = store, !.todo = {t \in Tickets : shown}]
        OBVIOUS
      <4>3. store \in [Tickets -> Nat] /\ singly \in BOOLEAN
        BY <1>3, <3>2 DEF TypeOK
      <4>4. x \in States /\ x.pc = pc /\ x.why = "none"
        BY <4>1, <4>2, <4>3, RestState DEF States
      <4>5. task' = [task EXCEPT ![c] = x]
        BY <3>2, <4>1, <4>2
      <4>6. Sound(x)'
        BY <4>1, <4>4 DEF Sound
      <4>7. evaluating' = (x.pc # "idle")
        BY <3>2, <4>1, <4>4
      <4> QED
        BY <1>1, <3>2, <4>3, <4>4, <4>5, <4>6, <4>7, RiskTask DEF MayEvaluate
    <3> QED
      BY <1>7, <3>1, <3>2 DEF LaterRules
  <2>5. TypeOK'
    BY <1>2, <1>3, <2>1, <2>2, <2>3, <2>4 DEF TypeOK
  <2> QED
    BY <1>3, <2>2, <2>3, <2>4, <2>5 DEF RiskInv
<1> QED
  BY <1>4, <1>5, <1>6, <1>7

\* The trailing and the clock are left alone; the caller goes on or ends.
LEMMA CallerGoesOn ==
  ASSUME RiskInv, NEW c \in Callers, NEW x \in States,
         task' = [task EXCEPT ![c] = x], task[c].pc # "idle", evaluating' = (x.pc # "idle"), Sound(x),
         UNCHANGED <<market, trailing, clock, cooling>>, late' \in Seq(Orders), LateTightens',
         stop' \in [Tickets -> Nat], applied' \subseteq Tickets, last' \in [Tickets -> Nat \cup {None}]
  PROVE  RiskInv'
<1>1. UNCHANGED <<cfg, tick, total, price, shown, store, starts, peak, armed, high, firedDay,
                  timed, looked, cooling>>
  BY DEF market, trailing, clock
<1>2. Sound(x)'
  BY <1>1 DEF Sound, Reached, GivenBack
<1>3. /\ task' \in [Callers -> States] /\ OneEvaluates' /\ evaluating' \in BOOLEAN
      /\ \A d \in Callers : Sound(task[d])'
  BY <1>2, RiskTask
<1>4. TypeOK'
  BY <1>1, <1>3 DEF RiskInv, TypeOK
<1>5. PeakIsEarned' /\ TimedDays'
  BY <1>1 DEF RiskInv, PeakIsEarned, Reached, TimedDays, Day, Part
<1> QED
  BY <1>3, <1>4, <1>5 DEF RiskInv

\* A close returns, and an account close may start the trailing anew.
LEMMA ClosedKeeps ==
  ASSUME RiskInv, NEW c \in Callers, Closed(c) PROVE RiskInv'
<1>1. /\ task[c].pc = "close" /\ task' = [task EXCEPT ![c] = Idle] /\ evaluating' = FALSE
      /\ UNCHANGED <<market, broker, clock, cooling>>
  BY DEF Closed, End
<1>2. UNCHANGED <<cfg, tick, total, price, shown, store, starts, stop, late, applied, last,
                  firedDay, timed, looked, cooling>>
  BY <1>1 DEF market, broker, clock
<1>3. Sound(Idle)'
  BY RestState DEF Sound
<1>4. /\ task' \in [Callers -> States] /\ OneEvaluates' /\ evaluating' \in BOOLEAN
      /\ \A d \in Callers : Sound(task[d])'
  BY <1>1, <1>3, RestState, RiskTask
<1>5. PeakIsEarned' /\ peak' \in Nat /\ high' \in Nat /\ armed' \in BOOLEAN
  <2>1. peak \in Nat /\ high \in Nat /\ armed \in BOOLEAN /\ PeakIsEarned
    BY DEF RiskInv, TypeOK
  <2>2. CASE AfterAccountClose /\ high' \in {0, high}
    <3>1. peak' = 0 /\ high' \in Nat /\ (shown' \/ total' = 0)
      BY <1>2, <2>1, <2>2 DEF AfterAccountClose, PeakIsEarned
    <3>2. armed' \in BOOLEAN /\ ~armed'
      BY <2>2 DEF AfterAccountClose
    <3> QED
      BY <3>1, <3>2 DEF PeakIsEarned
  <2>3. CASE UNCHANGED trailing
    BY <1>2, <2>1, <2>3 DEF trailing, PeakIsEarned, Reached
  <2> QED
    BY <2>2, <2>3 DEF Closed
<1>6. TypeOK'
  BY <1>2, <1>4, <1>5 DEF RiskInv, TypeOK
<1>7. TimedDays' /\ LateTightens'
  BY <1>2 DEF RiskInv, TimedDays, LateTightens, Day, Part
<1> QED
  BY <1>4, <1>5, <1>6, <1>7 DEF RiskInv

\* The stops of ticket t: what is sent is the initial stop, or tightens the one read.
LEMMA StopsKeep ==
  ASSUME RiskInv, NEW c \in Callers, task[c].pc \in {"stops", "atr"},
         NEW t \in Tickets, NEW p \in Nat, NEW known \in BOOLEAN, Stops(c, t, p, known)
  PROVE  RiskInv'
<1>1. PICK y \in States : y = task[c] /\ Sound(y)
  BY DEF RiskInv, TypeOK
<1>2. PICK sl \in Nat : sl = y.positions[t]
  BY <1>1 DEF States
<1>3. PICK initial : initial = (known /\ SetsInitial(t, sl))
  OBVIOUS
<1>4. PICK goal : goal = NewStop(sl, p, initial)
  OBVIOUS
<1>5. /\ InitialStop \in Nat \ {0} /\ BreakEven \in Nat \ {0} /\ Distance \in Nat \ {0}
      /\ goal \in {p - Distance, BreakEven, InitialStop, sl}
      /\ \/ goal = p - Distance /\ goal > sl
         \/ goal = BreakEven /\ goal > sl
         \/ goal = InitialStop /\ initial
         \/ goal = sl
  BY <1>4 DEF NewStop, TrailStop, BreakEvenStop, RiskAssumption
<1>6. goal \in Nat /\ (goal # sl => goal > sl \/ (initial /\ goal = InitialStop))
  BY <1>5
<1>7. PICK send \in BOOLEAN : send = (goal # sl /\ goal # last[t])
  OBVIOUS
<1>8. /\ applied' = IF initial THEN applied \cup {t} ELSE applied
      /\ task' = [task EXCEPT ![c].pc = IF send THEN "modify" ELSE "stops",
                              ![c].ticket = IF send THEN t ELSE None,
                              ![c].want = IF send THEN goal ELSE 0,
                              ![c].first = send /\ initial /\ goal = InitialStop,
                              ![c].todo = @ \ {t}, ![c].seen = 0]
      /\ UNCHANGED <<market, stop, late, last, trailing, clock, cooling, evaluating>>
  BY <1>1, <1>2, <1>3, <1>4, <1>7 DEF Stops
<1>9. PICK pc, ticket, want, first, todo :
        /\ pc = IF send THEN "modify" ELSE "stops"
        /\ ticket = IF send THEN t ELSE None
        /\ want = IF send THEN goal ELSE 0
        /\ first = (send /\ initial /\ goal = InitialStop)
        /\ todo = y.todo \ {t}
  OBVIOUS
<1>10. PICK x : x = [y EXCEPT !.pc = pc, !.ticket = ticket, !.want = want, !.first = first,
                              !.todo = todo, !.seen = 0]
  OBVIOUS
<1>11. /\ pc \in {"modify", "stops"} /\ ticket \in Tickets \cup {None} /\ want \in Nat
       /\ first \in BOOLEAN /\ todo \in SUBSET Tickets
  BY <1>1, <1>6, <1>9 DEF States
<1>12. /\ x \in States /\ x.pc = pc /\ x.ticket = ticket /\ x.want = want /\ x.first = first
       /\ x.why = y.why /\ x.from = y.from /\ x.positions = y.positions
  BY <1>1, <1>10, <1>11 DEF States
<1>13. task' = [task EXCEPT ![c] = x]
  BY <1>1, <1>8, <1>9, <1>10 DEF RiskInv, TypeOK
<1>14. Sound(x)
  <2>1. pc = "modify" => ticket \in Tickets /\ (first \/ want > x.positions[ticket])
    BY <1>2, <1>6, <1>7, <1>9, <1>12
  <2> QED
    BY <1>1, <1>11, <1>12, <2>1 DEF Sound
<1>15. evaluating' = (x.pc # "idle") /\ task[c].pc # "idle"
  BY <1>8, <1>11, <1>12 DEF RiskInv, OneEvaluates, TypeOK
<1>16. /\ applied' \subseteq Tickets /\ stop' \in [Tickets -> Nat] /\ last' \in [Tickets -> Nat \cup {None}]
       /\ late' \in Seq(Orders) /\ LateTightens'
  BY <1>8 DEF RiskInv, TypeOK, LateTightens
<1> QED
  BY <1>8, <1>12, <1>13, <1>14, <1>15, <1>16, CallerGoesOn

\* Single tickets are closed; the stops are looked at, fetched for, modified; the
\* evaluation ends.
LEMMA StopStepsKeep ==
  ASSUME RiskInv, NEW c \in Callers,
         ClosedSingly(c) \/ NextTicket(c) \/ AtrFetched(c) \/ Modified(c) \/ Evaluated(c)
  PROVE  RiskInv'
<1>1. PICK y \in States : y = task[c] /\ Sound(y)
  BY DEF RiskInv, TypeOK
<1>2. /\ task \in [Callers -> States] /\ stop \in [Tickets -> Nat] /\ applied \subseteq Tickets
      /\ last \in [Tickets -> Nat \cup {None}] /\ price \in Nat
      /\ late \in Seq(Orders) /\ LateTightens
  BY DEF RiskInv, TypeOK, RiskAssumption
<1>3. task[c].pc # "idle" => evaluating = TRUE
  BY DEF RiskInv, OneEvaluates, TypeOK
<1>4. CASE ClosedSingly(c)
  <2>1. PICK x : x = [y EXCEPT !.pc = "stops"]
    OBVIOUS
  <2>2. x \in States /\ x.pc = "stops" /\ x.why = y.why /\ x.from = y.from
    BY <1>1, <2>1 DEF States
  <2>3. y.pc = "single" /\ task' = [task EXCEPT ![c] = x]
    BY <1>1, <1>2, <1>4, <2>1 DEF ClosedSingly
  <2>4. Sound(x)
    BY <1>1, <2>2 DEF Sound
  <2>5. applied' \subseteq Tickets /\ last' \in [Tickets -> Nat \cup {None}]
    BY <1>2, <1>4 DEF ClosedSingly
  <2>6. UNCHANGED <<market, stop, late, trailing, clock, cooling, evaluating>> /\ LateTightens'
    BY <1>2, <1>4 DEF ClosedSingly, LateTightens
  <2> QED
    BY <1>1, <1>2, <1>3, <2>2, <2>3, <2>4, <2>5, <2>6, CallerGoesOn
<1>5. CASE NextTicket(c)
  <2>1. y.pc = "stops"
    BY <1>1, <1>5 DEF NextTicket
  <2>2. PICK t \in y.todo :
          \/ Stops(c, t, price, TRUE)
          \/ /\ task' = [task EXCEPT ![c].pc = "atr", ![c].ticket = t, ![c].seen = price]
             /\ UNCHANGED <<market, broker, trailing, clock, cooling, evaluating>>
    BY <1>1, <1>5 DEF NextTicket
  <2>3. t \in Tickets
    BY <1>1 DEF States
  <2>4. CASE Stops(c, t, price, TRUE)
    BY <1>1, <1>2, <2>1, <2>3, <2>4, StopsKeep
  <2>5. CASE /\ task' = [task EXCEPT ![c].pc = "atr", ![c].ticket = t, ![c].seen = price]
             /\ UNCHANGED <<market, broker, trailing, clock, cooling, evaluating>>
    <3>1. PICK x : x = [y EXCEPT !.pc = "atr", !.ticket = t, !.seen = price]
      OBVIOUS
    <3>2. x \in States /\ x.pc = "atr" /\ x.ticket = t /\ x.why = y.why /\ x.from = y.from
      BY <1>1, <1>2, <2>3, <3>1 DEF States
    <3>3. task' = [task EXCEPT ![c] = x]
      BY <1>1, <1>2, <2>5, <3>1
    <3>4. Sound(x)
      BY <1>1, <2>3, <3>2 DEF Sound
    <3>5. UNCHANGED <<market, stop, late, applied, last, trailing, clock, cooling, evaluating>>
          /\ LateTightens'
      BY <1>2, <2>5 DEF broker, LateTightens
    <3> QED
      BY <1>1, <1>2, <1>3, <2>1, <3>2, <3>3, <3>4, <3>5, CallerGoesOn
  <2> QED
    BY <2>2, <2>4, <2>5
<1>6. CASE AtrFetched(c)
  <2>1. PICK known \in BOOLEAN : Stops(c, y.ticket, y.seen, known)
    BY <1>1, <1>6 DEF AtrFetched
  <2>2. y.pc = "atr" /\ y.ticket \in Tickets /\ y.seen \in Nat
    BY <1>1, <1>6 DEF AtrFetched, Sound, States
  <2> QED
    BY <1>1, <2>1, <2>2, StopsKeep
<1>7. CASE Modified(c)
  <2>1. PICK x : x = [y EXCEPT !.pc = "stops", !.ticket = None, !.want = 0, !.first = FALSE]
    OBVIOUS
  <2>2. x \in States /\ x.pc = "stops" /\ x.why = y.why /\ x.from = y.from
    BY <1>1, <2>1 DEF States
  <2>3. y.pc = "modify" /\ task' = [task EXCEPT ![c] = x]
    BY <1>1, <1>2, <1>7, <2>1 DEF Modified
  <2>4. Sound(x)
    BY <1>1, <2>2 DEF Sound
  <2>5. PICK order : order = [ticket |-> y.ticket, want |-> y.want, first |-> y.first,
                              base |-> y.positions[y.ticket]]
    OBVIOUS
  <2>6. order \in Orders /\ (order.first \/ order.want > order.base)
    BY <1>1, <2>3, <2>5 DEF Sound, States, Orders
  <2>7. \/ /\ stop' = [stop EXCEPT ![order.ticket] = order.want]
           /\ last' \in {last, [last EXCEPT ![order.ticket] = order.want]}
           /\ late' = late
        \/ UNCHANGED <<stop, late, last>>
        \/ late' = Append(late, order) /\ UNCHANGED <<stop, last>>
    BY <1>1, <1>7, <2>5 DEF Modified
  <2>8. stop' \in [Tickets -> Nat] /\ last' \in [Tickets -> Nat \cup {None}]
    BY <1>2, <2>6, <2>7 DEF Orders
  <2>9. UNCHANGED <<market, applied, trailing, clock, cooling, evaluating>>
    BY <1>7 DEF Modified
  <2>10. late' \in Seq(Orders) /\ LateTightens'
    <3>1. CASE late' = late
      BY <1>2, <3>1 DEF LateTightens
    <3>2. CASE late' = Append(late, order)
      <4>1. late' \in Seq(Orders)
        BY <1>2, <2>6, <3>2
      <4>2. \A i \in DOMAIN late' : late'[i] = order \/ (i \in DOMAIN late /\ late'[i] = late[i])
        BY <1>2, <2>6, <3>2
      <4> QED
        BY <1>2, <2>6, <4>1, <4>2 DEF LateTightens
    <3> QED
      BY <2>7, <3>1, <3>2
  <2> QED
    BY <1>1, <1>2, <1>3, <2>2, <2>3, <2>4, <2>8, <2>9, <2>10, CallerGoesOn
<1>8. CASE Evaluated(c)
  <2>1. /\ task[c].pc = "stops" /\ task' = [task EXCEPT ![c] = Idle] /\ evaluating' = FALSE
        /\ UNCHANGED <<market, stop, late, applied, last, trailing, clock, cooling>>
        /\ LateTightens'
    BY <1>2, <1>8 DEF Evaluated, End, broker, LateTightens
  <2>2. Sound(Idle)
    BY RestState DEF Sound
  <2> QED
    BY <1>2, <2>1, <2>2, RestState, CallerGoesOn
<1> QED
  BY <1>4, <1>5, <1>6, <1>7, <1>8

\* The market, the account, late modifications and the cooldown leave the manager alone.
LEMMA MarketKeeps ==
  ASSUME RiskInv,
         \/ LateModify \/ PriceMoves \/ ClockMoves
         \/ \E t \in Tickets : OthersMoveStop(t)
         \/ Snapshot \/ CooldownEnds
         \/ UNCHANGED vars
  PROVE  RiskInv'
<1>1. TypeOK /\ LateTightens /\ LastTick \in Nat /\ CloseAt \in 0 .. 2
  BY DEF RiskInv, RiskAssumption
<1>2. UNCHANGED <<cfg, starts, applied, last, peak, armed, high, firedDay, timed, looked, evaluating, task>>
  BY DEF LateModify, PriceMoves, ClockMoves, OthersMoveStop, Snapshot, CooldownEnds,
         vars, market, broker, manager, trailing, clock
<1>3. /\ tick' \in 0 .. LastTick /\ tick <= tick' /\ total' \in Totals \cup {0} /\ price' \in Prices
      /\ cooling' \in BOOLEAN /\ shown' \in BOOLEAN /\ (shown' \/ total' = 0)
  <2>1. /\ tick \in 0 .. LastTick /\ total \in Totals \cup {0} /\ price \in Prices
        /\ cooling \in BOOLEAN /\ shown \in BOOLEAN /\ (shown \/ total = 0)
    BY <1>1 DEF TypeOK, RiskInv, PeakIsEarned
  <2>2. CASE ClockMoves
    BY <1>1, <2>1, <2>2 DEF ClockMoves
  <2>3. CASE PriceMoves
    BY <1>1, <2>1, <2>3 DEF PriceMoves
  <2>5. CASE Snapshot
    <3>1. UNCHANGED <<tick, price, cooling>>
      BY <2>5 DEF Snapshot
    <3>2. CASE shown' \in BOOLEAN /\ total' \in IF shown' THEN Totals ELSE {0}
      BY <1>1, <2>1, <3>1, <3>2
    <3>3. CASE shown' = TRUE /\ UNCHANGED total
      BY <1>1, <2>1, <3>1, <3>3
    <3> QED
      BY <2>5, <3>2, <3>3 DEF Snapshot
  <2>4. CASE LateModify \/ (\E t \in Tickets : OthersMoveStop(t)) \/ CooldownEnds \/ UNCHANGED vars
    <3>1. UNCHANGED <<tick, total, price, shown>>
      BY <2>4 DEF LateModify, OthersMoveStop, CooldownEnds, vars, market
    <3>2. cooling' \in BOOLEAN
      BY <2>1, <2>4 DEF LateModify, OthersMoveStop, CooldownEnds, vars
    <3> QED
      BY <1>1, <2>1, <3>1, <3>2
  <2> QED
    BY <2>2, <2>3, <2>4, <2>5
<1>4. stop' \in [Tickets -> Nat] /\ store' \in [Tickets -> Nat] /\ late' \in Seq(Orders) /\ LateTightens'
  <2>1. stop \in [Tickets -> Nat] /\ store \in [Tickets -> Nat] /\ late \in Seq(Orders)
    BY <1>1 DEF TypeOK
  <2>2. CASE LateModify
    <3>1. late # <<>> /\ stop' = [stop EXCEPT ![Head(late).ticket] = Head(late).want]
          /\ late' = Tail(late) /\ store' = store
      BY <2>2 DEF LateModify, market
    <3>2. Head(late) \in Orders /\ Tail(late) \in Seq(Orders)
      BY <2>1, <3>1
    <3>3. stop' \in [Tickets -> Nat]
      BY <2>1, <3>1, <3>2 DEF Orders
    <3>4. \A i \in DOMAIN late' : i + 1 \in DOMAIN late /\ late'[i] = late[i + 1]
      BY <2>1, <3>1
    <3> QED
      BY <1>1, <2>1, <3>1, <3>2, <3>3, <3>4 DEF LateTightens
  <2>3. CASE ~LateModify
    <3>1. late' = late
      BY <2>3 DEF PriceMoves, ClockMoves, OthersMoveStop, Snapshot, CooldownEnds, vars, broker
    <3>2. store' \in {store, stop}
      BY <2>3 DEF PriceMoves, ClockMoves, OthersMoveStop, Snapshot, CooldownEnds, vars, market
    <3>3. stop' \in [Tickets -> Nat]
      <4>1. CASE \E t \in Tickets : OthersMoveStop(t)
        <5>1. PICK t \in Tickets, level \in 0 .. 3 : stop' = [stop EXCEPT ![t] = level]
          BY <4>1 DEF OthersMoveStop
        <5> QED
          BY <2>1, <5>1
      <4>2. CASE ~\E t \in Tickets : OthersMoveStop(t)
        <5>1. stop' = stop
          BY <2>3, <4>2 DEF PriceMoves, ClockMoves, Snapshot, CooldownEnds, vars, broker
        <5> QED
          BY <2>1, <5>1
      <4> QED
        BY <4>1, <4>2
    <3>4. LateTightens'
      BY <1>1, <3>1 DEF LateTightens
    <3> QED
      BY <2>1, <3>1, <3>2, <3>3, <3>4
  <2> QED
    BY <2>2, <2>3
<1>5. TypeOK'
  BY <1>1, <1>2, <1>3, <1>4 DEF TypeOK
<1>6. OneEvaluates' /\ (\A c \in Callers : Sound(task[c])') /\ PeakIsEarned'
  BY <1>2, <1>3 DEF RiskInv, OneEvaluates, Sound, PeakIsEarned, Reached, GivenBack
<1>7. TimedDays'
  <2>1. firedDay # None => firedDay <= Day(tick')
    <3> SUFFICES ASSUME firedDay # None PROVE firedDay <= Day(tick')
      OBVIOUS
    <3>1. firedDay \in Nat /\ firedDay <= Day(tick) /\ tick \in 0 .. LastTick
      BY DEF RiskInv, TypeOK, TimedDays
    <3>2. tick \in Nat /\ tick' \in Nat /\ tick <= tick'
      BY <1>1, <1>3, <3>1
    <3>3. Day(tick) <= Day(tick') /\ Day(tick) \in Nat /\ Day(tick') \in Nat
      BY <3>2, DaysRise
    <3> QED
      BY <3>1, <3>3
  <2> QED
    BY <1>2, <2>1 DEF RiskInv, TimedDays, Day, Part
<1> QED
  BY <1>4, <1>5, <1>6, <1>7 DEF RiskInv

\* Memory is lost: nothing is armed, and this start has closed nothing yet.
LEMMA RiskRestartKeeps == ASSUME RiskInv, Restart PROVE RiskInv'
<1>1. /\ peak' = 0 /\ armed' = FALSE /\ firedDay' = None /\ total' = 0 /\ shown' = FALSE
      /\ applied' = {} /\ last' = [t \in Tickets |-> None] /\ cooling' = FALSE /\ evaluating' = FALSE
      /\ task' = [c \in Callers |-> Idle] /\ store' = [t \in Tickets |-> 0]
      /\ starts' = starts + 1 /\ starts < MaxStarts /\ late' \in {late, <<>>}
      /\ UNCHANGED <<cfg, tick, price, stop, high, timed, looked>>
  BY DEF Restart
<1>2. task' \in [Callers -> States]
      /\ \A c \in Callers : task'[c].pc = "idle" /\ task'[c].why = "none"
  BY <1>1, RestState
<1>3. TypeOK /\ LateTightens /\ TimedDays /\ starts \in Nat /\ MaxStarts \in Nat
  BY DEF RiskInv, TypeOK, RiskAssumption
<1>4. late' \in Seq(Orders) /\ LateTightens'
  <2>1. CASE late' = late
    BY <1>3, <2>1 DEF TypeOK, LateTightens
  <2>2. CASE late' = <<>>
    BY <2>2 DEF LateTightens
  <2> QED
    BY <1>1, <2>1, <2>2
<1>5. TypeOK'
  <2>1. /\ last' \in [Tickets -> Nat \cup {None}] /\ peak' \in Nat
        /\ firedDay' \in Nat \cup {None} /\ applied' \subseteq Tickets
        /\ total' \in Totals \cup {0}
    BY <1>1
  <2>4. starts' \in 1 .. MaxStarts
    BY <1>1, <1>3
  <2>2. {cooling', evaluating', shown'} \subseteq BOOLEAN /\ armed' \in BOOLEAN
    BY <1>1
  <2>3. /\ cfg' \in Configs /\ tick' \in 0 .. LastTick /\ price' \in Prices
        /\ {stop', store'} \subseteq [Tickets -> Nat] /\ high' \in Nat
        /\ timed' \in Seq(Moments) /\ looked' \subseteq Moments
    BY <1>1, <1>3 DEF TypeOK
  <2> QED
    BY <1>2, <1>4, <2>1, <2>2, <2>3, <2>4 DEF TypeOK
<1>6. OneEvaluates' /\ (\A c \in Callers : Sound(task[c])')
  BY <1>1, <1>2 DEF OneEvaluates, Sound
<1>7. PeakIsEarned'
  <2>1. high \in Nat
    BY <1>3 DEF TypeOK
  <2> QED
    BY <1>1, <2>1 DEF PeakIsEarned
<1>8. TimedDays'
  <2>1. \A i \in DOMAIN timed : timed[i].run \in Nat /\ timed[i].run <= starts
    <3>1. timed \in Seq(Moments) /\ \A m \in Moments : m.run \in Nat
      BY NowIsMoment
    <3> QED
      BY <1>3, <3>1 DEF TimedDays
  <2>2. \A i \in DOMAIN timed : timed[i].run <= starts + 1 /\ timed[i].run # starts + 1
    BY <1>3, <2>1
  <2> QED
    BY <1>1, <1>3, <2>2 DEF TimedDays, Day, Part
<1> QED
  BY <1>4, <1>5, <1>6, <1>7, <1>8 DEF RiskInv

\* The inductive invariant of the risk manager.
THEOREM RiskInvariant == Spec => []RiskInv
<1>1. Init => RiskInv
  BY InitRisk
<1>2. RiskInv /\ [Next]_(vars) => RiskInv'
  BY RulesKeep, ClosedKeeps, StopStepsKeep, MarketKeeps, RiskRestartKeeps DEF Next
<1> QED
  BY <1>1, <1>2, PTL DEF Spec

\* What the risk manager remembers and every caller's local state keep their types; the
\* stop a caller sends is a price.
THEOREM RiskTypes == Spec => []TypeOK
<1>1. RiskInv => TypeOK
  BY DEF RiskInv
<1> QED
  BY <1>1, RiskInvariant, PTL

\* Two callers never evaluate at once, over every await, and the gate opens again.
THEOREM GateHolds == Spec => []OneEvaluates
<1>1. RiskInv => OneEvaluates
  BY DEF RiskInv
<1> QED
  BY <1>1, RiskInvariant, PTL

\* The account trailing closes only after a fall that was seen since the account was
\* last known to be empty.
THEOREM TrailingHolds == Spec => []TrailingIsFounded
<1>1. ASSUME RiskInv PROVE TrailingIsFounded
  <2> SUFFICES ASSUME NEW c \in Callers, task[c].why = "trailing"
               PROVE  /\ \E a \in {a \in {ArmUsd} : cfg.usd} \cup {a \in {ArmPct} : cfg.pct} : high >= a
                      /\ \E g \in {g \in {GiveUsd} : cfg.usd} \cup {g \in {GivePct} : cfg.pct} :
                           high - task[c].from >= g
    BY DEF TrailingIsFounded
  <2>1. Reached(high) /\ GivenBack(high, task[c].from)
    BY <1>1 DEF RiskInv, Sound
  <2> QED
    BY <2>1 DEF Reached, GivenBack
<1> QED
  BY <1>1, RiskInvariant, PTL

\* A start of the server makes at most one timed close a day, and one once it found
\* close_time to be over; after a restart there may be another.
THEOREM TimedClosesHold == Spec => []TimedCloseIsDaily
<1> DEFINE Closes(d, run) == {i \in DOMAIN timed : Day(timed[i].at) = d /\ timed[i].run = run}
           Past(d, run) == {m \in looked : Day(m.at) = d /\ m.run = run /\ Part(m.at) >= CloseAt}
<1>1. ASSUME RiskInv PROVE TimedCloseIsDaily
  <2>1. SUFFICES ASSUME cfg.time, NEW d, NEW run
                 PROVE  /\ Cardinality(Closes(d, run)) <= 1
                        /\ Past(d, run) # {} => Closes(d, run) # {}
    BY DEF TimedCloseIsDaily
  <2>2. \A i, j \in Closes(d, run) : i = j
    BY <1>1 DEF RiskInv, TimedDays
  <2>3. Past(d, run) # {} => Closes(d, run) # {}
    BY <1>1, <2>1 DEF RiskInv, TimedDays
  <2> HIDE DEF Closes
  <2>4. CASE Closes(d, run) = {}
    BY <2>3, <2>4, FS_EmptySet
  <2>5. CASE Closes(d, run) # {}
    <3>1. PICK i : Closes(d, run) = {i}
      BY <2>2, <2>5
    <3>2. Cardinality(Closes(d, run)) = 1
      BY <3>1, FS_Singleton
    <3> QED
      BY <2>3, <3>2
  <2> QED
    BY <2>4, <2>5
<1> QED
  BY <1>1, RiskInvariant, PTL

\* A stop the manager moves gets tighter than the one it read, also when the EA
\* executes late.
THEOREM StopsHold == Spec => StopsOnlyTighten
<1> DEFINE Tight ==
             \A t \in Tickets : stop'[t] < stop[t] =>
               /\ \A c \in Callers : task[c].ticket = t /\ task'[c] # task[c] =>
                    task[c].first \/ task[c].positions[t] # stop[t]
               /\ late # <<>> /\ late' = Tail(late) /\ Head(late).ticket = t =>
                    Head(late).first \/ Head(late).base # stop[t]
<1>1. ASSUME RiskInv, [Next]_(vars) PROVE [Tight]_(vars)
  <2> SUFFICES ASSUME Next, NEW t \in Tickets, stop'[t] < stop[t]
               PROVE  /\ \A c \in Callers : task[c].ticket = t /\ task'[c] # task[c] =>
                           task[c].first \/ task[c].positions[t] # stop[t]
                      /\ late # <<>> /\ late' = Tail(late) /\ Head(late).ticket = t =>
                           Head(late).first \/ Head(late).base # stop[t]
    BY <1>1
  <2>1. task \in [Callers -> States] /\ stop \in [Tickets -> Nat] /\ late \in Seq(Orders)
    BY <1>1 DEF RiskInv, TypeOK
  <2>2. stop' # stop
    BY <2>1
  <2>3. \/ \E d \in Callers : Modified(d)
        \/ \E u \in Tickets : OthersMoveStop(u)
        \/ LateModify
    <3>1. ASSUME NEW d \in Callers,
                 \/ AccountRule(d) \/ TrailingRule(d) \/ ExposureRule(d) \/ TimeRule(d)
                 \/ LaterRules(d) \/ Closed(d) \/ Evaluated(d)
          PROVE  UNCHANGED stop
      BY <3>1 DEF AccountRule, TrailingRule, ExposureRule, TimeRule, LaterRules,
                  Closed, Evaluated, broker
    <3>2. ASSUME NEW d \in Callers, ClosedSingly(d) \/ NextTicket(d) \/ AtrFetched(d)
          PROVE  UNCHANGED stop
      <4>1. CASE ClosedSingly(d)
        BY <4>1 DEF ClosedSingly
      <4>2. ASSUME NEW u, NEW p, NEW known, Stops(d, u, p, known) PROVE UNCHANGED stop
        BY <4>2 DEF Stops
      <4>3. CASE NextTicket(d)
        BY <4>2, <4>3 DEF NextTicket, broker
      <4>4. CASE AtrFetched(d)
        BY <4>2, <4>4 DEF AtrFetched
      <4> QED
        BY <3>2, <4>1, <4>3, <4>4
    <3>3. ASSUME PriceMoves \/ ClockMoves \/ Snapshot \/ CooldownEnds \/ Restart
          PROVE  UNCHANGED stop
      BY <3>3 DEF PriceMoves, ClockMoves, Snapshot, CooldownEnds, Restart
    <3> QED
      BY <2>2, <3>1, <3>2, <3>3 DEF Next
  <2>4. CASE \E u \in Tickets : OthersMoveStop(u)
    <3>1. UNCHANGED <<task, late>>
      BY <2>4 DEF OthersMoveStop, manager
    <3> QED
      BY <2>1, <3>1
  <2>5. CASE \E d \in Callers : Modified(d)
    <3>1. PICK d \in Callers :
            /\ task' = [task EXCEPT ![d].pc = "stops", ![d].ticket = None, ![d].want = 0,
                                    ![d].first = FALSE]
            /\ task[d].pc = "modify"
            /\ \/ late = <<>> /\ stop' = [stop EXCEPT ![task[d].ticket] = task[d].want]
               \/ UNCHANGED stop
      BY <2>5 DEF Modified
    <3>2. late = <<>> /\ stop' = [stop EXCEPT ![task[d].ticket] = task[d].want]
      BY <2>2, <3>1
    <3>3. ASSUME NEW c \in Callers, task[c].ticket = t, task'[c] # task[c], ~task[c].first,
                 task[c].positions[t] = stop[t]
          PROVE  FALSE
      <4>1. d = c
        BY <2>1, <3>1, <3>3
      <4>2. stop'[t] = task[c].want
        BY <2>1, <3>2, <3>3, <4>1
      <4>3. task[c].want > stop[t] /\ task[c].want \in Nat /\ stop[t] \in Nat
        BY <1>1, <2>1, <3>1, <3>3, <4>1 DEF RiskInv, Sound, States
      <4> QED
        BY <4>2, <4>3
    <3> QED
      BY <3>2, <3>3
  <2>6. CASE LateModify
    <3>1. /\ late # <<>> /\ UNCHANGED task
          /\ stop' = [stop EXCEPT ![Head(late).ticket] = Head(late).want]
      BY <2>6 DEF LateModify
    <3>2. Head(late) = late[1] /\ 1 \in DOMAIN late /\ Head(late) \in Orders
      BY <2>1, <3>1
    <3>3. ASSUME Head(late).ticket = t, ~Head(late).first, Head(late).base = stop[t] PROVE FALSE
      <4>1. stop'[t] = Head(late).want
        BY <2>1, <3>1, <3>3
      <4>2. Head(late).want > stop[t] /\ Head(late).want \in Nat /\ stop[t] \in Nat
        BY <1>1, <2>1, <3>2, <3>3 DEF RiskInv, LateTightens, Orders
      <4> QED
        BY <4>1, <4>2
    <3> QED
      BY <3>1, <3>3
  <2> QED
    BY <2>3, <2>4, <2>5, <2>6
<1>2. Spec => [][Tight]_(vars)
  BY <1>1, RiskInvariant, PTL DEF Spec
<1> QED
  BY <1>2 DEF StopsOnlyTighten
=============================================================================
