------------------------------- MODULE Signals -------------------------------
(***************************************************************************)
(* From the votes of the indicators and the opinion of the model to the    *)
(* side of an entry: by the EntryManager, which looks at the last closed   *)
(* bar whenever it is let (src/python/entry_manager.py), and by the        *)
(* backtest, which replays all bars (src/python/backtest.py).              *)
(*                                                                         *)
(* The live manager keeps one streak of bars with the same side for the    *)
(* indicators and one for the model.  Cooldown, spread, hours and guards   *)
(* keep it from looking at some bars, it may look at a bar again, and both *)
(* streaks begin anew when a round of the symbol is closed.  All           *)
(* indicators have one timeframe; how an indicator or the model comes to   *)
(* its opinion is left out.                                                *)
(***************************************************************************)
EXTENDS Integers, Sequences

CONSTANTS
  SignalModes, \* subset of {"indicators", "ml", "indicators_ml"}
  Enabled,   \* enabled indicators
  MinAgree, MinMargin, \* indicator_min_agree, indicator_min_margin
  Need,      \* confirm_bars
  MlNeed,    \* ml.confirm_bars
  Sides,     \* values of cfg.side
  LastBar,   \* bound: closed bars
  NoSide

Logics == {"all", "any", "threshold", "majority"}

ASSUME SignalsAssumption ==
  /\ SignalModes \subseteq {"indicators", "ml", "indicators_ml"}
  /\ {Enabled, MinAgree, MinMargin, Need, MlNeed} \subseteq Nat \ {0}
  /\ Sides \subseteq {"BUY", "SELL", "BOTH"}
  /\ LastBar \in Nat
  /\ NoSide \notin {"BUY", "SELL"}

VARIABLES
  config,   \* mode, logic and allowed side
  closed,   \* the closed bars: votes for and against, the model's opinion
  streak,   \* of the indicators (streak_side, streak_count, streak_bar_ts) and
            \* of the model (ml_streak_side, ml_streak_count, ml_streak_bar_ts)
  signal,   \* what the last evaluation went on with: its side and bar
  looks,    \* history: per source the bars it gave an opinion on since the
            \* start, each with its last one
  smooth,   \* history: every bar had its opinions, under one configuration
  breaks    \* history: while smooth, a look was blind (no bars or no model),
            \* a close reset the streaks

signalsVars == <<config, closed, streak, signal, looks, smooth, breaks>>

Sources == {"ind", "ml"}
Opinions == {"BUY", "SELL", NoSide}
Votes == {v \in [buys : 0 .. Enabled, sells : 0 .. Enabled, ml : Opinions] :
            v.buys + v.sells <= Enabled}

\* Whom a mode asks.  What nobody asks is left out of the bars.
Asks == CASE config.mode = "indicators" -> {"ind"}
          [] config.mode = "ml" -> {"ml"}
          [] config.mode = "indicators_ml" -> Sources
Asked == {v \in Votes : /\ config.mode = "indicators" => v.ml = NoSide
                        /\ config.mode = "ml" => v.buys + v.sells = 0}
Streaks == [side : Opinions, count : Nat, bar : 0 .. LastBar]
NoStreak == [side |-> NoSide, count |-> 0, bar |-> 0]
NoSignal == [side |-> NoSide, bar |-> 0]

-----------------------------------------------------------------------------
(* indicators.combine_signals *)

CombineSignals(buys, sells, logic) ==
  LET wins(mine, theirs) ==
        CASE logic = "all"       -> mine = Enabled
          [] logic = "any"       -> mine > 0 /\ theirs = 0
          [] logic = "threshold" -> mine >= MinAgree /\ theirs = 0
          [] logic = "majority"  -> mine - theirs >= MinMargin
  IN IF wins(buys, sells) THEN "BUY" ELSE IF wins(sells, buys) THEN "SELL" ELSE NoSide

Verdict(v) == CombineSignals(v.buys, v.sells, config.logic)

\* Only the allowed side goes on.
Allowed(side) == IF config.side \in {"BOTH", side} THEN side ELSE NoSide

\* ml_entry.predict_signal looks at the allowed side before the streak does.
MlVerdict(v) == Allowed(v.ml)

Opinion(source, v) == IF source = "ind" THEN Verdict(v) ELSE MlVerdict(v)

-----------------------------------------------------------------------------
(* The live manager *)

SignalsInit ==
  /\ config \in [mode : SignalModes, logic : Logics, side : Sides]
  /\ closed = <<>>
  /\ streak = [source \in Sources |-> NoStreak]
  /\ signal = NoSignal
  /\ looks = [source \in Sources |-> <<>>]
  /\ smooth = TRUE
  /\ breaks = {}

Lengthen(count, side, last) ==
  CASE side = NoSide -> 0
    [] side # NoSide /\ side = last -> count + 1
    [] side # NoSide /\ side # last -> 1

\* mutant: a bar counts each time it is looked at.
AfterBarEachLook(s, side, bar) ==
  [side |-> side, count |-> Lengthen(s.count, side, s.side), bar |-> bar]

\* A new bar lengthens the streak or starts one; the same bar only starts one,
\* when its verdict has changed.
AfterBar(s, side, bar) ==
  IF bar # s.bar THEN [side |-> side, count |-> Lengthen(s.count, side, s.side), bar |-> bar]
  ELSE IF side # s.side THEN [s EXCEPT !.side = side, !.count = IF side = NoSide THEN 0 ELSE 1]
  ELSE s

Confirmed(s, need) == IF s.count >= need THEN s.side ELSE NoSide

\* Without 30 bars no indicator votes: the streak loses its side but keeps its bar.
AfterNoBars(s) == [s EXCEPT !.side = NoSide, !.count = 0]

\* The streak of a source after a look that only those in able give an opinion on.  A
\* model that is switched off, or has no 30 bars, leaves its streak alone.
AfterLook(source, able) ==
  LET bar == Len(closed) IN
  CASE source \in able -> AfterBar(streak[source], Opinion(source, closed[bar]), bar)
    [] source \in Asks \ able /\ source = "ind" -> AfterNoBars(streak[source])
    [] OTHER -> streak[source]

\* What a look that leaves the streaks s goes on with.  In the combined mode both must
\* have the same side.
Side(s, able) ==
  LET ind == Allowed(Confirmed(s["ind"], Need))
      ml == IF "ml" \in able THEN Confirmed(s["ml"], MlNeed) ELSE NoSide
  IN CASE config.mode = "indicators" -> ind
       [] config.mode = "ml" -> ml
       [] config.mode = "indicators_ml" -> IF ind = ml THEN ind ELSE NoSide

LastSeen(source) ==
  IF looks[source] = <<>> THEN 0 ELSE looks[source][Len(looks[source])].bar

\* A bar closes.  When the one before was not looked at, it never will be.
NewBar ==
  /\ Len(closed) < LastBar
  /\ \E v \in Asked : closed' = Append(closed, v)
  /\ smooth' = (smooth /\ \A source \in Asks : LastSeen(source) = Len(closed))
  /\ breaks' = IF smooth' THEN breaks ELSE {}
  /\ UNCHANGED <<config, streak, signal, looks>>

Broken(by) == IF smooth THEN breaks \cup {by} ELSE {}

Noted(seq, entry) ==
  IF seq # <<>> /\ seq[Len(seq)].bar = entry.bar THEN [seq EXCEPT ![Len(seq)] = entry]
  ELSE Append(seq, entry)

\* An evaluation comes as far as the signals and asks those its mode needs; the able ones
\* have 30 bars and, the model, are switched on.
Look ==
  /\ closed # <<>>
  /\ \E able \in SUBSET Asks :
       LET bar == Len(closed)
           s == [source \in Sources |-> AfterLook(source, able)]
       IN /\ streak' = s
          /\ signal' = [side |-> Side(s, able), bar |-> bar]
          /\ looks' = [source \in Sources |->
                         IF source \in able
                         THEN Noted(looks[source],
                                    [bar |-> bar, side |-> Opinion(source, closed[bar])])
                         ELSE looks[source]]
          /\ breaks' = IF able = Asks THEN breaks ELSE Broken("blind")
  /\ UNCHANGED <<config, closed, smooth>>

\* A basket, the round of a symbol or the whole account was closed: reset_symbol_signal or
\* reset_all_signals.  The cached result of the last look stays.
ResetSignals ==
  /\ closed # <<>>
  /\ streak' = [source \in Sources |-> NoStreak]
  /\ breaks' = Broken("reset")
  /\ UNCHANGED <<config, closed, signal, looks, smooth>>

\* The user saves another logic or side; the streaks stay.
Reconfigure ==
  /\ closed # <<>>
  /\ \E l \in Logics, d \in Sides : config' = [config EXCEPT !.logic = l, !.side = d]
  /\ config' # config
  /\ smooth' = FALSE
  /\ breaks' = {}
  /\ signal' = NoSignal
  /\ UNCHANGED <<closed, streak, looks>>

\* The server restarts and the streaks begin anew.
Restart ==
  /\ looks # [source \in Sources |-> <<>>]
  /\ streak' = [source \in Sources |-> NoStreak]
  /\ signal' = NoSignal
  /\ looks' = [source \in Sources |-> <<>>]
  /\ smooth' = FALSE
  /\ breaks' = {}
  /\ UNCHANGED <<config, closed>>

SignalsNext == NewBar \/ Look \/ ResetSignals \/ Reconfigure \/ Restart

SignalsSpec == SignalsInit /\ [][SignalsNext]_signalsVars

-----------------------------------------------------------------------------
(* The backtest *)

\* mutant: another side goes on counting.
ExtendAnySide(s, side) ==
  [side |-> side, count |-> IF side = NoSide THEN 0 ELSE s.count + 1]

Extend(s, side) == [side |-> side, count |-> Lengthen(s.count, side, s.side)]

ReplayStart == [ind |-> [side |-> NoSide, count |-> 0], ml |-> [side |-> NoSide, count |-> 0],
                enter |-> NoSide]

\* One turn of the loop of run_backtest, on bar v: both streaks, and the side it would enter
\* with.  In the combined mode the model is asked only when the indicators are confirmed,
\* and otherwise its streak stays as it is.
ReplayStep(before, v) ==
  LET ind == IF config.mode = "ml" THEN before.ind ELSE Extend(before.ind, Verdict(v))
      indSide == Confirmed(ind, Need)
      asked == config.mode = "ml" \/ (config.mode = "indicators_ml" /\ indSide # NoSide)
      ml == IF asked THEN Extend(before.ml, v.ml) ELSE before.ml
      mlSide == Confirmed(ml, MlNeed)
      side == CASE config.mode = "indicators" -> indSide
                [] config.mode = "ml" -> mlSide
                [] config.mode = "indicators_ml" ->
                     IF asked /\ mlSide = indSide THEN indSide ELSE NoSide
  IN [ind |-> ind, ml |-> ml, enter |-> Allowed(side)]

\* The loop: where it stands after bar i.
Replay[i \in 0 .. Len(closed)] ==
  IF i = 0 THEN ReplayStart ELSE ReplayStep(Replay[i - 1], closed[i])

-----------------------------------------------------------------------------
SignalsTypeOK ==
  /\ config \in [mode : SignalModes, logic : Logics, side : Sides]
  /\ closed \in Seq(Votes) /\ Len(closed) <= LastBar
  /\ streak \in [Sources -> Streaks]
  /\ signal \in [side : Opinions, bar : 0 .. LastBar]
  /\ looks \in [Sources -> Seq([bar : 1 .. LastBar, side : Opinions])]
  /\ smooth \in BOOLEAN
  /\ breaks \subseteq {"blind", "reset"}

\* A streak is earned: the last bars a source had an opinion on, as many as its streak
\* counts, all had its side when they were looked at last, however often that was and
\* whatever was saved or closed in between.  (Bars nobody looked at do not break it.)
StreaksAreEarned ==
  \A source \in Asks :
    LET n == Len(looks[source]) IN
    /\ streak[source].count <= n
    /\ \A k \in n - streak[source].count + 1 .. n : looks[source][k].side = streak[source].side

AtTheLastBar == smooth /\ signal.bar > 0 /\ signal.bar = Len(closed)

\* What the live manager goes on with after bars that were all looked at, the backtest
\* enters with, whatever was closed in between: closes and looks without bars only make
\* the live manager wait longer.  Without them it goes on exactly when the backtest
\* enters.  It holds when the indicators or the model decide alone.
LiveIsReplayed ==
  AtTheLastBar =>
    /\ signal.side \in {NoSide, Replay[Len(closed)].enter}
    /\ breaks = {} => signal.side = Replay[Len(closed)].enter

\* "Replays the SAME signal code the live EntryManager uses" (backtest.py:3): after bars
\* that all had their opinions both go on with the same side.  The closes of the live
\* manager break it.
ReplayAgrees ==
  AtTheLastBar /\ "blind" \notin breaks => signal.side = Replay[Len(closed)].enter
=============================================================================
