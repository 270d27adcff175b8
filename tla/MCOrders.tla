------------------------------ MODULE MCOrders ------------------------------
(* What decides on orders: Signals with two indicators and streaks of two bars, the
   daily limit of Entries with two symbols, one of which three tasks evaluate and the
   other one of them, and GridJobs with two workers and two jobs that want opposite
   moves.  They share no variable, so one run is enough for the three: one of them
   moves and the others rest. *)
EXTENDS Signals, Entries, GridJobs, TLC

CONSTANTS gold, silver, worker1, worker2, supervisor, trend, dca, old, new

\* Signals
Alone == {"indicators", "ml"}
MCSides == {"BUY", "BOTH"}

\* Entries
MCSymbols == {gold, silver}
MCTasks == {worker1, worker2, supervisor}

\* The workers have the ticks of gold alone.
TicksOfGold == \A t \in MCTasks \ {supervisor} : task'[t].sym # silver

\* GridJobs
MCJobs == {trend, dca}
MCWorkers == {old, new}
MCSideOf == [j \in MCJobs |-> "BUY"]
MCDirection == trend :> "with" @@ dca :> "against"
MCPrices == 1 .. 3

\* The others have not begun; what the signals are configured for is one thing then.
NoBarYet == SignalsInit /\ config = [mode |-> "ml", logic |-> "all", side |-> "BOTH"]
NoEntryYet == Init
NoJobYet == GridInit

OrdersInit == SignalsInit /\ Init /\ GridInit

OrdersNext ==
  \/ NoEntryYet /\ NoJobYet /\ SignalsNext /\ UNCHANGED <<vars, gridVars>>
  \/ NoBarYet /\ NoJobYet /\ Next /\ TicksOfGold /\ UNCHANGED <<signalsVars, gridVars>>
  \/ NoBarYet /\ NoEntryYet /\ GridNext /\ UNCHANGED <<signalsVars, vars>>

OrdersSpec == OrdersInit /\ [][OrdersNext]_<<signalsVars, vars, gridVars>>
=============================================================================
