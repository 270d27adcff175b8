--------------------------- MODULE MCSnapshotFlow ---------------------------
(* The two streams of the EA: SnapshotFlow with two tickets, an evaluator task and a
   dashboard request, and Deals with two positions.  They share no variable, so one
   run is enough for both, in which one of them moves and the other rests. *)
EXTENDS SnapshotFlow, Deals

CONSTANTS evaluator, request

MCWaiters == {evaluator, request}
MCEvaluators == {evaluator}

\* The other stream has not begun.
NoDealsYet == DealsInit /\ deals = <<>>
NoSnapshotYet == Init /\ book = {}

StreamsInit == Init /\ DealsInit /\ (NoDealsYet \/ NoSnapshotYet)
StreamsNext ==
  \/ NoDealsYet /\ Next /\ UNCHANGED dealsVars
  \/ NoSnapshotYet /\ DealsNext /\ UNCHANGED vars

StreamsSpec == StreamsInit /\ [][StreamsNext]_<<vars, dealsVars>> /\ Fairness
=============================================================================
