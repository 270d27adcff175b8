--------------------------- MODULE SnapshotChannel ---------------------------
(***************************************************************************)
(* What the users of a PositionStore can count on, with no burst, queue or *)
(* handler in sight: the store is always one whole snapshot.  Snapshots    *)
(* replace it in the order in which the EA took them from the account, and *)
(* all that are on their way may be lost at once.                          *)
(*                                                                         *)
(* SnapshotFlow is shown to implement this, and CloseRounds is built on it.*)
(***************************************************************************)
EXTENDS Sequences

CONSTANT Tickets

VARIABLES book, coming, store

vars == <<book, coming, store>>

Init ==
  /\ book \in SUBSET Tickets
  /\ coming = <<>>
  /\ store \in {{}, book}

\* Positions open and close.
Change(b) == book' = b /\ UNCHANGED <<coming, store>>

\* The EA takes a snapshot, of what it may have changed in the same handler.
Take(b) == book' = b /\ coming' = Append(coming, b) /\ UNCHANGED store

\* The worker comes to its end, and it replaces the store.
Arrive ==
  /\ coming # <<>>
  /\ store' = Head(coming)
  /\ coming' = Tail(coming)
  /\ UNCHANGED book

\* The connection ends.
Lose == coming' = <<>> /\ UNCHANGED <<book, store>>

Next == (\E b \in SUBSET Tickets : Change(b) \/ Take(b)) \/ Arrive \/ Lose

Spec == Init /\ [][Next]_vars
=============================================================================
