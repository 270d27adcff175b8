----------------------------- MODULE MCEntries -----------------------------
(* Entries with the supervisor and the workers of two connections: the one in
   use, and one that has been evicted and not yet cancelled. *)
EXTENDS Entries

CONSTANTS worker, evicted, supervisor

MCTasks == {worker, evicted, supervisor}
MCCancellable == {worker, evicted}
MCModes == {"bars", "schedule", "interval", "price"}
=============================================================================
