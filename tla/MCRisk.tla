------------------------------- MODULE MCRisk -------------------------------
(* Risk with one family of rules at a time: the timed closes over Thursday and
   Friday, both account trailings with different arms, the stops of a ticket
   with initial stops by distance and by ATR. *)
EXTENDS Risk, TLC

CONSTANTS spawned, supervisor, ticket

MCCallers == {spawned, supervisor}
Symmetry == Permutations(MCCallers)
MCTickets == {ticket}
MCTotals == -1 .. 3
MCPrices == 3 .. 5

Rules(on) == [r \in {"time", "weekend", "usd", "pct", "initial", "atr", "breakeven", "trail"} |->
                r \in on]
MCConfigs == {Rules({"time"}), Rules({"time", "weekend"}), Rules({"weekend"}),
              Rules({"usd", "pct"}), Rules({"initial", "breakeven", "trail"}),
              Rules({"initial", "atr", "trail"})}
=============================================================================
