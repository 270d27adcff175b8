------------------------------ MODULE MCBaskets ------------------------------
(* Baskets with a group of two hedges and one pyramid step; DCA and grid, which a
   visit handles like a pyramid, are disabled.  With up to three tickets everything
   happens; a fourth one, which the hedges need to exceed their limit, only where
   nothing but hedges is added and the manager closes no basket. *)
EXTENDS Baskets, TLC

CONSTANTS worker, supervisor

VARIABLE hedging \* the behaviour is one of the latter

MCCallers == {worker, supervisor}
Symmetry == Permutations(MCCallers)
MCLimit == [r \in Range(Adds) |-> CASE r = "Hedge" -> 2 [] r = "Pyramid" -> 1 [] OTHER -> 0]

FewTickets == Cardinality(tickets') <= 3
OnlyHedges == \A c \in Callers : task'[c].pc # "close" /\ "Pyramid" \notin task'[c].plan

BasketsInit == Init /\ hedging \in BOOLEAN
BasketsNext == Next /\ UNCHANGED hedging /\ IF hedging THEN OnlyHedges ELSE FewTickets

BasketsSpec == BasketsInit /\ [][BasketsNext]_<<vars, hedging>>
=============================================================================
