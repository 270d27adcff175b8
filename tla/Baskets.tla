------------------------------- MODULE Baskets -------------------------------
(***************************************************************************)
(* The PositionManager of one account (src/python/position_manager.py) on  *)
(* one symbol.  evaluate visits the BUY basket and then the SELL basket;   *)
(* each visit closes the basket, or tries the adds that are due: a hedge   *)
(* on the other side, then DCA, grid or pyramid on the same side.  The     *)
(* steps made so far are counted in a _BasketState that exists in memory   *)
(* only, while the tickets they opened live on the account.                *)
(*                                                                         *)
(* evaluate is called by the tasks that on_tick spawns and by the          *)
(* supervisor.  Profit, price and lots are inputs: the set of rules that   *)
(* are due.  The order of two rules, the limits, the counters, and what an *)
(* await can change are the model's.  An order or a close is a call of     *)
(* RemoteCalls, and the store shows the account late (SnapshotFlow).       *)
(***************************************************************************)
EXTENDS Naturals, FiniteSets, Functions

CONSTANTS
  Callers,      \* tasks that call evaluate
  Limit,        \* hedge_max_orders, dca_max_steps, grid_max_levels,
                \* pyr_max_steps by rule; 0 when the rule is disabled
  Ladder,       \* hedge_step_points > 0
  MaxPerBasket, \* max_positions_per_basket
  MaxRounds,    \* MAX_CLOSE_ROUNDS
  MaxTickets,   \* bound: tickets the broker ever opens
  None

Sides == {"BUY", "SELL"}
Adds == <<"Hedge", "DCA", "Grid", "Pyramid">>   \* in the order they are tried

ASSUME BasketsAssumption ==
  /\ Limit \in [Range(Adds) -> Nat]
  /\ Ladder \in BOOLEAN
  /\ MaxPerBasket \in Nat
  /\ MaxRounds \in Nat \ {0}
  /\ MaxTickets \in Nat \ {0}
  /\ None \notin [Range(Adds) -> Nat]

VARIABLES
  tickets,    \* every ticket ever opened
  book,       \* those that are open
  store,      \* PositionStore._positions
  late,       \* orders nobody waits for any more, still with the EA;
              \* bound: one at a time
  basket,     \* _baskets, by side: the counters of a _BasketState, or None
  cooling,    \* now - last_add_ts < add_cooldown_seconds
  evaluating, \* _evaluating; _acting is true only while it is
  task,       \* the local state of each caller
  excused     \* history: open tickets no counter stands for (see Uncounted)

account == <<tickets, book, store, late>>
vars == <<account, basket, cooling, evaluating, task, excused>>

-----------------------------------------------------------------------------
\* A ticket: n tells tickets of one side and kind apart.
Kinds == Range(Adds) \cup {"Seed"}
Tickets == [side : Sides, kind : Kinds, n : 1 .. MaxTickets]

\* pc: the await the caller is in; side: the basket it visits; plan: the due
\* rules it has not tried and, First of all, the one it carries out; left, opened:
\* orders of that rule to send and filled; todo, closed: of _close_basket (failed
\* is only reported).
States == [pc : {"idle", "order", "told", "trail", "close", "pause", "last", "report"},
           side : Sides, plan : SUBSET Range(Adds), left : Nat, opened : Nat,
           round : 0 .. MaxRounds - 1, todo : SUBSET Tickets, closed : SUBSET Tickets]
Idle == [pc |-> "idle", side |-> "BUY", plan |-> {}, left |-> 0, opened |-> 0, round |-> 0,
         todo |-> {}, closed |-> {}]

\* The rule of a plan that is tried first.
First(plan) ==
  Adds[CHOOSE i \in DOMAIN Adds : Adds[i] \in plan /\ \A j \in 1 .. i - 1 : Adds[j] \notin plan]

Opp(s) == IF s = "BUY" THEN "SELL" ELSE "BUY"

\* _managed_positions(symbol) of a side
Managed(s) == {t \in store : t.side = s}

\* _is_hedge_position, by the ticket's comment
Hedges(T) == {t \in T : t.kind = "Hedge"}

\* The open tickets that steps of rule r on basket s have opened.
StepsOf(s, r) == {t \in book : /\ t.kind = r
                               /\ t.side = IF r = "Hedge" THEN Opp(s) ELSE s}

Init ==
  /\ tickets = {[side |-> "BUY", kind |-> "Seed", n |-> 1]}
  /\ book = tickets
  /\ store = book
  /\ late = {}
  /\ basket = [s \in Sides |-> None]
  /\ cooling = [s \in Sides |-> FALSE]
  /\ evaluating = FALSE
  /\ task = [c \in Callers |-> Idle]
  /\ excused = {}

\* What a new set of counters leaves out: the steps of a basket whose state is
\* dropped, except hedges, and the hedges the store does not show when a state
\* is seeded.
Uncounted(dropped, seeded) ==
  (UNION {StepsOf(s, r) : s \in dropped, r \in {"DCA", "Grid", "Pyramid"}})
    \cup (UNION {StepsOf(s, "Hedge") \ store : s \in seeded})

-----------------------------------------------------------------------------
(* evaluate, _evaluate_sides, _manage_basket *)

\* mutant: hedges that are there already are not counted.
SeedForgetful(s) == [r \in Range(Adds) |-> 0]

\* A new _BasketState counts the hedges open against the basket and no step of
\* another rule.
Seed(s) == [r \in Range(Adds) |->
              IF r = "Hedge" THEN Cardinality(Hedges(Managed(Opp(s)))) ELSE 0]

\* The state of basket s when a visit begins.
Visited(s) ==
  IF Managed(s) = {} THEN None ELSE IF basket[s] = None THEN Seed(s) ELSE basket[s]

\* The adds a visit of s may find due.  A pyramid needs the price on the other
\* side of the reference than DCA and grid.
Plans(s) ==
  IF Managed(s) \ Hedges(Managed(s)) = {} \/ cooling[s] \/ Cardinality(Managed(s)) >= MaxPerBasket
    THEN {{}}
    ELSE {due \in SUBSET {r \in Range(Adds) : Visited(s)[r] < Limit[r]} :
            ~("Pyramid" \in due /\ due \cap {"DCA", "Grid"} # {})}

\* remaining: how many orders the first rule of a plan sends.
Remaining(s, r) == IF r = "Hedge" /\ ~Ladder THEN Limit[r] - Visited(s)[r] ELSE 1

\* gateway.open_order is called for the first rule of the plan.
SendOrder(c, s, plan, left, opened) ==
  task' = [task EXCEPT ![c] = [Idle EXCEPT !.pc = "order", !.side = s, !.plan = plan,
                                 !.left = left, !.opened = opened]]

\* The order caller c awaits.
Order(c) == LET r == First(task[c].plan)  s == task[c].side IN
  [side |-> IF r = "Hedge" THEN Opp(s) ELSE s, kind |-> r]

\* The ticket the EA gives to an order.
Ticket(order) ==
  [side |-> order.side, kind |-> order.kind,
   n |-> 1 + Cardinality({t \in tickets : t.side = order.side /\ t.kind = order.kind})]

\* The EA fills an order.
Fill(order) ==
  /\ Cardinality(tickets) < MaxTickets
  /\ tickets' = tickets \cup {Ticket(order)}
  /\ book' = book \cup {Ticket(order)}

\* The tickets of a close round: the basket and the hedges opened against it,
\* less closed_tickets.
ToClose(s, closed) == (Managed(s) \cup Hedges(Managed(Opp(s)))) \ closed

\* A round of _close_basket begins: the tickets are read and the first close is
\* sent, or nothing is left and the loop ends.
CloseRound(c, s, round, closed) ==
  LET todo == ToClose(s, closed) IN
    task' = [task EXCEPT ![c] = [Idle EXCEPT
               !.pc = IF todo = {} THEN "last" ELSE "close", !.side = s, !.round = round,
               !.todo = todo, !.closed = closed]]

\* One basket is visited after those in "before" had nothing to do: a close, or
\* the first due add, or nothing.  The next await ends the step.
VisitFrom(c, before, s) ==
  LET sides == before \cup {s} IN
  /\ basket' = [x \in Sides |-> IF x \in sides THEN Visited(x) ELSE basket[x]]
  /\ excused' = excused \cup Uncounted({x \in sides : Managed(x) = {}},
                                       {x \in sides : basket[x] = None /\ Managed(x) # {}})
  /\ \/ /\ Managed(s) # {}
        /\ CloseRound(c, s, 0, {})
        /\ evaluating' = TRUE
     \/ /\ Managed(s) # {}
        /\ \E plan \in Plans(s) \ {{}} : SendOrder(c, s, plan, Remaining(s, First(plan)), 0)
        /\ evaluating' = TRUE
     \/ /\ s = "SELL"
        /\ task' = [task EXCEPT ![c] = Idle]
        /\ evaluating' = FALSE
  /\ UNCHANGED <<tickets, book, store, cooling>>

\* mutant: nobody looks at _evaluating.
EvaluateUngated(c) ==
  /\ task[c].pc = "idle"
  /\ VisitFrom(c, {}, "BUY") \/ VisitFrom(c, {"BUY"}, "SELL")
  /\ UNCHANGED late

\* evaluate: the gate is taken in the same step as the first visits.
Evaluate(c) ==
  /\ task[c].pc = "idle"
  /\ ~evaluating
  /\ VisitFrom(c, {}, "BUY") \/ VisitFrom(c, {"BUY"}, "SELL")
  /\ UNCHANGED late

\* "finally": the evaluation is over.
End(c) ==
  /\ task' = [task EXCEPT ![c] = Idle]
  /\ evaluating' = FALSE

-----------------------------------------------------------------------------
(* _add_order and the counters *)

\* The order was filled: the next one of a group is sent, or telegram is told.
Filled(c) ==
  /\ task[c].pc = "order"
  /\ Fill(Order(c))
  /\ IF task[c].left > 1
       THEN SendOrder(c, task[c].side, task[c].plan, task[c].left - 1, task[c].opened + 1)
       ELSE task' = [task EXCEPT ![c].pc = "told", ![c].opened = @ + 1, ![c].left = 0]
  /\ UNCHANGED <<store, late, basket, cooling, evaluating, excused>>

\* The order was refused, or timed out and the EA may still fill it.  With
\* nothing opened the next due rule is tried, on the positions read before;
\* after the last one the evaluation goes on with the SELL basket.
NotFilled(c) ==
  /\ task[c].pc = "order"
  /\ UNCHANGED late \/ (late = {} /\ late' = {Order(c)})
  /\ LET s == task[c].side  rest == task[c].plan \ {First(task[c].plan)} IN
       IF task[c].opened = 0 /\ rest = {} /\ s = "BUY"
         THEN VisitFrom(c, {}, "SELL")
         ELSE /\ \/ /\ task[c].opened > 0
                    /\ task' = [task EXCEPT ![c].pc = "told", ![c].left = 0]
                    /\ UNCHANGED evaluating
                 \/ /\ task[c].opened = 0 /\ rest # {}
                    /\ SendOrder(c, s, rest, 1, 0)
                    /\ UNCHANGED evaluating
                 \/ task[c].opened = 0 /\ rest = {} /\ End(c)
              /\ UNCHANGED <<tickets, book, store, basket, cooling, excused>>

\* telegram was told (it never raises here: its one read of the local database that
\* is not guarded is left out): the steps are counted and the cooldown starts, from the
\* time the evaluation began, so it may be over.  A pyramid may trail its stops.
Told(c) ==
  /\ task[c].pc = "told"
  /\ LET s == task[c].side  r == First(task[c].plan) IN
       /\ basket' = [basket EXCEPT ![s] =
                       IF basket[s] = None THEN None
                       ELSE [basket[s] EXCEPT ![r] = @ + task[c].opened]]
       /\ \E cool \in BOOLEAN : cooling' = [cooling EXCEPT ![s] = cool]
       /\ \/ End(c)
          \/ /\ r = "Pyramid"
             /\ task' = [task EXCEPT ![c] = [Idle EXCEPT !.pc = "trail", !.side = s]]
             /\ UNCHANGED evaluating
  /\ UNCHANGED <<account, excused>>

\* _trail_basket has moved the stops, as far as the EA agreed.
Trailed(c) ==
  /\ task[c].pc = "trail"
  /\ End(c)
  /\ UNCHANGED <<account, basket, cooling, excused>>

-----------------------------------------------------------------------------
(* _close_basket *)

\* The call after the answer for t.
AfterClose(c, t) ==
  [task[c] EXCEPT !.todo = @ \ {t},
                  !.pc = IF task[c].todo # {t} THEN "close"
                         ELSE IF task[c].round < MaxRounds - 1 THEN "pause" ELSE "last"]

\* The EA closed the ticket, or found it closed.
Closed(c) ==
  /\ task[c].pc = "close"
  /\ \E t \in task[c].todo :
       /\ book' = book \ {t}
       /\ excused' = excused \ {t}
       /\ task' = [task EXCEPT ![c] = [AfterClose(c, t) EXCEPT !.closed = @ \cup {t}]]
  /\ UNCHANGED <<tickets, store, late, basket, cooling, evaluating>>

\* A refusal or a timeout.
NotClosed(c) ==
  /\ task[c].pc = "close"
  /\ \E t \in task[c].todo :
       task' = [task EXCEPT ![c] = AfterClose(c, t)]
  /\ UNCHANGED <<account, basket, cooling, evaluating, excused>>

\* The delay and refresh_snapshot are over: the next round.
NextRound(c) ==
  /\ task[c].pc = "pause"
  /\ CloseRound(c, task[c].side, task[c].round + 1, task[c].closed)
  /\ UNCHANGED <<account, basket, cooling, evaluating, excused>>

\* refresh_snapshot raises (the request cannot be sent): the close ends, and the
\* counters stay.
RefreshFails(c) ==
  /\ task[c].pc \in {"pause", "last"}
  /\ End(c)
  /\ UNCHANGED <<account, basket, cooling, excused>>

\* mutant: the state of the other side always goes too.
DropsBoth(s) == Sides

\* The states a close of basket s drops.
Drops(s) == {s} \cup {x \in {Opp(s)} : Managed(x) = {}}

\* The last refresh_snapshot is over: the counters go, the entry signals of the
\* symbol are reset, and telegram is told which tickets failed.
CloseEnds(c) ==
  /\ task[c].pc = "last"
  /\ basket' = [s \in Sides |-> IF s \in Drops(task[c].side) THEN None ELSE basket[s]]
  /\ excused' = excused \cup Uncounted(Drops(task[c].side), {})
  /\ task' = [task EXCEPT ![c].pc = "report"]
  /\ UNCHANGED <<account, cooling, evaluating>>

Reported(c) ==
  /\ task[c].pc = "report"
  /\ End(c)
  /\ UNCHANGED <<account, basket, cooling, excused>>

-----------------------------------------------------------------------------
(* The account and the process *)

manager == <<basket, cooling, evaluating, task>>

\* The EA comes to an order nobody waits for, or never does.
FillLate(order) ==
  /\ late' = late \ {order}
  /\ \/ UNCHANGED <<tickets, book, excused>>
     \/ Fill(order) /\ excused' = excused \cup {Ticket(order)}
  /\ UNCHANGED <<store, manager>>

\* An entry or a grid job opens a position with the account's magic.
OpenSeed(s) ==
  /\ Fill([side |-> s, kind |-> "Seed"])
  /\ UNCHANGED <<store, late, manager, excused>>

\* A stop, a target, or anyone else closes a position.
MarketClose(t) ==
  /\ book' = book \ {t}
  /\ excused' = excused \ {t}
  /\ UNCHANGED <<tickets, store, late, manager>>

\* A snapshot is handled.  How it travels is SnapshotFlow's subject: here the
\* store lags behind the account until the next one.
Snapshot == store' = book /\ UNCHANGED <<tickets, book, late, manager, excused>>

CooldownEnds(s) ==
  /\ cooling' = [cooling EXCEPT ![s] = FALSE]
  /\ UNCHANGED <<account, basket, evaluating, task, excused>>

\* The server restarts: everything in memory is gone.
Restart ==
  /\ store' = {}
  /\ basket' = [s \in Sides |-> None]
  /\ cooling' = [s \in Sides |-> FALSE]
  /\ evaluating' = FALSE
  /\ late' = late \cup {Order(c) : c \in {x \in Callers : task[x].pc = "order"}}
  /\ task' = [c \in Callers |-> Idle]
  /\ excused' = excused \cup Uncounted(Sides, {})
  /\ UNCHANGED <<tickets, book>>

-----------------------------------------------------------------------------
Steps(c) ==
  \/ Filled(c) \/ NotFilled(c) \/ Told(c) \/ Trailed(c)
  \/ Closed(c) \/ NotClosed(c) \/ NextRound(c) \/ RefreshFails(c) \/ CloseEnds(c)
  \/ Reported(c)

Next ==
  \/ \E c \in Callers : Evaluate(c) \/ Steps(c)
  \/ \E s \in Sides : OpenSeed(s) \/ CooldownEnds(s)
  \/ \E order \in late : FillLate(order)
  \/ \E t \in book : MarketClose(t)
  \/ Snapshot
  \/ Restart

Spec == Init /\ [][Next]_vars

-----------------------------------------------------------------------------
TypeOK ==
  /\ tickets \subseteq Tickets
  /\ book \subseteq tickets
  /\ store \subseteq tickets
  /\ late \subseteq [side : Sides, kind : Range(Adds)]
  /\ basket \in [Sides -> [Range(Adds) -> Nat] \cup {None}]
  /\ cooling \in [Sides -> BOOLEAN]
  /\ evaluating \in BOOLEAN
  /\ task \in [Callers -> States]
  /\ excused \subseteq book

\* The open steps of a rule stay within its limit although the counter is in
\* memory and the tickets are on the account.  Excused are the orders that were
\* filled after their caller gave up, hedges that were not in the store when a
\* basket was seeded, and the steps of a basket whose state was dropped (by a
\* restart, by a close that left tickets, or because the store did not show
\* the basket yet): only hedges are counted again.
LadderIsCounted ==
  \A s \in Sides, r \in Range(Adds) : Cardinality(StepsOf(s, r) \ excused) <= Limit[r]

\* position_manager.py:508: a basket that is still open keeps its step counters
\* when the other one closes.  Only a restart, its own close or a store without
\* the basket drops them, and no counter falls.
CountersSurvive ==
  [][\A s \in Sides :
       \/ basket[s] = None
       \/ Managed(s) = {}
       \/ \E c \in Callers : task[c].pc = "last" /\ task[c].side = s
       \/ basket'[s] # None /\ \A r \in Range(Adds) : basket'[s][r] >= basket[s][r]
       \/ Restart]_vars

\* position_manager.py:155: no close, hedge or pyramid is fired twice, and none
\* is fired never again.  One evaluation runs at a time, across all its awaits,
\* and the gate is closed exactly while one runs.
GateIsHeld ==
  LET running == {c \in Callers : task[c].pc # "idle"} IN
    Cardinality(running) = IF evaluating THEN 1 ELSE 0
=============================================================================
