---------------------------- MODULE BasketsProofs ----------------------------
(***************************************************************************)
(* What the position manager promises for any limits, callers and rounds.  *)
(* LadderIsCounted is not inductive: between the fill of an order and      *)
(* Told the step is open and not in its counter yet.  BasketsInv says that *)
(* the counter and what the one running caller has in hand cover the open  *)
(* steps, that what this caller still sends fits under the limit, and that *)
(* a side without counters has no step left to account for but hedges.     *)
(***************************************************************************)
EXTENDS Baskets, FiniteSetTheorems, SequenceTheorems, TLAPS

USE BasketsAssumption

Rules == Range(Adds)

\* One caller at most is past the gate, and the gate is closed while one is.
OneRuns ==
  /\ \A c, d \in Callers : task[c].pc # "idle" /\ task[d].pc # "idle" => c = d
  /\ evaluating <=> \E c \in Callers : task[c].pc # "idle"

\* The caller with local state x carries out a rule: what is counted, what it has
\* opened and what it still sends stay within the limit of that rule, and no rule of
\* its plan has reached its own.
Adding(x) == x.pc \in {"order", "told"}
Right(counters, x) ==
  /\ Adding(x) => x.plan # {} /\ counters[x.side] # None
  /\ x.pc = "pause" => x.round < MaxRounds - 1
  /\ x.pc = "order" =>
       /\ x.left > 0
       /\ counters[x.side][First(x.plan)] + x.opened + x.left <= Limit[First(x.plan)]
       /\ \A r \in x.plan : counters[x.side][r] < Limit[r]
CallersAreRight == \A c \in Callers : Right(basket, task[c])

\* The open steps that are not excused, and those that x has opened but not counted.
Counted(s, r) == StepsOf(s, r) \ excused
Open(s, r) == Cardinality(Counted(s, r))
Extra(x, s, r) ==
  IF Adding(x) /\ x.side = s /\ First(x.plan) = r THEN x.opened ELSE 0

\* The counters of a basket, with the steps in hand, cover its open steps.
Ladders ==
  \A s \in Sides, r \in Rules :
    /\ Open(s, r) <= Limit[r]
    /\ basket[s] = None /\ r # "Hedge" => Counted(s, r) = {}
    /\ basket[s] # None =>
         \/ Open(s, r) <= basket[s][r]
         \/ \E c \in Callers : Open(s, r) <= basket[s][r] + Extra(task[c], s, r)

BasketTypes == TypeOK /\ IsFiniteSet(tickets)
BasketsInv == BasketTypes /\ OneRuns /\ CallersAreRight /\ Ladders

LEMMA RulesListed == Rules = {"Hedge", "DCA", "Grid", "Pyramid"}
  BY DEF Rules, Range, Adds

\* A plan's first rule is one of the plan.
LEMMA FirstIsOfPlan ==
  ASSUME NEW plan \in SUBSET Rules, plan # {}
  PROVE  First(plan) \in plan
<1> DEFINE P(i) == Adds[i] \in plan /\ \A j \in 1 .. i - 1 : Adds[j] \notin plan
<1>1. DOMAIN Adds = 1 .. 4 /\ Adds[1] = "Hedge" /\ Adds[2] = "DCA" /\ Adds[3] = "Grid"
      /\ Adds[4] = "Pyramid"
  BY DEF Adds
<1>2. \E i \in DOMAIN Adds : P(i)
  <2>1. CASE "Hedge" \in plan
    <3>1. P(1)
      BY <1>1, <2>1
    <3> QED
      BY <1>1, <3>1
  <2>2. CASE "Hedge" \notin plan /\ "DCA" \in plan
    <3>1. \A j \in 1 .. 2 - 1 : j = 1
      OBVIOUS
    <3>2. P(2)
      BY <1>1, <2>2, <3>1
    <3> QED
      BY <1>1, <3>2
  <2>3. CASE "Hedge" \notin plan /\ "DCA" \notin plan /\ "Grid" \in plan
    <3>1. \A j \in 1 .. 3 - 1 : j = 1 \/ j = 2
      OBVIOUS
    <3>2. P(3)
      BY <1>1, <2>3, <3>1
    <3> QED
      BY <1>1, <3>2
  <2>4. CASE "Hedge" \notin plan /\ "DCA" \notin plan /\ "Grid" \notin plan
    <3>1. \A j \in 1 .. 4 - 1 : j = 1 \/ j = 2 \/ j = 3
      OBVIOUS
    <3>2. "Pyramid" \in plan
      BY <2>4, RulesListed
    <3>3. P(4)
      BY <1>1, <2>4, <3>1, <3>2
    <3> QED
      BY <1>1, <3>3
  <2> QED
    BY <2>1, <2>2, <2>3, <2>4
<1> QED
  BY <1>2 DEF First

LEMMA OppIsSide == \A s \in Sides : Opp(s) \in Sides /\ Opp(s) # s
  BY DEF Opp, Sides

LEMMA IdleState ==
  /\ Idle \in States /\ Idle.pc = "idle"
         /\ \A counters : Right(counters, Idle)
         /\ \A s, r : Extra(Idle, s, r) = 0
  BY DEF BasketsAssumption, Idle, States, Sides, Right, Adding, Extra

\* The EA opens a ticket nobody had before.
LEMMA FillAdds ==
  ASSUME BasketTypes, MaxTickets \in Nat, NEW order \in [side : Sides, kind : Kinds], Fill(order)
  PROVE  /\ Ticket(order) \in Tickets
         /\ Ticket(order).side = order.side /\ Ticket(order).kind = order.kind
         /\ tickets' = tickets \cup {Ticket(order)} /\ tickets' \subseteq Tickets
         /\ IsFiniteSet(tickets') /\ book' = book \cup {Ticket(order)}
<1> DEFINE same == {t \in tickets : t.side = order.side /\ t.kind = order.kind}
<1>1. IsFiniteSet(same) /\ Cardinality(same) <= Cardinality(tickets)
      /\ Cardinality(same) \in Nat /\ Cardinality(tickets) \in Nat
  BY FS_Subset, FS_CardinalityType DEF BasketTypes
<1>2. 1 + Cardinality(same) \in 1 .. MaxTickets
  <2>1. Cardinality(tickets) < MaxTickets
    BY DEF Fill
  <2> HIDE DEF same
  <2> QED
    BY <1>1, <2>1
<1>3. Ticket(order) = [side |-> order.side, kind |-> order.kind, n |-> 1 + Cardinality(same)]
  BY Zenon DEF Ticket
<1> HIDE DEF same
<1>4. Ticket(order) \in Tickets
  BY <1>2, <1>3 DEF Tickets
<1>5. tickets' = tickets \cup {Ticket(order)} /\ book' = book \cup {Ticket(order)}
  BY DEF Fill
<1>6. IsFiniteSet(tickets')
  BY <1>5, FS_AddElement DEF BasketTypes
<1> QED
  BY <1>3, <1>4, <1>5, <1>6 DEF BasketTypes, TypeOK

LEMMA CountsAreFinite ==
  ASSUME BasketTypes
  PROVE  /\ IsFiniteSet(book)
         /\ \A s, r : IsFiniteSet(Counted(s, r)) /\ Open(s, r) \in Nat
<1>1. IsFiniteSet(book)
  BY FS_Subset DEF BasketTypes, TypeOK
<1>2. ASSUME NEW s, NEW r PROVE IsFiniteSet(Counted(s, r)) /\ Open(s, r) \in Nat
  <2>1. Counted(s, r) \subseteq book
    BY DEF Counted, StepsOf
  <2>2. IsFiniteSet(Counted(s, r))
    BY <1>1, <2>1, FS_Subset
  <2> QED
    BY <2>2, FS_CardinalityType DEF Open
<1> QED
  BY <1>1, <1>2

\* Caller c gets the local state x.
LEMMA TaskMoves ==
  ASSUME BasketsInv, NEW c \in Callers, NEW x \in States,
         task' = [task EXCEPT ![c] = x], task[c].pc # "idle" \/ ~evaluating,
         evaluating' = (x.pc # "idle"), Right(basket', x)
  PROVE  /\ task' \in [Callers -> States] /\ OneRuns' /\ CallersAreRight'
         /\ evaluating' \in BOOLEAN /\ task'[c] = x
         /\ \A d \in Callers \ {c} : task[d].pc = "idle" /\ task'[d] = task[d]
<1>1. task \in [Callers -> States]
  BY DEF BasketsInv, BasketTypes, TypeOK
<1>2. task'[c] = x /\ \A d \in Callers \ {c} : task'[d] = task[d]
  BY <1>1
<1>3. task' \in [Callers -> States]
  BY <1>1
<1>4. \A d \in Callers \ {c} : task[d].pc = "idle"
  BY DEF BasketsInv, OneRuns
<1>5. OneRuns'
  <2>1. \A d \in Callers : task'[d].pc # "idle" => d = c
    BY <1>2, <1>4
  <2>2. (\E d \in Callers : task'[d].pc # "idle") <=> x.pc # "idle"
    BY <1>2, <2>1
  <2> QED
    BY <2>1, <2>2 DEF OneRuns
<1>6. CallersAreRight'
  <2> SUFFICES ASSUME NEW d \in Callers PROVE Right(basket', task'[d])
    BY DEF CallersAreRight
  <2>1. CASE d = c
    BY <1>2, <2>1
  <2>2. CASE d # c
    BY <1>2, <1>4, <2>2 DEF Right, Adding
  <2> QED
    BY <2>1, <2>2
<1> QED
  BY <1>2, <1>3, <1>4, <1>5, <1>6

\* Nothing is opened: the counters stay, are dropped or begin anew.
LEMMA LaddersFollow ==
  ASSUME BasketTypes, BasketTypes', Ladders,
         \A s \in Sides, r \in Rules : Counted(s, r)' \subseteq Counted(s, r),
         \A s \in Sides, r \in Rules :
           \/ /\ basket'[s] = basket[s]
              /\ \A c \in Callers : Extra(task[c], s, r) <= Extra(task'[c], s, r)
           \/ basket'[s] = None /\ (r # "Hedge" => Counted(s, r)' = {})
           \/ basket'[s] # None /\ Open(s, r)' <= basket'[s][r]
  PROVE  Ladders'
<1> SUFFICES ASSUME NEW s \in Sides, NEW r \in Rules
             PROVE  /\ Open(s, r)' <= Limit[r]
                    /\ basket'[s] = None /\ r # "Hedge" => Counted(s, r)' = {}
                    /\ basket'[s] # None =>
                         \/ Open(s, r)' <= basket'[s][r]
                         \/ \E c \in Callers : Open(s, r)' <= basket'[s][r] + Extra(task'[c], s, r)
  BY DEF Ladders
<1>1. Open(s, r) \in Nat /\ Open(s, r)' \in Nat /\ Open(s, r)' <= Open(s, r)
  <2>1. IsFiniteSet(Counted(s, r)) /\ Counted(s, r)' \subseteq Counted(s, r)
    BY CountsAreFinite
  <2>2. /\ Cardinality(Counted(s, r)') <= Cardinality(Counted(s, r))
        /\ Cardinality(Counted(s, r)') \in Nat /\ Cardinality(Counted(s, r)) \in Nat
    BY <2>1, FS_Subset, FS_CardinalityType
  <2> QED
    BY <2>2 DEF Open
<1>2. Limit[r] \in Nat
  BY DEF BasketsAssumption, Rules
<1>3. /\ Open(s, r) <= Limit[r]
      /\ basket[s] = None /\ r # "Hedge" => Counted(s, r) = {}
      /\ basket[s] # None =>
           \/ Open(s, r) <= basket[s][r]
           \/ \E c \in Callers : Open(s, r) <= basket[s][r] + Extra(task[c], s, r)
  BY DEF Ladders
<1>4. basket[s] # None => basket[s][r] \in Nat
  BY DEF BasketTypes, TypeOK, Rules
<1>5. \A c \in Callers : Extra(task[c], s, r) \in Nat /\ Extra(task'[c], s, r) \in Nat
  BY DEF BasketTypes, TypeOK, Extra, States
<1>6. Open(s, r)' <= Limit[r]
  BY <1>1, <1>2, <1>3
<1>7. CASE /\ basket'[s] = basket[s]
           /\ \A c \in Callers : Extra(task[c], s, r) <= Extra(task'[c], s, r)
  <2>1. CASE basket[s] = None
    BY <1>3, <1>6, <1>7, <2>1
  <2>2. CASE basket[s] # None /\ Open(s, r) <= basket[s][r]
    BY <1>1, <1>4, <1>6, <1>7, <2>2
  <2>3. ASSUME NEW c \in Callers, basket[s] # None,
               Open(s, r) <= basket[s][r] + Extra(task[c], s, r)
        PROVE  Open(s, r)' <= basket'[s][r] + Extra(task'[c], s, r)
    <3>1. Extra(task[c], s, r) <= Extra(task'[c], s, r)
      BY <1>7
    <3>2. Open(s, r)' <= basket[s][r] + Extra(task'[c], s, r)
      BY <1>1, <1>4, <1>5, <2>3, <3>1
    <3> QED
      BY <1>7, <3>2
  <2> QED
    BY <1>3, <1>6, <1>7, <2>1, <2>2, <2>3
<1>8. CASE basket'[s] = None /\ (r # "Hedge" => Counted(s, r)' = {})
  BY <1>6, <1>8
<1>9. CASE basket'[s] # None /\ Open(s, r)' <= basket'[s][r]
  BY <1>6, <1>9
<1> QED
  BY <1>7, <1>8, <1>9

LEMMA InitBaskets == ASSUME Init PROVE BasketsInv
<1> DEFINE seed == [side |-> "BUY", kind |-> "Seed", n |-> 1]
<1>1. seed \in Tickets
  BY DEF Tickets, Sides, Kinds, BasketsAssumption
<1>2. /\ tickets = {seed} /\ book = {seed} /\ store = {seed} /\ late = {}
      /\ basket = [s \in Sides |-> None] /\ cooling = [s \in Sides |-> FALSE]
      /\ evaluating = FALSE /\ task = [c \in Callers |-> Idle] /\ excused = {}
  BY DEF Init
<1>3. IsFiniteSet(tickets)
  BY <1>2, FS_Singleton
<1>4. TypeOK
  <2>1. task \in [Callers -> States]
    BY <1>2, IdleState
  <2> QED
    BY <1>1, <1>2, <2>1 DEF TypeOK
<1>5. OneRuns /\ CallersAreRight
  BY <1>2, IdleState DEF OneRuns, CallersAreRight
<1>6. Ladders
  <2>1. ASSUME NEW s \in Sides, NEW r \in Rules PROVE Counted(s, r) = {}
    <3>1. seed.kind # r
      BY RulesListed
    <3> QED
      BY <1>2, <3>1 DEF Counted, StepsOf
  <2>2. \A r \in Rules : Limit[r] \in Nat
    BY DEF BasketsAssumption, Rules
  <2>3. \A s \in Sides, r \in Rules : Open(s, r) = 0 /\ basket[s] = None
    BY <1>2, <2>1, FS_EmptySet DEF Open
  <2> QED
    BY <2>1, <2>2, <2>3 DEF Ladders
<1> QED
  BY <1>3, <1>4, <1>5, <1>6 DEF BasketsInv, BasketTypes

\* The local state of a caller that sends an order, and that closes.
LEMMA SentState ==
  ASSUME NEW c \in Callers, NEW s \in Sides, NEW plan \in SUBSET Rules,
         NEW left \in Nat, NEW opened \in Nat, SendOrder(c, s, plan, left, opened)
  PROVE  \E x \in States :
           /\ task' = [task EXCEPT ![c] = x]
           /\ x.pc = "order" /\ x.side = s /\ x.plan = plan /\ x.left = left /\ x.opened = opened
<1>1. PICK x : x = [Idle EXCEPT !.pc = "order", !.side = s, !.plan = plan,
                                !.left = left, !.opened = opened]
  OBVIOUS
<1>2. x \in States /\ x.pc = "order" /\ x.side = s /\ x.plan = plan /\ x.left = left
      /\ x.opened = opened
  <2>1. Idle \in States
    BY IdleState
  <2>2. x \in States
    BY <1>1, <2>1 DEF States, Rules
  <2> QED
    BY <1>1, <2>1, <2>2 DEF States
<1>3. task' = [task EXCEPT ![c] = x]
  BY <1>1 DEF SendOrder
<1> QED
  BY <1>2, <1>3

LEMMA ClosingState ==
  ASSUME BasketTypes, NEW c \in Callers, NEW s \in Sides, NEW round \in 0 .. MaxRounds - 1,
         NEW closed \in SUBSET Tickets, CloseRound(c, s, round, closed)
  PROVE  \E x \in States : task' = [task EXCEPT ![c] = x] /\ x.pc \in {"close", "last"}
<1>1. PICK todo : todo = ToClose(s, closed)
  OBVIOUS
<1>2. todo \subseteq Tickets
  BY <1>1 DEF ToClose, Managed, Hedges, BasketTypes, TypeOK
<1>3. PICK x : x = [Idle EXCEPT !.pc = IF todo = {} THEN "last" ELSE "close", !.side = s,
                                !.round = round, !.todo = todo, !.closed = closed]
  OBVIOUS
<1>4. x \in States /\ x.pc \in {"close", "last"}
  BY <1>2, <1>3 DEF States, Idle
<1>5. task' = [task EXCEPT ![c] = x]
  BY <1>1, <1>3 DEF CloseRound
<1> QED
  BY <1>4, <1>5

\* The counters of a basket that is visited.
LEMMA VisitedCounters ==
  ASSUME BasketTypes, NEW s \in Sides
  PROVE  /\ Seed(s) \in [Rules -> Nat] /\ Seed(s) # None
         /\ Managed(s) = {} => Visited(s) = None
         /\ Managed(s) # {} =>
              /\ Visited(s) \in [Rules -> Nat] /\ Visited(s) # None
              /\ Visited(s) = IF basket[s] = None THEN Seed(s) ELSE basket[s]
<1> DEFINE shown == Hedges(Managed(Opp(s)))
<1>1. Cardinality(shown) \in Nat
  <2>1. shown \subseteq tickets
    BY DEF Hedges, Managed, BasketTypes, TypeOK
  <2> QED
    BY <2>1, FS_Subset, FS_CardinalityType DEF BasketTypes
<1>2. Seed(s) = [r \in Rules |-> IF r = "Hedge" THEN Cardinality(shown) ELSE 0]
  BY DEF Seed, Rules
<1> HIDE DEF shown
<1>3. Seed(s) \in [Rules -> Nat]
  BY <1>1, <1>2
<1>4. None \notin [Rules -> Nat]
  BY DEF BasketsAssumption, Rules
<1>5. basket[s] \in [Rules -> Nat] \cup {None}
  BY DEF BasketTypes, TypeOK, Rules
<1> QED
  BY <1>3, <1>4, <1>5 DEF Visited

\* The first order of a visit fits.
LEMMA VisitOrder ==
  ASSUME BasketTypes, NEW s \in Sides, Managed(s) # {},
         NEW plan \in Plans(s) \ {{}}
  PROVE  /\ plan \in SUBSET Rules /\ plan # {}
         /\ \A r \in plan : Visited(s)[r] < Limit[r]
         /\ Remaining(s, First(plan)) \in Nat \ {0}
         /\ Visited(s)[First(plan)] + Remaining(s, First(plan)) <= Limit[First(plan)]
<1>1. plan \in SUBSET Rules /\ plan # {} /\ \A r \in plan : Visited(s)[r] < Limit[r]
  BY DEF Plans, Rules
<1>2. PICK r \in plan : r = First(plan)
  BY <1>1, FirstIsOfPlan
<1>3. Visited(s)[r] \in Nat /\ Limit[r] \in Nat /\ Visited(s)[r] < Limit[r]
  BY <1>1, <1>2, VisitedCounters DEF BasketsAssumption, Rules
<1>4. Remaining(s, r) \in {1, Limit[r] - Visited(s)[r]}
  BY DEF Remaining
<1>5. Remaining(s, r) \in Nat \ {0} /\ Visited(s)[r] + Remaining(s, r) <= Limit[r]
  BY <1>3, <1>4
<1> QED
  BY <1>1, <1>2, <1>5

\* What dropped and new counters leave out.
LEMMA UncountedSteps ==
  ASSUME NEW dropped, NEW seeded
  PROVE  /\ Uncounted(dropped, seeded) \subseteq book
         /\ \A s \in dropped, r \in {"DCA", "Grid", "Pyramid"} :
              StepsOf(s, r) \subseteq Uncounted(dropped, seeded)
         /\ \A s \in seeded : StepsOf(s, "Hedge") \ store \subseteq Uncounted(dropped, seeded)
<1> DEFINE left == {StepsOf(s, r) : s \in dropped, r \in {"DCA", "Grid", "Pyramid"}}
           unseen == {StepsOf(s, "Hedge") \ store : s \in seeded}
<1>1. Uncounted(dropped, seeded) = (UNION left) \cup (UNION unseen)
  BY DEF Uncounted
<1>2. \A s, r : StepsOf(s, r) \subseteq book
  BY DEF StepsOf
<1>3. (\A T \in left : T \subseteq book) /\ (\A T \in unseen : T \subseteq book)
  BY <1>2
<1>4. /\ \A s \in dropped, r \in {"DCA", "Grid", "Pyramid"} : StepsOf(s, r) \in left
      /\ \A s \in seeded : StepsOf(s, "Hedge") \ store \in unseen
  OBVIOUS
<1> HIDE DEF left, unseen
<1>5. \A L : (\A T \in L : T \subseteq UNION L)
  OBVIOUS
<1>6. \A L : (\A T \in L : T \subseteq book) => UNION L \subseteq book
  OBVIOUS
<1>7. UNION left \subseteq book /\ UNION unseen \subseteq book
  BY <1>3, <1>6
<1>8. /\ \A T \in left : T \subseteq UNION left
      /\ \A T \in unseen : T \subseteq UNION unseen
  BY <1>5
<1>9. PICK all, new : all = UNION left /\ new = UNION unseen
  OBVIOUS
<1>10. Uncounted(dropped, seeded) = all \cup new
  BY <1>1, <1>9, Zenon
<1>11. /\ all \subseteq book /\ new \subseteq book
       /\ \A T \in left : T \subseteq all
       /\ \A T \in unseen : T \subseteq new
  BY <1>7, <1>8, <1>9, Zenon
<1> QED
  BY <1>4, <1>10, <1>11

\* The evaluation visits basket s, when nobody has opened anything uncounted.
LEMMA VisitKeeps ==
  ASSUME BasketsInv, NEW c \in Callers, NEW before \in SUBSET Sides,
         NEW s \in Sides, VisitFrom(c, before, s), task[c].pc # "idle" \/ ~evaluating,
         late' \subseteq [side : Sides, kind : Rules],
         \A d \in Callers, x \in Sides, r \in Rules : Extra(task[d], x, r) = 0
  PROVE  BasketsInv'
<1> DEFINE sides == before \cup {s}
           dropped == {x \in sides : Managed(x) = {}}
           seeded == {x \in sides : basket[x] = None /\ Managed(x) # {}}
<1>1. /\ basket' = [x \in Sides |-> IF x \in sides THEN Visited(x) ELSE basket[x]]
      /\ excused' = excused \cup Uncounted(dropped, seeded)
      /\ UNCHANGED <<tickets, book, store, cooling>>
  BY DEF VisitFrom
<1>2. BasketTypes
  BY DEF BasketsInv
<1>3. PICK x \in States :
        /\ task' = [task EXCEPT ![c] = x] /\ evaluating' = (x.pc # "idle") /\ Right(basket', x)
  <2>1. CASE Managed(s) # {} /\ CloseRound(c, s, 0, {}) /\ evaluating' = TRUE
    <3>1. 0 \in 0 .. MaxRounds - 1 /\ {} \in SUBSET Tickets
      BY DEF BasketsAssumption
    <3>2. PICK x \in States : task' = [task EXCEPT ![c] = x] /\ x.pc \in {"close", "last"}
      BY <1>2, <2>1, <3>1, ClosingState
    <3>3. Right(basket', x) /\ evaluating' = (x.pc # "idle")
      BY <2>1, <3>2 DEF Right, Adding
    <3> QED
      BY <3>2, <3>3
  <2>2. ASSUME Managed(s) # {}, evaluating' = TRUE, NEW plan \in Plans(s) \ {{}},
               SendOrder(c, s, plan, Remaining(s, First(plan)), 0)
        PROVE  \E x \in States : /\ task' = [task EXCEPT ![c] = x]
                                 /\ evaluating' = (x.pc # "idle") /\ Right(basket', x)
    <3>1. /\ plan \in SUBSET Rules /\ plan # {}
          /\ \A r \in plan : Visited(s)[r] < Limit[r]
          /\ Remaining(s, First(plan)) \in Nat \ {0}
          /\ Visited(s)[First(plan)] + Remaining(s, First(plan)) <= Limit[First(plan)]
      BY <1>2, <2>2, VisitOrder
    <3>2. PICK left : left = Remaining(s, First(plan))
      OBVIOUS
    <3>3. PICK x \in States :
            /\ task' = [task EXCEPT ![c] = x]
            /\ x.pc = "order" /\ x.side = s /\ x.plan = plan /\ x.left = left /\ x.opened = 0
      <4>1. left \in Nat /\ 0 \in Nat /\ SendOrder(c, s, plan, left, 0) /\ plan \in SUBSET Rules
        BY <2>2, <3>1, <3>2
      <4> QED
        BY <4>1, SentState
    <3>4. basket'[s] = Visited(s) /\ Visited(s) # None
      BY <1>1, <1>2, <2>2, VisitedCounters
    <3>5. First(plan) \in Rules /\ Visited(s)[First(plan)] \in Nat
      <4>1. First(plan) \in Rules
        BY <3>1, FirstIsOfPlan
      <4> QED
        BY <1>2, <2>2, <4>1, VisitedCounters
    <3>6. Right(basket', x)
      BY <3>1, <3>2, <3>3, <3>4, <3>5 DEF Right, Adding
    <3> QED
      BY <2>2, <3>3, <3>6
  <2>3. CASE task' = [task EXCEPT ![c] = Idle] /\ evaluating' = FALSE
    BY <2>3, IdleState
  <2> QED
    BY <2>1, <2>2, <2>3 DEF VisitFrom
<1>4. /\ task' \in [Callers -> States] /\ OneRuns' /\ CallersAreRight' /\ evaluating' \in BOOLEAN
  BY <1>3, TaskMoves
<1>5. ASSUME NEW y \in Sides PROVE basket'[y] \in [Rules -> Nat] \cup {None}
  <2>1. Visited(y) \in [Rules -> Nat] \cup {None}
    BY <1>2, VisitedCounters
  <2>2. basket[y] \in [Rules -> Nat] \cup {None}
    BY <1>2 DEF BasketTypes, TypeOK, Rules
  <2> QED
    BY <1>1, <2>1, <2>2
<1>6. basket' \in [Sides -> [Rules -> Nat] \cup {None}]
  BY <1>1, <1>5
<1>7. Uncounted(dropped, seeded) \subseteq book
  BY UncountedSteps
<1>8. BasketTypes'
  BY <1>1, <1>2, <1>4, <1>6, <1>7 DEF BasketTypes, TypeOK, Rules
<1>9. \A y \in Sides, r \in Rules : Counted(y, r)' \subseteq Counted(y, r)
  BY <1>1 DEF Counted, StepsOf
<1>10. ASSUME NEW y \in Sides, NEW r \in Rules
       PROVE  \/ /\ basket'[y] = basket[y]
                 /\ \A d \in Callers : Extra(task[d], y, r) <= Extra(task'[d], y, r)
              \/ basket'[y] = None /\ (r # "Hedge" => Counted(y, r)' = {})
              \/ basket'[y] # None /\ Open(y, r)' <= basket'[y][r]
  <2>1. \A d \in Callers : Extra(task[d], y, r) <= Extra(task'[d], y, r)
    <3>1. \A d \in Callers : Extra(task'[d], y, r) \in Nat
      BY <1>4 DEF Extra, States
    <3> QED
      BY <3>1
  <2>2. CASE basket'[y] = basket[y]
    BY <2>1, <2>2
  <2>3. CASE y \in dropped
    <3>1. basket'[y] = None
      BY <1>1, <1>2, <2>3, VisitedCounters
    <3>2. ASSUME r # "Hedge" PROVE Counted(y, r)' = {}
      <4>1. r \in {"DCA", "Grid", "Pyramid"}
        BY <3>2, RulesListed
      <4>2. StepsOf(y, r) \subseteq excused'
        BY <1>1, <2>3, <4>1, UncountedSteps
      <4> QED
        BY <1>1, <4>2 DEF Counted, StepsOf
    <3> QED
      BY <3>1, <3>2
  <2>4. CASE y \in seeded
    <3>1. basket'[y] = Seed(y) /\ Seed(y) # None /\ Seed(y) \in [Rules -> Nat]
      BY <1>1, <1>2, <2>4, VisitedCounters
    <3>2. CASE r # "Hedge"
      <4>1. Counted(y, r) = {}
        BY <2>4, <3>2 DEF BasketsInv, Ladders
      <4>2. Open(y, r)' = 0
        BY <1>9, <4>1, FS_EmptySet DEF Open
      <4> QED
        BY <3>1, <4>2
    <3>3. CASE r = "Hedge"
      <4> DEFINE shown == Hedges(Managed(Opp(y)))
      <4>1. Counted(y, r)' \subseteq shown
        <5>1. StepsOf(y, "Hedge") \ store \subseteq excused'
          BY <1>1, <2>4, UncountedSteps
        <5> QED
          BY <1>1, <3>3, <5>1 DEF Counted, StepsOf, Hedges, Managed
      <4>2. IsFiniteSet(shown)
        <5>1. shown \subseteq tickets
          BY <1>2 DEF Hedges, Managed, BasketTypes, TypeOK
        <5> QED
          BY <1>2, <5>1, FS_Subset DEF BasketTypes
      <4>3. Seed(y)["Hedge"] = Cardinality(shown)
        BY <3>3 DEF Seed, Rules
      <4> HIDE DEF shown
      <4>4. Open(y, r)' <= Cardinality(shown)
        BY <4>1, <4>2, FS_Subset DEF Open
      <4> QED
        BY <3>1, <3>3, <4>3, <4>4
    <3> QED
      BY <3>2, <3>3
  <2>5. y \in dropped \/ y \in seeded \/ basket'[y] = basket[y]
    BY <1>1, <1>2, VisitedCounters
  <2> QED
    BY <2>2, <2>3, <2>4, <2>5
<1>11. Ladders'
  BY <1>2, <1>8, <1>9, <1>10, LaddersFollow DEF BasketsInv
<1> QED
  BY <1>4, <1>8, <1>11 DEF BasketsInv

LEMMA EvaluateKeeps ==
  ASSUME BasketsInv, NEW c \in Callers, Evaluate(c) PROVE BasketsInv'
<1>1. \A d \in Callers : task[d].pc = "idle"
  BY DEF Evaluate, BasketsInv, OneRuns
<1>2. \A d \in Callers, x \in Sides, r \in Rules : Extra(task[d], x, r) = 0
  BY <1>1 DEF Extra, Adding
<1>3. late' \subseteq [side : Sides, kind : Rules] /\ ~evaluating
  BY DEF Evaluate, BasketsInv, BasketTypes, TypeOK, Rules
<1>4. "BUY" \in Sides /\ "SELL" \in Sides /\ {} \in SUBSET Sides /\ {"BUY"} \in SUBSET Sides
  BY DEF Sides
<1>5. CASE VisitFrom(c, {}, "BUY")
  BY <1>2, <1>3, <1>4, <1>5, VisitKeeps
<1>6. CASE VisitFrom(c, {"BUY"}, "SELL")
  BY <1>2, <1>3, <1>4, <1>6, VisitKeeps
<1> QED
  BY <1>5, <1>6 DEF Evaluate

\* The rule caller c carries out, and its order.
LEMMA AddingState ==
  ASSUME BasketsInv, NEW c \in Callers, Adding(task[c])
  PROVE  /\ task[c] \in States /\ task[c].side \in Sides /\ task[c].plan \in SUBSET Rules
         /\ First(task[c].plan) \in task[c].plan /\ First(task[c].plan) \in Rules
         /\ basket[task[c].side] # None /\ basket[task[c].side] \in [Rules -> Nat]
         /\ Order(c) \in [side : Sides, kind : Rules]
         /\ Order(c) \in [side : Sides, kind : Kinds]
         /\ Right(basket, task[c])
         /\ \A d \in Callers \ {c}, s \in Sides, r \in Rules : Extra(task[d], s, r) = 0
<1>1. task[c] \in States /\ Right(basket, task[c])
  BY DEF BasketsInv, BasketTypes, TypeOK, CallersAreRight
<1>2. task[c].side \in Sides /\ task[c].plan \in SUBSET Rules
  BY <1>1 DEF States, Rules
<1>3. task[c].plan # {} /\ basket[task[c].side] # None
  BY <1>1 DEF Right
<1>4. First(task[c].plan) \in task[c].plan /\ First(task[c].plan) \in Rules
  BY <1>2, <1>3, FirstIsOfPlan
<1>5. basket[task[c].side] \in [Rules -> Nat]
  BY <1>2, <1>3 DEF BasketsInv, BasketTypes, TypeOK, Rules
<1>6. PICK u \in Sides, f \in Rules : Order(c) = [side |-> u, kind |-> f]
  BY <1>2, <1>4, OppIsSide DEF Order
<1>7. Order(c) \in [side : Sides, kind : Rules] /\ Order(c) \in [side : Sides, kind : Kinds]
  BY <1>6 DEF Kinds, Rules
<1>8. \A d \in Callers \ {c} : task[d].pc = "idle"
  BY DEF BasketsInv, OneRuns, Adding
<1>9. \A d \in Callers \ {c}, s \in Sides, r \in Rules : Extra(task[d], s, r) = 0
  BY <1>8 DEF Extra, Adding
<1> QED
  BY <1>1, <1>2, <1>3, <1>4, <1>5, <1>7, <1>9

\* The order is filled: one step more is open, and in hand.
LEMMA FilledKeeps ==
  ASSUME BasketsInv, NEW c \in Callers, Filled(c) PROVE BasketsInv'
<1>1. task[c].pc = "order" /\ Adding(task[c]) /\ Fill(Order(c))
      /\ UNCHANGED <<store, late, basket, cooling, evaluating, excused>>
  BY DEF Filled, Adding
<1>2. BasketTypes /\ MaxTickets \in Nat
  BY DEF BasketsInv, BasketsAssumption
<1>3. /\ task[c] \in States /\ task[c].side \in Sides /\ task[c].plan \in SUBSET Rules
      /\ First(task[c].plan) \in Rules
      /\ basket[task[c].side] # None /\ basket[task[c].side] \in [Rules -> Nat]
      /\ Order(c) \in [side : Sides, kind : Kinds] /\ Right(basket, task[c])
      /\ \A d \in Callers \ {c}, s \in Sides, r \in Rules : Extra(task[d], s, r) = 0
  BY <1>1, AddingState
<1>4. PICK y : y = task[c]
  OBVIOUS
<1>5. PICK s \in Sides, p \in SUBSET Rules, f \in Rules :
        s = y.side /\ p = y.plan /\ f = First(p)
  BY <1>3, <1>4
<1>6. y.left \in Nat \ {0} /\ y.opened \in Nat /\ y \in States
  BY <1>1, <1>3, <1>4 DEF Right, States
<1>7. PICK t \in Tickets :
        /\ t = Ticket(Order(c))
        /\ tickets' = tickets \cup {t} /\ tickets' \subseteq Tickets
        /\ IsFiniteSet(tickets') /\ book' = book \cup {t}
        /\ t.kind = Order(c).kind /\ t.side = Order(c).side
  BY <1>1, <1>2, <1>3, FillAdds
<1>8. t.kind = f /\ t.side = IF f = "Hedge" THEN Opp(s) ELSE s
  BY <1>4, <1>5, <1>7 DEF Order
<1>9. PICK x \in States :
        /\ task' = [task EXCEPT ![c] = x]
        /\ x.pc \in {"order", "told"} /\ x.side = s /\ x.plan = p /\ x.opened = y.opened + 1
        /\ x.pc = "order" => x.left = y.left - 1 /\ x.left > 0
  <2>1. PICK l, o : l = y.left - 1 /\ o = y.opened + 1
    OBVIOUS
  <2>2. l \in Nat /\ o \in Nat
    BY <1>6, <2>1
  <2>3. CASE y.left > 1
    <3>1. SendOrder(c, s, p, l, o)
      BY <1>4, <1>5, <2>1, <2>3 DEF Filled
    <3>2. PICK z : z = [Idle EXCEPT !.pc = "order", !.side = s, !.plan = p, !.left = l,
                                    !.opened = o]
      OBVIOUS
    <3>3. z \in States
      BY <1>5, <2>2, <3>2, IdleState DEF States, Rules
    <3>4. z.pc = "order" /\ z.side = s /\ z.plan = p /\ z.left = l /\ z.opened = o
      BY <3>2, IdleState DEF States
    <3>5. task' = [task EXCEPT ![c] = z]
      BY <3>1, <3>2 DEF SendOrder
    <3>6. l > 0
      BY <1>6, <2>1, <2>3
    <3> QED
      BY <2>1, <3>3, <3>4, <3>5, <3>6
  <2>4. CASE ~(y.left > 1)
    <3>1. PICK z : z = [y EXCEPT !.pc = "told", !.opened = o, !.left = 0]
      OBVIOUS
    <3>2. z \in States /\ z.pc = "told" /\ z.side = s /\ z.plan = p /\ z.opened = o
      BY <1>5, <1>6, <2>2, <3>1 DEF States
    <3>3. task' = [task EXCEPT ![c] = z]
      BY <1>2, <1>4, <2>1, <2>4, <3>1 DEF Filled, BasketTypes, TypeOK
    <3> QED
      BY <2>1, <3>2, <3>3
  <2> QED
    BY <2>3, <2>4
<1>10. /\ y.opened + y.left + basket[s][f] <= Limit[f] /\ basket[s][f] \in Nat /\ Limit[f] \in Nat
       /\ \A r \in p : basket[s][r] < Limit[r]
  BY <1>1, <1>3, <1>4, <1>5, <1>6 DEF Right, BasketsAssumption, Rules
<1>11. Right(basket', x)
  <2>1. basket'[x.side] = basket[s] /\ basket[s] # None /\ x.plan # {}
    BY <1>1, <1>3, <1>4, <1>5, <1>9 DEF Right
  <2>2. x.pc = "order" => basket[s][f] + x.opened + x.left <= Limit[f]
    BY <1>6, <1>9, <1>10
  <2> QED
    BY <1>5, <1>9, <1>10, <2>1, <2>2 DEF Right, Adding
<1>12. /\ task' \in [Callers -> States] /\ OneRuns' /\ CallersAreRight' /\ evaluating' \in BOOLEAN
       /\ task'[c] = x /\ \A d \in Callers \ {c} : task'[d] = task[d]
  <2>1. evaluating' = (x.pc # "idle")
    BY <1>1, <1>9 DEF BasketsInv, BasketTypes, OneRuns, TypeOK
  <2> QED
    BY <1>1, <1>9, <1>11, <2>1, TaskMoves
<1>13. BasketTypes'
  BY <1>1, <1>2, <1>7, <1>12 DEF BasketTypes, TypeOK
<1>14. Ladders'
  <2> SUFFICES ASSUME NEW u \in Sides, NEW r \in Rules
               PROVE  /\ Open(u, r)' <= Limit[r]
                      /\ basket'[u] = None /\ r # "Hedge" => Counted(u, r)' = {}
                      /\ basket'[u] # None =>
                           \/ Open(u, r)' <= basket'[u][r]
                           \/ \E d \in Callers : Open(u, r)' <= basket'[u][r] + Extra(task'[d], u, r)
    BY DEF Ladders
  <2>1. /\ Open(u, r) <= Limit[r] /\ Open(u, r) \in Nat
        /\ basket[u] = None /\ r # "Hedge" => Counted(u, r) = {}
        /\ basket[u] # None =>
             \/ Open(u, r) <= basket[u][r]
             \/ \E d \in Callers : Open(u, r) <= basket[u][r] + Extra(task[d], u, r)
    BY <1>2, CountsAreFinite DEF BasketsInv, Ladders
  <2>2. CASE u = s /\ r = f
    <3>1. Extra(task[c], s, f) = y.opened /\ Extra(task'[c], s, f) = y.opened + 1
      BY <1>1, <1>4, <1>5, <1>9, <1>12 DEF Extra, Adding
    <3>2. Open(s, f) <= basket[s][f] + y.opened
      <4>1. CASE Open(s, f) <= basket[s][f]
        BY <1>6, <1>10, <2>1, <2>2, <4>1
      <4>2. ASSUME NEW d \in Callers, Open(s, f) <= basket[s][f] + Extra(task[d], s, f)
            PROVE  Open(s, f) <= basket[s][f] + y.opened
        <5>1. CASE d = c
          BY <3>1, <4>2, <5>1
        <5>2. CASE d # c
          <6>1. Extra(task[d], s, f) = 0
            BY <1>3, <5>2
          <6> QED
            BY <1>6, <1>10, <2>1, <2>2, <4>2, <6>1
        <5> QED
          BY <5>1, <5>2
      <4>3. basket[s] # None
        BY <1>3, <1>4, <1>5
      <4> QED
        BY <2>1, <2>2, <4>1, <4>2, <4>3
    <3>3. Open(s, f)' <= Open(s, f) + 1 /\ Open(s, f)' \in Nat
      <4>1. PICK S : S = Counted(s, f)
        OBVIOUS
      <4>2. Counted(s, f)' \subseteq S \cup {t} /\ IsFiniteSet(S)
        BY <1>1, <1>2, <1>7, <4>1, CountsAreFinite DEF Counted, StepsOf
      <4>3. IsFiniteSet(S \cup {t}) /\ Cardinality(S) \in Nat
            /\ Cardinality(S \cup {t}) \in {Cardinality(S), Cardinality(S) + 1}
        BY <4>2, FS_AddElement, FS_CardinalityType
      <4>4. /\ Cardinality(Counted(s, f)') <= Cardinality(S \cup {t})
            /\ Cardinality(Counted(s, f)') \in Nat
        BY <4>2, <4>3, FS_Subset, FS_CardinalityType
      <4> QED
        BY <4>1, <4>3, <4>4 DEF Open
    <3>4. Open(s, f)' <= basket[s][f] + (y.opened + 1) /\ Open(s, f)' <= Limit[f]
      <4>1. PICK n, m, b, l : n = Open(s, f) /\ m = Open(s, f)' /\ b = basket[s][f] /\ l = Limit[f]
        OBVIOUS
      <4>2. n \in Nat /\ m \in Nat /\ b \in Nat /\ l \in Nat /\ m <= n + 1 /\ n <= b + y.opened
            /\ y.opened + y.left + b <= l
        BY <1>10, <2>1, <2>2, <3>2, <3>3, <4>1
      <4>3. m <= b + (y.opened + 1) /\ m <= l
        BY <1>6, <4>2
      <4> QED
        BY <4>1, <4>3
    <3> QED
      BY <1>1, <1>3, <1>4, <1>5, <2>2, <3>1, <3>4
  <2>3. CASE ~(u = s /\ r = f)
    <3>1. ~(t.kind = r /\ t.side = IF r = "Hedge" THEN Opp(u) ELSE u)
      BY <1>8, <2>3 DEF Opp, Sides
    <3>2. Counted(u, r)' = Counted(u, r) /\ Open(u, r)' = Open(u, r)
      <4>1. Counted(u, r)' = Counted(u, r)
        BY <1>1, <1>7, <3>1 DEF Counted, StepsOf
      <4> QED
        BY <4>1 DEF Open
    <3>3. \A d \in Callers : Extra(task'[d], u, r) = Extra(task[d], u, r)
      BY <1>4, <1>5, <1>9, <1>12, <2>3 DEF Extra
    <3> QED
      BY <1>1, <2>1, <3>2, <3>3
  <2> QED
    BY <2>2, <2>3
<1> QED
  BY <1>12, <1>13, <1>14 DEF BasketsInv

\* A caller that carries out no rule goes on, and at most one position closes.
LEMMA CallerMoves ==
  ASSUME BasketsInv, NEW c \in Callers, NEW x \in States,
         task' = [task EXCEPT ![c] = x], task[c].pc # "idle", ~Adding(task[c]), ~Adding(x),
         x.pc = "pause" => x.round < MaxRounds - 1, evaluating' = (x.pc # "idle"),
         UNCHANGED <<tickets, store, late, basket, cooling>>,
         \/ UNCHANGED <<book, excused>>
         \/ \E t : book' = book \ {t} /\ excused' = excused \ {t}
  PROVE  BasketsInv'
<1>1. BasketTypes
  BY DEF BasketsInv
<1>2. Right(basket', x)
  BY DEF Right, Adding
<1>3. /\ task' \in [Callers -> States] /\ OneRuns' /\ CallersAreRight' /\ evaluating' \in BOOLEAN
      /\ task'[c] = x /\ \A d \in Callers \ {c} : task'[d] = task[d]
  BY <1>2, TaskMoves
<1>4. BasketTypes'
  BY <1>1, <1>3 DEF BasketTypes, TypeOK
<1>5. \A s \in Sides, r \in Rules : Counted(s, r)' \subseteq Counted(s, r)
  BY DEF Counted, StepsOf
<1>6. \A s \in Sides, r \in Rules, d \in Callers : Extra(task[d], s, r) <= Extra(task'[d], s, r)
  <2> SUFFICES ASSUME NEW s \in Sides, NEW r \in Rules, NEW d \in Callers
               PROVE  Extra(task[d], s, r) <= Extra(task'[d], s, r)
    OBVIOUS
  <2>1. CASE d = c
    BY <1>3, <2>1 DEF Extra
  <2>2. CASE d # c
    <3>1. Extra(task[d], s, r) \in Nat
      BY <1>1 DEF Extra, BasketTypes, TypeOK, States
    <3> QED
      BY <1>3, <2>2, <3>1
  <2> QED
    BY <2>1, <2>2
<1>7. Ladders'
  BY <1>1, <1>4, <1>5, <1>6, LaddersFollow DEF BasketsInv
<1> QED
  BY <1>3, <1>4, <1>7 DEF BasketsInv

\* The manager does nothing.
LEMMA WorldMoves ==
  ASSUME BasketsInv, UNCHANGED <<basket, evaluating, task>>, BasketTypes',
         \A s \in Sides, r \in Rules : Counted(s, r)' \subseteq Counted(s, r)
  PROVE  BasketsInv'
<1>1. OneRuns' /\ CallersAreRight'
  BY DEF BasketsInv, OneRuns, CallersAreRight
<1>2. \A s \in Sides, r \in Rules, d \in Callers : Extra(task[d], s, r) <= Extra(task'[d], s, r)
  BY DEF BasketsInv, BasketTypes, TypeOK, Extra, States
<1>3. Ladders'
  BY <1>2, LaddersFollow DEF BasketsInv
<1> QED
  BY <1>1, <1>3 DEF BasketsInv

\* The order is not filled: the next due rule is tried, or the other basket, or the
\* evaluation ends.
LEMMA NotFilledKeeps ==
  ASSUME BasketsInv, NEW c \in Callers, NotFilled(c) PROVE BasketsInv'
<1>1. task[c].pc = "order" /\ Adding(task[c])
  BY DEF NotFilled, Adding
<1>2. BasketTypes
  BY DEF BasketsInv
<1>3. /\ task[c] \in States /\ task[c].side \in Sides /\ task[c].plan \in SUBSET Rules
      /\ First(task[c].plan) \in task[c].plan
      /\ basket[task[c].side] # None /\ basket[task[c].side] \in [Rules -> Nat]
      /\ Order(c) \in [side : Sides, kind : Rules] /\ Right(basket, task[c])
      /\ \A d \in Callers \ {c}, s \in Sides, r \in Rules : Extra(task[d], s, r) = 0
  BY <1>1, AddingState
<1>4. late' \subseteq [side : Sides, kind : Rules]
  BY <1>2, <1>3 DEF NotFilled, BasketTypes, TypeOK, Rules
<1>5. PICK y : y = task[c]
  OBVIOUS
<1>6. PICK s \in Sides, rest \in SUBSET Rules :
        s = y.side /\ rest = y.plan \ {First(y.plan)}
  BY <1>3, <1>5
<1>7. CASE y.opened = 0 /\ rest = {} /\ s = "BUY"
  <2>1. VisitFrom(c, {}, "SELL")
    BY <1>5, <1>6, <1>7 DEF NotFilled
  <2>2. \A d \in Callers, u \in Sides, r \in Rules : Extra(task[d], u, r) = 0
    BY <1>3, <1>5, <1>7 DEF Extra
  <2>3. "SELL" \in Sides /\ {} \in SUBSET Sides
    BY DEF Sides
  <2> QED
    BY <1>1, <1>4, <2>1, <2>2, <2>3, VisitKeeps
<1>8. CASE ~(y.opened = 0 /\ rest = {} /\ s = "BUY")
  <2>1. /\ UNCHANGED <<tickets, book, store, basket, cooling, excused>>
        /\ \/ /\ y.opened > 0
              /\ task' = [task EXCEPT ![c].pc = "told", ![c].left = 0]
              /\ UNCHANGED evaluating
           \/ /\ y.opened = 0 /\ rest # {}
              /\ SendOrder(c, s, rest, 1, 0)
              /\ UNCHANGED evaluating
           \/ /\ y.opened = 0 /\ task' = [task EXCEPT ![c] = Idle] /\ evaluating' = FALSE
    BY <1>5, <1>6, <1>8 DEF NotFilled, End
  <2>2. evaluating = TRUE
    BY <1>1 DEF BasketsInv, OneRuns, BasketTypes, TypeOK
  <2>3. PICK x \in States :
          /\ task' = [task EXCEPT ![c] = x] /\ evaluating' = (x.pc # "idle")
          /\ Right(basket, x)
          /\ \A u, r : Extra(y, u, r) <= Extra(x, u, r)
    <3>1. CASE y.opened > 0 /\ task' = [task EXCEPT ![c].pc = "told", ![c].left = 0]
               /\ UNCHANGED evaluating
      <4>1. PICK z : z = [y EXCEPT !.pc = "told", !.left = 0]
        OBVIOUS
      <4>2. z \in States /\ z.pc = "told" /\ z.side = y.side /\ z.plan = y.plan
            /\ z.opened = y.opened /\ y.opened \in Nat
        BY <1>3, <1>5, <4>1 DEF States
      <4>3. task' = [task EXCEPT ![c] = z]
        BY <1>2, <1>5, <3>1, <4>1 DEF BasketTypes, TypeOK
      <4>4. Right(basket, z) /\ \A u, r : Extra(y, u, r) <= Extra(z, u, r)
        BY <1>1, <1>3, <1>5, <4>2 DEF Right, Adding, Extra
      <4> QED
        BY <2>2, <3>1, <4>2, <4>3, <4>4
    <3>2. CASE y.opened = 0 /\ rest # {} /\ SendOrder(c, s, rest, 1, 0) /\ UNCHANGED evaluating
      <4>1. PICK z : z = [Idle EXCEPT !.pc = "order", !.side = s, !.plan = rest, !.left = 1,
                                      !.opened = 0]
        OBVIOUS
      <4>2. z \in States
        BY <1>6, <4>1, IdleState DEF States, Rules
      <4>3. z.pc = "order" /\ z.side = s /\ z.plan = rest /\ z.left = 1 /\ z.opened = 0
        BY <4>1, IdleState DEF States
      <4>4. task' = [task EXCEPT ![c] = z]
        BY <3>2, <4>1 DEF SendOrder
      <4>5. PICK g : g = First(rest)
        OBVIOUS
      <4>6. g \in rest /\ g \in Rules
        BY <1>6, <3>2, <4>5, FirstIsOfPlan
      <4>7. \A r \in rest : basket[s][r] < Limit[r]
        BY <1>1, <1>3, <1>5, <1>6 DEF Right
      <4>8. basket[s][g] \in Nat /\ Limit[g] \in Nat
        BY <1>3, <1>5, <1>6, <4>6 DEF BasketsAssumption, Rules
      <4>9. basket[s][g] + 0 + 1 <= Limit[g]
        BY <4>6, <4>7, <4>8
      <4>10. Right(basket, z)
        BY <1>3, <1>5, <1>6, <3>2, <4>3, <4>5, <4>7, <4>9 DEF Right, Adding
      <4>11. \A u, r : Extra(y, u, r) <= Extra(z, u, r)
        BY <3>2, <4>3 DEF Extra
      <4> QED
        BY <2>2, <3>2, <4>2, <4>3, <4>4, <4>10, <4>11
    <3>3. CASE y.opened = 0 /\ task' = [task EXCEPT ![c] = Idle] /\ evaluating' = FALSE
      <4>1. \A u, r : Extra(y, u, r) <= Extra(Idle, u, r)
        BY <3>3, IdleState DEF Extra
      <4> QED
        BY <3>3, <4>1, IdleState
    <3> QED
      BY <2>1, <3>1, <3>2, <3>3
  <2>4. Right(basket', x)
    BY <2>1, <2>3
  <2>5. /\ task' \in [Callers -> States] /\ OneRuns' /\ CallersAreRight' /\ evaluating' \in BOOLEAN
        /\ task'[c] = x /\ \A d \in Callers \ {c} : task'[d] = task[d]
    BY <1>1, <2>3, <2>4, TaskMoves
  <2>6. BasketTypes'
    BY <1>2, <1>4, <2>1, <2>5 DEF BasketTypes, TypeOK, Rules
  <2>7. \A u \in Sides, r \in Rules : Counted(u, r)' \subseteq Counted(u, r)
    BY <2>1 DEF Counted, StepsOf
  <2>8. \A u \in Sides, r \in Rules, d \in Callers : Extra(task[d], u, r) <= Extra(task'[d], u, r)
    <3> SUFFICES ASSUME NEW u \in Sides, NEW r \in Rules, NEW d \in Callers
                 PROVE  Extra(task[d], u, r) <= Extra(task'[d], u, r)
      OBVIOUS
    <3>1. CASE d = c
      BY <1>5, <2>3, <2>5, <3>1
    <3>2. CASE d # c
      <4>1. Extra(task[d], u, r) = 0
        BY <1>3, <3>2
      <4> QED
        BY <2>5, <3>2, <4>1
    <3> QED
      BY <3>1, <3>2
  <2>9. Ladders'
    BY <1>2, <2>1, <2>6, <2>7, <2>8, LaddersFollow DEF BasketsInv
  <2> QED
    BY <2>5, <2>6, <2>9 DEF BasketsInv
<1> QED
  BY <1>7, <1>8

\* The rule in hand and its counter cover the open steps of the basket.
LEMMA HandCovers ==
  ASSUME BasketsInv, NEW c \in Callers, Adding(task[c]), NEW r \in Rules
  PROVE  Open(task[c].side, r) <= basket[task[c].side][r] + Extra(task[c], task[c].side, r)
<1>1. PICK s \in Sides : s = task[c].side
  BY AddingState
<1>2. BasketTypes /\ basket[s] # None /\ basket[s][r] \in Nat /\ Open(s, r) \in Nat
  BY <1>1, AddingState, CountsAreFinite DEF BasketsInv
<1>3. \A d \in Callers : Extra(task[d], s, r) \in Nat
  BY <1>2 DEF BasketTypes, TypeOK, Extra, States
<1>4. \A d \in Callers \ {c} : Extra(task[d], s, r) = 0
  BY AddingState
<1>5. \/ Open(s, r) <= basket[s][r]
      \/ \E d \in Callers : Open(s, r) <= basket[s][r] + Extra(task[d], s, r)
  BY <1>2 DEF BasketsInv, Ladders
<1>6. CASE Open(s, r) <= basket[s][r]
  BY <1>1, <1>2, <1>3, <1>6
<1>7. ASSUME NEW d \in Callers, Open(s, r) <= basket[s][r] + Extra(task[d], s, r)
      PROVE  Open(s, r) <= basket[s][r] + Extra(task[c], s, r)
  <2>1. CASE d = c
    BY <1>7, <2>1
  <2>2. CASE d # c
    BY <1>2, <1>3, <1>4, <1>7, <2>2
  <2> QED
    BY <2>1, <2>2
<1> QED
  BY <1>1, <1>5, <1>6, <1>7

\* The steps in hand are counted.
LEMMA ToldKeeps ==
  ASSUME BasketsInv, NEW c \in Callers, Told(c) PROVE BasketsInv'
<1>1. task[c].pc = "told" /\ Adding(task[c])
  BY DEF Told, Adding
<1>2. BasketTypes
  BY DEF BasketsInv
<1>3. PICK y : y = task[c]
  OBVIOUS
<1>4. PICK s \in Sides, f \in Rules : s = y.side /\ f = First(y.plan)
  BY <1>1, <1>3, AddingState
<1>5. basket[s] # None /\ basket[s] \in [Rules -> Nat] /\ y.opened \in Nat
  BY <1>1, <1>3, <1>4, AddingState DEF States
<1>6. /\ basket' = [basket EXCEPT ![s] = [basket[s] EXCEPT ![f] = @ + y.opened]]
      /\ UNCHANGED <<tickets, book, store, late, excused>>
      /\ \E cool \in BOOLEAN : cooling' = [cooling EXCEPT ![s] = cool]
      /\ \/ End(c)
         \/ /\ task' = [task EXCEPT ![c] = [Idle EXCEPT !.pc = "trail", !.side = s]]
            /\ UNCHANGED evaluating
  BY <1>3, <1>4, <1>5 DEF Told, account
<1>7. PICK k : k = y.opened
  OBVIOUS
<1>8. PICK new : new = [basket[s] EXCEPT ![f] = @ + k]
  OBVIOUS
<1>9. new \in [Rules -> Nat] /\ new[f] = basket[s][f] + k /\ \A r \in Rules \ {f} : new[r] = basket[s][r]
  BY <1>5, <1>7, <1>8
<1>10. basket \in [Sides -> [Rules -> Nat] \cup {None}]
  BY <1>2 DEF BasketTypes, TypeOK, Rules
<1>11. /\ basket' \in [Sides -> [Rules -> Nat] \cup {None}]
       /\ basket'[s] = new /\ new # None /\ \A u \in Sides \ {s} : basket'[u] = basket[u]
  <2>1. basket' = [basket EXCEPT ![s] = new]
    BY <1>6, <1>7, <1>8, <1>10
  <2>2. new # None
    BY <1>9 DEF BasketsAssumption, Rules
  <2> QED
    BY <1>9, <1>10, <2>1, <2>2
<1>12. PICK x \in States : task' = [task EXCEPT ![c] = x] /\ ~Adding(x) /\ x.pc # "pause"
                           /\ evaluating' = (x.pc # "idle")
  <2>1. CASE End(c)
    BY <2>1, IdleState DEF End, Adding
  <2>2. CASE /\ task' = [task EXCEPT ![c] = [Idle EXCEPT !.pc = "trail", !.side = s]]
             /\ UNCHANGED evaluating
    <3>1. PICK z : z = [Idle EXCEPT !.pc = "trail", !.side = s]
      OBVIOUS
    <3>2. z \in States /\ z.pc = "trail"
      BY <3>1, IdleState DEF States
    <3>3. evaluating' = (z.pc # "idle")
      BY <1>1, <2>2, <3>2 DEF BasketsInv, OneRuns, BasketTypes, TypeOK
    <3> QED
      BY <2>2, <3>1, <3>2, <3>3 DEF Adding
  <2> QED
    BY <1>6, <2>1, <2>2
<1>13. Right(basket', x)
  BY <1>12 DEF Right, Adding
<1>14. /\ task' \in [Callers -> States] /\ OneRuns' /\ CallersAreRight' /\ evaluating' \in BOOLEAN
       /\ task'[c] = x /\ \A d \in Callers \ {c} : task'[d] = task[d]
  BY <1>1, <1>12, <1>13, TaskMoves
<1>15. BasketTypes'
  BY <1>2, <1>6, <1>11, <1>14 DEF BasketTypes, TypeOK, Rules
<1>16. \A u \in Sides, r \in Rules : Counted(u, r)' = Counted(u, r)
  BY <1>6 DEF Counted, StepsOf
<1>17. ASSUME NEW u \in Sides, NEW r \in Rules
       PROVE  \/ /\ basket'[u] = basket[u]
                 /\ \A d \in Callers : Extra(task[d], u, r) <= Extra(task'[d], u, r)
              \/ basket'[u] = None /\ (r # "Hedge" => Counted(u, r)' = {})
              \/ basket'[u] # None /\ Open(u, r)' <= basket'[u][r]
  <2>1. CASE u # s
    <3>1. \A d \in Callers : Extra(task[d], u, r) = 0
      <4>1. Extra(task[c], u, r) = 0
        BY <1>3, <1>4, <2>1 DEF Extra
      <4> QED
        BY <1>1, <4>1, AddingState
    <3>2. \A d \in Callers : Extra(task'[d], u, r) \in Nat
      BY <1>14 DEF Extra, States
    <3> QED
      BY <1>11, <2>1, <3>1, <3>2
  <2>2. CASE u = s
    <3>1. Open(s, r)' = Open(s, r)
      BY <1>16 DEF Open
    <3>2. Extra(y, s, r) = IF r = f THEN k ELSE 0
      BY <1>1, <1>3, <1>4, <1>7 DEF Extra
    <3>3. Open(s, r) <= basket[s][r] + Extra(y, s, r)
      BY <1>1, <1>3, <1>4, HandCovers
    <3>4. Open(s, r) <= new[r]
      <4>1. CASE r = f
        BY <1>9, <3>2, <3>3, <4>1
      <4>2. CASE r # f
        <5>1. new[r] = basket[s][r] /\ new[r] \in Nat /\ Extra(y, s, r) = 0
          BY <1>9, <3>2, <4>2
        <5> QED
          BY <3>3, <5>1
      <4> QED
        BY <4>1, <4>2
    <3> QED
      BY <1>11, <2>2, <3>1, <3>4
  <2> QED
    BY <2>1, <2>2
<1>18. Ladders'
  BY <1>2, <1>15, <1>16, <1>17, LaddersFollow DEF BasketsInv
<1> QED
  BY <1>14, <1>15, <1>18 DEF BasketsInv

\* "finally", after the stops were trailed or the close was reported.
LEMMA EndKeeps ==
  ASSUME BasketsInv, NEW c \in Callers, Trailed(c) \/ RefreshFails(c) \/ Reported(c)
  PROVE  BasketsInv'
<1>1. /\ task[c].pc \in {"trail", "pause", "last", "report"} /\ task' = [task EXCEPT ![c] = Idle]
      /\ evaluating' = FALSE /\ UNCHANGED <<tickets, book, store, late, basket, cooling, excused>>
  BY DEF Trailed, RefreshFails, Reported, End, account
<1>2. task[c].pc # "idle" /\ ~Adding(task[c])
  BY <1>1 DEF Adding
<1>3. Idle \in States /\ Idle.pc = "idle" /\ ~Adding(Idle)
  BY IdleState DEF Adding
<1> QED
  BY <1>1, <1>2, <1>3, CallerMoves

\* A close is answered.
LEMMA AnswerKeeps ==
  ASSUME BasketsInv, NEW c \in Callers, Closed(c) \/ NotClosed(c)
  PROVE  BasketsInv'
<1>1. /\ task[c].pc = "close" /\ ~Adding(task[c])
      /\ UNCHANGED <<tickets, store, late, basket, cooling, evaluating>>
  BY DEF Closed, NotClosed, account, Adding
<1>2. PICK y \in States : y = task[c]
  BY DEF BasketsInv, BasketTypes, TypeOK
<1>3. evaluating = TRUE
  BY <1>1 DEF BasketsInv, OneRuns, BasketTypes, TypeOK
<1>4. ASSUME NEW t \in y.todo
      PROVE  \E pc \in {"close", "pause", "last"}, todo \in SUBSET Tickets :
               /\ AfterClose(c, t) = [y EXCEPT !.pc = pc, !.todo = todo]
               /\ pc = "pause" => y.round < MaxRounds - 1
  <2>1. PICK pc : pc = IF y.todo # {t} THEN "close"
                       ELSE IF y.round < MaxRounds - 1 THEN "pause" ELSE "last"
    OBVIOUS
  <2>2. PICK todo : todo = y.todo \ {t}
    OBVIOUS
  <2>3. todo \in SUBSET Tickets
    BY <1>2, <2>2 DEF States
  <2>4. AfterClose(c, t) = [y EXCEPT !.pc = pc, !.todo = todo]
    BY <1>2, <2>1, <2>2 DEF AfterClose, States
  <2> QED
    BY <2>1, <2>3, <2>4
<1>5. PICK x \in States :
        /\ task' = [task EXCEPT ![c] = x] /\ x.pc \in {"close", "pause", "last"}
        /\ x.pc = "pause" => x.round < MaxRounds - 1
        /\ \/ UNCHANGED <<book, excused>>
           \/ \E t : book' = book \ {t} /\ excused' = excused \ {t}
  <2>1. ASSUME NEW t \in y.todo, book' = book \ {t}, excused' = excused \ {t},
               task' = [task EXCEPT ![c] = [AfterClose(c, t) EXCEPT !.closed = @ \cup {t}]]
        PROVE  \E x \in States :
                 /\ task' = [task EXCEPT ![c] = x] /\ x.pc \in {"close", "pause", "last"}
                 /\ x.pc = "pause" => x.round < MaxRounds - 1
    <3>1. PICK pc \in {"close", "pause", "last"}, todo \in SUBSET Tickets :
               /\ AfterClose(c, t) = [y EXCEPT !.pc = pc, !.todo = todo]
               /\ pc = "pause" => y.round < MaxRounds - 1
      BY <1>4, <2>1
    <3>2. PICK x : x = [[y EXCEPT !.pc = pc, !.todo = todo] EXCEPT !.closed = @ \cup {t}]
      OBVIOUS
    <3>3. t \in Tickets
      BY <1>2, <2>1 DEF States
    <3>4. x \in States /\ x.pc = pc /\ x.round = y.round
      BY <1>2, <3>1, <3>2, <3>3 DEF States
    <3>5. task' = [task EXCEPT ![c] = x]
      BY <2>1, <3>1, <3>2
    <3> QED
      BY <3>1, <3>4, <3>5
  <2>2. ASSUME NEW t \in y.todo, task' = [task EXCEPT ![c] = AfterClose(c, t)]
        PROVE  \E x \in States :
                 /\ task' = [task EXCEPT ![c] = x] /\ x.pc \in {"close", "pause", "last"}
                 /\ x.pc = "pause" => x.round < MaxRounds - 1
    <3>1. PICK pc \in {"close", "pause", "last"}, todo \in SUBSET Tickets :
               /\ AfterClose(c, t) = [y EXCEPT !.pc = pc, !.todo = todo]
               /\ pc = "pause" => y.round < MaxRounds - 1
      BY <1>4, <2>2
    <3>2. PICK x : x = [y EXCEPT !.pc = pc, !.todo = todo]
      OBVIOUS
    <3>3. x \in States /\ x.pc = pc /\ x.round = y.round
      BY <1>2, <3>1, <3>2 DEF States
    <3>4. task' = [task EXCEPT ![c] = x]
      BY <2>2, <3>1, <3>2
    <3> QED
      BY <3>1, <3>3, <3>4
  <2>3. CASE Closed(c)
    BY <1>2, <2>1, <2>3 DEF Closed
  <2>4. CASE NotClosed(c)
    BY <1>2, <2>2, <2>4 DEF NotClosed, account
  <2> QED
    BY <2>3, <2>4
<1>6. task[c].pc # "idle" /\ ~Adding(x) /\ evaluating' = (x.pc # "idle")
  BY <1>1, <1>3, <1>5 DEF Adding
<1> QED
  BY <1>1, <1>5, <1>6, CallerMoves

\* The next close round begins.
LEMMA NextRoundKeeps ==
  ASSUME BasketsInv, NEW c \in Callers, NextRound(c) PROVE BasketsInv'
<1>1. /\ task[c].pc = "pause" /\ CloseRound(c, task[c].side, task[c].round + 1, task[c].closed)
      /\ UNCHANGED <<tickets, book, store, late, basket, cooling, evaluating, excused>>
  BY DEF NextRound, account
<1>2. BasketTypes
  BY DEF BasketsInv
<1>3. task[c].side \in Sides /\ task[c].closed \in SUBSET Tickets
      /\ task[c].round \in 0 .. MaxRounds - 1
  BY <1>2 DEF BasketTypes, TypeOK, States
<1>4. task[c].round < MaxRounds - 1 /\ MaxRounds \in Nat
  BY <1>1 DEF BasketsInv, CallersAreRight, Right, BasketsAssumption
<1>5. task[c].round + 1 \in 0 .. MaxRounds - 1
  <2>1. PICK n : n = task[c].round
    OBVIOUS
  <2>2. n \in 0 .. MaxRounds - 1 /\ n < MaxRounds - 1
    BY <1>3, <1>4, <2>1
  <2>3. n + 1 \in 0 .. MaxRounds - 1
    BY <1>4, <2>2
  <2> QED
    BY <2>1, <2>3
<1>6. PICK x \in States : task' = [task EXCEPT ![c] = x] /\ x.pc \in {"close", "last"}
  BY <1>1, <1>2, <1>3, <1>5, ClosingState
<1>7. evaluating = TRUE
  BY <1>1 DEF BasketsInv, OneRuns, BasketTypes, TypeOK
<1>8. task[c].pc # "idle" /\ ~Adding(task[c]) /\ ~Adding(x) /\ evaluating' = (x.pc # "idle")
      /\ (x.pc = "pause" => x.round < MaxRounds - 1)
  BY <1>1, <1>6, <1>7 DEF Adding
<1> QED
  BY <1>1, <1>6, <1>8, CallerMoves

\* A close ends: the counters it drops leave their open steps excused.
LEMMA CloseEndsKeeps ==
  ASSUME BasketsInv, NEW c \in Callers, CloseEnds(c) PROVE BasketsInv'
<1>1. BasketTypes /\ task[c].pc = "last" /\ ~Adding(task[c])
  BY DEF CloseEnds, Adding, BasketsInv
<1>2. PICK dropped : dropped = Drops(task[c].side)
  OBVIOUS
<1>3. /\ basket' = [s \in Sides |-> IF s \in dropped THEN None ELSE basket[s]]
      /\ excused' = excused \cup Uncounted(dropped, {})
      /\ task' = [task EXCEPT ![c].pc = "report"]
      /\ UNCHANGED <<tickets, book, store, late, cooling, evaluating>>
  BY <1>2 DEF CloseEnds, account
<1>4. PICK x \in States : task' = [task EXCEPT ![c] = x] /\ x.pc = "report"
  <2>1. PICK z : z = [task[c] EXCEPT !.pc = "report"]
    OBVIOUS
  <2>2. z \in States /\ z.pc = "report"
    BY <1>1, <2>1 DEF BasketTypes, TypeOK, States
  <2>3. task' = [task EXCEPT ![c] = z]
    BY <1>1, <1>3, <2>1 DEF BasketTypes, TypeOK
  <2> QED
    BY <2>2, <2>3
<1>5. Right(basket', x) /\ evaluating' = (x.pc # "idle")
  BY <1>1, <1>3, <1>4 DEF Right, Adding, BasketsInv, OneRuns, BasketTypes, TypeOK
<1>6. /\ task' \in [Callers -> States] /\ OneRuns' /\ CallersAreRight' /\ evaluating' \in BOOLEAN
      /\ \A d \in Callers \ {c} : task[d].pc = "idle"
  BY <1>1, <1>4, <1>5, TaskMoves
<1>7. BasketTypes'
  <2>1. Uncounted(dropped, {}) \subseteq book
    BY UncountedSteps
  <2> QED
    BY <1>1, <1>3, <1>6, <2>1 DEF BasketTypes, TypeOK
<1>8. \A s \in Sides, r \in Rules : Counted(s, r)' \subseteq Counted(s, r)
  BY <1>3 DEF Counted, StepsOf
<1>9. ASSUME NEW s \in Sides, NEW r \in Rules
      PROVE  \/ /\ basket'[s] = basket[s]
                /\ \A d \in Callers : Extra(task[d], s, r) <= Extra(task'[d], s, r)
             \/ basket'[s] = None /\ (r # "Hedge" => Counted(s, r)' = {})
  <2>1. CASE s \in dropped
    <3>1. ASSUME r # "Hedge" PROVE Counted(s, r)' = {}
      <4>1. r \in {"DCA", "Grid", "Pyramid"}
        BY <3>1, RulesListed
      <4>2. StepsOf(s, r) \subseteq excused'
        BY <1>3, <2>1, <4>1, UncountedSteps
      <4> QED
        BY <1>3, <4>2 DEF Counted, StepsOf
    <3> QED
      BY <1>3, <2>1, <3>1
  <2>2. CASE s \notin dropped
    <3>1. \A d \in Callers : Extra(task[d], s, r) = 0
      BY <1>1, <1>6 DEF Extra, Adding
    <3>2. \A d \in Callers : Extra(task'[d], s, r) \in Nat
      BY <1>6 DEF Extra, States
    <3> QED
      BY <1>3, <2>2, <3>1, <3>2
  <2> QED
    BY <2>1, <2>2
<1>10. Ladders'
  BY <1>1, <1>7, <1>8, <1>9, LaddersFollow DEF BasketsInv
<1> QED
  BY <1>6, <1>7, <1>10 DEF BasketsInv

\* The account moves: a position opens that no rule counts, closes, or is shown.
LEMMA AccountKeeps ==
  ASSUME BasketsInv,
         \/ \E order \in late : FillLate(order)
         \/ \E s \in Sides : OpenSeed(s) \/ CooldownEnds(s)
         \/ \E t \in book : MarketClose(t)
         \/ Snapshot
  PROVE  BasketsInv'
<1>1. BasketTypes /\ MaxTickets \in Nat
  BY DEF BasketsInv, BasketsAssumption
<1>2. ASSUME NEW order \in late, FillLate(order) PROVE BasketsInv'
  <2>1. order \in [side : Sides, kind : Kinds]
    BY <1>1 DEF BasketTypes, TypeOK, Kinds
  <2>2. late' \subseteq late /\ UNCHANGED <<store, basket, cooling, evaluating, task>>
    BY <1>2 DEF FillLate, manager
  <2>3. CASE UNCHANGED <<tickets, book, excused>>
    <3>1. BasketTypes'
      BY <1>1, <2>2, <2>3 DEF BasketTypes, TypeOK
    <3>2. \A s \in Sides, r \in Rules : Counted(s, r)' \subseteq Counted(s, r)
      BY <2>3 DEF Counted, StepsOf
    <3> QED
      BY <2>2, <3>1, <3>2, WorldMoves
  <2>4. CASE Fill(order) /\ excused' = excused \cup {Ticket(order)}
    <3>1. PICK t : t = Ticket(order)
      OBVIOUS
    <3>2. /\ tickets' = tickets \cup {t} /\ tickets' \subseteq Tickets /\ IsFiniteSet(tickets')
          /\ book' = book \cup {t} /\ excused' = excused \cup {t}
      BY <1>1, <2>1, <2>4, <3>1, FillAdds
    <3>3. BasketTypes'
      BY <1>1, <2>2, <3>2 DEF BasketTypes, TypeOK
    <3>4. \A s \in Sides, r \in Rules : Counted(s, r)' \subseteq Counted(s, r)
      BY <3>2 DEF Counted, StepsOf
    <3> QED
      BY <2>2, <3>3, <3>4, WorldMoves
  <2> QED
    BY <1>2, <2>3, <2>4 DEF FillLate
<1>3. ASSUME NEW s \in Sides, OpenSeed(s) PROVE BasketsInv'
  <2>1. PICK order \in [side : Sides, kind : Kinds] : order = [side |-> s, kind |-> "Seed"]
    BY DEF Kinds
  <2>2. Fill(order) /\ UNCHANGED <<store, late, basket, cooling, evaluating, task, excused>>
    BY <1>3, <2>1 DEF OpenSeed, manager
  <2>3. PICK t : t = Ticket(order)
    OBVIOUS
  <2>4. /\ t.kind = "Seed" /\ tickets' = tickets \cup {t} /\ tickets' \subseteq Tickets
        /\ IsFiniteSet(tickets') /\ book' = book \cup {t}
    BY <1>1, <2>1, <2>2, <2>3, FillAdds
  <2>5. BasketTypes'
    BY <1>1, <2>2, <2>4 DEF BasketTypes, TypeOK
  <2>6. \A u \in Sides, r \in Rules : Counted(u, r)' \subseteq Counted(u, r)
    <3>1. "Seed" \notin Rules
      BY RulesListed
    <3> QED
      BY <2>2, <2>4, <3>1 DEF Counted, StepsOf
  <2> QED
    BY <2>2, <2>5, <2>6, WorldMoves
<1>4. ASSUME NEW s \in Sides, CooldownEnds(s) PROVE BasketsInv'
  <2>1. /\ cooling' = [cooling EXCEPT ![s] = FALSE]
        /\ UNCHANGED <<tickets, book, store, late, basket, evaluating, task, excused>>
    BY <1>4 DEF CooldownEnds, account
  <2>2. BasketTypes'
    BY <1>1, <2>1 DEF BasketTypes, TypeOK
  <2>3. \A u \in Sides, r \in Rules : Counted(u, r)' \subseteq Counted(u, r)
    BY <2>1 DEF Counted, StepsOf
  <2> QED
    BY <2>1, <2>2, <2>3, WorldMoves
<1>5. ASSUME NEW t \in book, MarketClose(t) PROVE BasketsInv'
  <2>1. /\ book' = book \ {t} /\ excused' = excused \ {t}
        /\ UNCHANGED <<tickets, store, late, basket, cooling, evaluating, task>>
    BY <1>5 DEF MarketClose, manager
  <2>2. BasketTypes'
    BY <1>1, <2>1 DEF BasketTypes, TypeOK
  <2>3. \A u \in Sides, r \in Rules : Counted(u, r)' \subseteq Counted(u, r)
    BY <2>1 DEF Counted, StepsOf
  <2> QED
    BY <2>1, <2>2, <2>3, WorldMoves
<1>6. ASSUME Snapshot PROVE BasketsInv'
  <2>1. /\ store' = book
        /\ UNCHANGED <<tickets, book, late, basket, cooling, evaluating, task, excused>>
    BY <1>6 DEF Snapshot, manager
  <2>2. BasketTypes'
    BY <1>1, <2>1 DEF BasketTypes, TypeOK
  <2>3. \A u \in Sides, r \in Rules : Counted(u, r)' \subseteq Counted(u, r)
    BY <2>1 DEF Counted, StepsOf
  <2> QED
    BY <2>1, <2>2, <2>3, WorldMoves
<1> QED
  BY <1>2, <1>3, <1>4, <1>5, <1>6

\* Memory is lost: no counter is left, and every open step but a hedge is excused.
LEMMA RestartKeeps ==
  ASSUME BasketsInv, Restart PROVE BasketsInv'
<1>1. /\ store' = {} /\ basket' = [s \in Sides |-> None]
      /\ cooling' = [s \in Sides |-> FALSE] /\ evaluating' = FALSE
      /\ late' = late \cup {Order(c) : c \in {x \in Callers : task[x].pc = "order"}}
      /\ task' = [c \in Callers |-> Idle]
      /\ excused' = excused \cup Uncounted(Sides, {})
      /\ UNCHANGED <<tickets, book>>
  BY DEF Restart
<1>2. BasketTypes
  BY DEF BasketsInv
<1>3. late' \subseteq [side : Sides, kind : Rules]
  <2>1. \A c \in Callers : task[c].pc = "order" => Order(c) \in [side : Sides, kind : Rules]
    BY AddingState DEF Adding
  <2>2. late \subseteq [side : Sides, kind : Rules]
    BY <1>2 DEF BasketTypes, TypeOK, Rules
  <2> QED
    BY <1>1, <2>1, <2>2
<1>4. BasketTypes'
  <2>1. Uncounted(Sides, {}) \subseteq book
    BY UncountedSteps
  <2>2. task' \in [Callers -> States]
    BY <1>1, IdleState
  <2> QED
    BY <1>1, <1>2, <1>3, <2>1, <2>2 DEF BasketTypes, TypeOK, Rules
<1>5. OneRuns' /\ CallersAreRight'
  BY <1>1, IdleState DEF OneRuns, CallersAreRight
<1>6. \A s \in Sides, r \in Rules : Counted(s, r)' \subseteq Counted(s, r)
  BY <1>1 DEF Counted, StepsOf
<1>7. ASSUME NEW s \in Sides, NEW r \in Rules
      PROVE  basket'[s] = None /\ (r # "Hedge" => Counted(s, r)' = {})
  <2>1. ASSUME r # "Hedge" PROVE Counted(s, r)' = {}
    <3>1. r \in {"DCA", "Grid", "Pyramid"}
      BY <2>1, RulesListed
    <3>2. StepsOf(s, r) \subseteq excused'
      BY <1>1, <3>1, UncountedSteps
    <3> QED
      BY <1>1, <3>2 DEF Counted, StepsOf
  <2> QED
    BY <1>1, <2>1
<1>8. Ladders'
  BY <1>2, <1>4, <1>6, <1>7, LaddersFollow DEF BasketsInv
<1> QED
  BY <1>4, <1>5, <1>8 DEF BasketsInv

LEMMA BasketsStep ==
  ASSUME BasketsInv, [Next]_(vars) PROVE BasketsInv'
<1>1. ASSUME NEW c \in Callers, Evaluate(c) \/ Steps(c) PROVE BasketsInv'
  <2>1. CASE Evaluate(c)
    BY <2>1, EvaluateKeeps
  <2>2. CASE Filled(c)
    BY <2>2, FilledKeeps
  <2>3. CASE NotFilled(c)
    BY <2>3, NotFilledKeeps
  <2>4. CASE Told(c)
    BY <2>4, ToldKeeps
  <2>5. CASE Trailed(c) \/ RefreshFails(c) \/ Reported(c)
    BY <2>5, EndKeeps
  <2>6. CASE Closed(c) \/ NotClosed(c)
    BY <2>6, AnswerKeeps
  <2>7. CASE NextRound(c)
    BY <2>7, NextRoundKeeps
  <2>8. CASE CloseEnds(c)
    BY <2>8, CloseEndsKeeps
  <2> QED
    BY <1>1, <2>1, <2>2, <2>3, <2>4, <2>5, <2>6, <2>7, <2>8 DEF Steps
<1>2. CASE UNCHANGED vars
  <2>1. UNCHANGED <<tickets, book, store, late, basket, cooling, evaluating, task, excused>>
    BY <1>2 DEF vars, account
  <2>2. BasketTypes'
    BY <2>1 DEF BasketsInv, BasketTypes, TypeOK
  <2>3. \A s \in Sides, r \in Rules : Counted(s, r)' \subseteq Counted(s, r)
    BY <2>1 DEF Counted, StepsOf
  <2> QED
    BY <2>1, <2>2, <2>3, WorldMoves
<1> QED
  BY <1>1, <1>2, AccountKeeps, RestartKeeps DEF Next

\* The inductive invariant of the position manager.
THEOREM BasketsInvariant == Spec => []BasketsInv
<1>1. Init => BasketsInv
  BY InitBaskets
<1>2. BasketsInv /\ [Next]_(vars) => BasketsInv'
  BY BasketsStep
<1> QED
  BY <1>1, <1>2, PTL DEF Spec

\* The book, the counters and every caller's local state keep their types; only open
\* tickets are excused.
THEOREM BasketsTypes == Spec => []TypeOK
<1>1. BasketsInv => TypeOK
  BY DEF BasketsInv, BasketTypes
<1> QED
  BY <1>1, BasketsInvariant, PTL

\* _evaluating lets one evaluation through, across all its awaits, and is never left
\* set by one that ended.
THEOREM GateHolds == Spec => []GateIsHeld
<1>1. BasketsInv => GateIsHeld
  <2> SUFFICES ASSUME BasketsInv PROVE GateIsHeld
    OBVIOUS
  <2>1. PICK running : running = {c \in Callers : task[c].pc # "idle"}
    OBVIOUS
  <2>2. CASE evaluating
    <3>1. PICK c \in Callers : running = {c}
      BY <2>1, <2>2 DEF BasketsInv, OneRuns
    <3>2. Cardinality(running) = 1
      BY <3>1, FS_Singleton
    <3> QED
      BY <2>1, <2>2, <3>2 DEF GateIsHeld
  <2>3. CASE ~evaluating
    <3>1. running = {}
      BY <2>1, <2>3 DEF BasketsInv, OneRuns
    <3>2. Cardinality(running) = 0
      BY <3>1, FS_EmptySet
    <3> QED
      BY <2>1, <2>3, <3>2 DEF GateIsHeld
  <2> QED
    BY <2>2, <2>3
<1> QED
  BY <1>1, BasketsInvariant, PTL

\* The hedges, DCA, grid and pyramid steps that are open stay within the limits of
\* their rules, less those nothing in memory stands for.
THEOREM LadderHolds == Spec => []LadderIsCounted
<1>1. BasketsInv => LadderIsCounted
  BY DEF BasketsInv, Ladders, Open, Counted, LadderIsCounted, Rules
<1> QED
  BY <1>1, BasketsInvariant, PTL

\* A counter of an open basket never falls, whatever the other basket does; it goes
\* only with its own close, a restart, or a store without the basket.
THEOREM CountersHold == Spec => CountersSurvive
<1> DEFINE Kept(s) ==
             \/ basket[s] = None
             \/ Managed(s) = {}
             \/ \E c \in Callers : task[c].pc = "last" /\ task[c].side = s
             \/ basket'[s] # None /\ \A r \in Rules : basket'[s][r] >= basket[s][r]
             \/ Restart
<1>1. ASSUME BasketsInv, [Next]_(vars) PROVE [\A s \in Sides : Kept(s)]_(vars)
  <2> SUFFICES ASSUME Next, NEW s \in Sides, basket[s] # None, Managed(s) # {}, ~Restart
               PROVE  Kept(s)
    BY <1>1
  <2>1. BasketTypes /\ basket[s] \in [Rules -> Nat]
    BY <1>1 DEF BasketsInv, BasketTypes, TypeOK, Rules
  <2>2. CASE basket'[s] = basket[s]
    BY <2>1, <2>2
  <2>3. ASSUME NEW c, NEW before, NEW x, VisitFrom(c, before, x) PROVE Kept(s)
    <3>1. Visited(s) = basket[s]
      BY <2>1, VisitedCounters
    <3>2. basket'[s] = basket[s]
      BY <2>3, <3>1 DEF VisitFrom
    <3> QED
      BY <2>2, <3>2
  <2>4. ASSUME NEW c \in Callers, Told(c) PROVE Kept(s)
    <3>1. PICK y, u, f, k : y = task[c] /\ u = y.side /\ f = First(y.plan) /\ k = y.opened
      OBVIOUS
    <3>2. Adding(y) /\ u \in Sides /\ f \in Rules /\ k \in Nat
          /\ basket[u] # None /\ basket[u] \in [Rules -> Nat]
      BY <1>1, <2>4, <3>1, AddingState DEF Told, Adding, States
    <3>3. basket' = [basket EXCEPT ![u] = [basket[u] EXCEPT ![f] = @ + k]]
      BY <2>4, <3>1, <3>2 DEF Told
    <3>4. CASE u = s
      <4>1. PICK new : new = [basket[s] EXCEPT ![f] = @ + k]
        OBVIOUS
      <4>2. new \in [Rules -> Nat] /\ \A r \in Rules : new[r] >= basket[s][r]
        BY <2>1, <3>2, <4>1
      <4>3. basket'[s] = new
        BY <2>1, <3>3, <3>4, <4>1 DEF BasketTypes, TypeOK
      <4>4. new # None
        BY <4>2 DEF BasketsAssumption, Rules
      <4> QED
        BY <4>2, <4>3, <4>4
    <3>5. CASE u # s
      <4>1. basket'[s] = basket[s]
        BY <2>1, <3>3, <3>5 DEF BasketTypes, TypeOK
      <4> QED
        BY <2>2, <4>1
    <3> QED
      BY <3>4, <3>5
  <2>5. ASSUME NEW c \in Callers, CloseEnds(c) PROVE Kept(s)
    <3>1. CASE task[c].side = s
      BY <2>5, <3>1 DEF CloseEnds
    <3>2. CASE task[c].side # s
      <4>1. s \notin Drops(task[c].side)
        BY <3>2 DEF Drops
      <4>2. basket'[s] = basket[s]
        BY <2>5, <4>1 DEF CloseEnds
      <4> QED
        BY <2>2, <4>2
    <3> QED
      BY <3>1, <3>2
  <2>6. ASSUME NEW c \in Callers, Evaluate(c) \/ Steps(c) PROVE Kept(s)
    <3>1. CASE Evaluate(c)
      BY <2>3, <3>1 DEF Evaluate
    <3>2. CASE NotFilled(c)
      BY <2>2, <2>3, <3>2 DEF NotFilled
    <3>3. CASE Filled(c) \/ Trailed(c) \/ Closed(c) \/ NotClosed(c) \/ NextRound(c)
               \/ RefreshFails(c) \/ Reported(c)
      <4>1. UNCHANGED basket
        BY <3>3 DEF Filled, Trailed, Closed, NotClosed, NextRound, RefreshFails, Reported
      <4> QED
        BY <2>2, <4>1
    <3> QED
      BY <2>4, <2>5, <2>6, <3>1, <3>2, <3>3 DEF Steps
  <2>7. CASE ~\E c \in Callers : Evaluate(c) \/ Steps(c)
    <3>1. UNCHANGED basket
      BY <2>7 DEF Next, OpenSeed, CooldownEnds, FillLate, MarketClose, Snapshot, manager
    <3> QED
      BY <2>2, <3>1
  <2> QED
    BY <2>6, <2>7
<1>2. Spec => [][\A s \in Sides : Kept(s)]_(vars)
  BY <1>1, BasketsInvariant, PTL DEF Spec
<1> QED
  BY <1>2 DEF CountersSurvive, Rules
=============================================================================
