--------------------------- MODULE EntriesProofs ---------------------------
(***************************************************************************)
(* Proofs about the entry manager: Entries, for any tasks, symbols and     *)
(* limits, and Signals, for any number of indicators, confirmations and    *)
(* bars.                                                                   *)
(*                                                                         *)
(* That its marks are those of the tasks needs the queues of the locks:    *)
(* who is past the lock of a symbol is the first in its queue, so nobody   *)
(* else is.  The daily limit also needs Busy, the symbols a task may still *)
(* enter; the pauses PausesRight, what a task that nobody overtook has     *)
(* passed; and one entry per signal what a task past the lock has seen of  *)
(* the bars (SignalsRight).  StreaksAreEarned needs that a streak carries  *)
(* the bar and the verdict that were looked at last, so that AfterBar and  *)
(* the history agree on what "the same bar" means, or begins anew.         *)
(* LiveIsReplayed needs the live streak to trail the one of the backtest   *)
(* from bar to bar, and to be the same as long as nothing broke it.        *)
(***************************************************************************)
EXTENDS Entries, Signals, FiniteSetTheorems, SequenceTheorems, TLAPS

USE EntriesAssumption

\* A task is past the lock of its symbol, or has an order with the EA.
Beyond(t) == task[t].pc \in {"signal", "trend", "order", "notify"}
Orders(t) == task[t].pc \in {"order", "notify"}

\* Who evaluates a symbol stands once in its queue, and nowhere else; who is past the
\* lock is the first there.
QueuesRight ==
  /\ \A s \in Symbols : \A i, j \in DOMAIN queue[s] : queue[s][i] = queue[s][j] => i = j
  /\ \A s \in Symbols : \A i \in DOMAIN queue[s] : task[queue[s][i]].sym = s
  /\ \A t \in Tasks :
       IF task[t].pc = "idle" THEN task[t].sym = None
       ELSE /\ task[t].sym \in Symbols
            /\ \E i \in DOMAIN queue[task[t].sym] : queue[task[t].sym][i] = t
  /\ \A t \in Tasks : Beyond(t) => queue[task[t].sym][1] = t

\* The marks of _execute_entry.
MarksRight ==
  /\ \A s \in Symbols : acting[s] <=> \E t \in Tasks : task[t].sym = s /\ Orders(t)
  /\ inflight = Cardinality({t \in Tasks : Orders(t)})

\* What an evaluation enters on has come.
BarsRight ==
  /\ mode = "bars" => \A s \in Symbols : seen[s] # None
  /\ \A t \in Tasks : task[t].pc = "signal" => mode = "bars"
  /\ \A t \in Tasks : task[t].pc \in {"trend", "order"} => task[t].bar # None

TaskTypes == task \in [Tasks -> States] /\ queue \in [Symbols -> Seq(Tasks)]
EntriesBase == TypeOK /\ QueuesRight /\ MarksRight /\ BarsRight

LEMMA WithoutTask ==
  ASSUME NEW S, NEW q \in Seq(S), NEW k \in 1 .. Len(q), \A i \in 1 .. Len(q) : q[i] = q[k] => i = k
  PROVE  /\ Without(q, q[k]) \in Seq(S) /\ Len(Without(q, q[k])) = Len(q) - 1
         /\ \A i \in 1 .. Len(q) - 1 : Without(q, q[k])[i] = IF i < k THEN q[i] ELSE q[i + 1]
<1>1. PICK n \in Nat : n = Len(q) /\ DOMAIN q = 1 .. n
  OBVIOUS
<1>2. (CHOOSE i \in DOMAIN q : q[i] = q[k]) = k
  BY <1>1
<1>3. PICK before, after : before = SubSeq(q, 1, k - 1) /\ after = SubSeq(q, k + 1, n)
  OBVIOUS
<1>4. Without(q, q[k]) = before \o after
  BY <1>1, <1>2, <1>3 DEF Without, RemoveAt
<1>5. /\ before \in Seq(S) /\ Len(before) = k - 1 /\ \A i \in 1 .. k - 1 : before[i] = q[i]
  BY <1>1, <1>3
<1>6. /\ after \in Seq(S) /\ Len(after) = n - k /\ \A i \in 1 .. n - k : after[i] = q[k + i]
  BY <1>1, <1>3
<1>7. /\ before \o after \in Seq(S) /\ Len(before \o after) = n - 1
      /\ \A i \in 1 .. n - 1 : (before \o after)[i] = IF i <= k - 1 THEN before[i] ELSE after[i - (k - 1)]
  <2>1. /\ before \o after \in Seq(S) /\ Len(before \o after) = Len(before) + Len(after)
        /\ \A i \in 1 .. Len(before) + Len(after) :
             (before \o after)[i] = IF i <= Len(before) THEN before[i] ELSE after[i - Len(before)]
    <3>1. before \in Seq(S) /\ after \in Seq(S)
      BY <1>5, <1>6
    <3> QED
      BY <3>1, ConcatProperties
  <2>2. Len(before) + Len(after) = n - 1
    BY <1>1, <1>5, <1>6
  <2> QED
    BY <1>5, <2>1, <2>2
<1>8. ASSUME NEW i \in 1 .. n - 1 PROVE (before \o after)[i] = IF i < k THEN q[i] ELSE q[i + 1]
  <2>1. CASE i < k
    <3>1. i \in 1 .. k - 1
      BY <1>1, <2>1
    <3> QED
      BY <1>1, <1>5, <1>7, <2>1, <3>1
  <2>2. CASE ~(i < k)
    <3>1. i - (k - 1) \in 1 .. n - k /\ k + (i - (k - 1)) = i + 1
      BY <1>1, <2>2
    <3> QED
      BY <1>1, <1>6, <1>7, <2>2, <3>1
  <2> QED
    BY <2>1, <2>2
<1> QED
  BY <1>1, <1>4, <1>7, <1>8

LEMMA RestingState ==
  Idle \in States /\ Idle.pc = "idle" /\ Idle.sym = None
  BY DEF Idle, States

\* One task at most is past the lock of a symbol.
LEMMA LockExcludes ==
  ASSUME QueuesRight, NEW t \in Tasks, NEW u \in Tasks, Beyond(t), Beyond(u),
         task[t].sym = task[u].sym
  PROVE  t = u
  BY DEF QueuesRight

\* Task t asks for the lock of s.
LEMMA Joins ==
  ASSUME TaskTypes, QueuesRight, NEW t \in Tasks, NEW s \in Symbols,
         NEW x \in States, task[t].pc = "idle", x.pc = "lock", x.sym = s,
         task' = [task EXCEPT ![t] = x], queue' = [queue EXCEPT ![s] = Append(queue[s], t)]
  PROVE  TaskTypes' /\ QueuesRight'
<1>1. /\ task \in [Tasks -> States] /\ queue \in [Symbols -> Seq(Tasks)] /\ None \notin Symbols
  BY DEF TaskTypes, EntriesAssumption
<1>2. task'[t] = x /\ \A u \in Tasks \ {t} : task'[u] = task[u]
  BY <1>1
<1>3. PICK q \in Seq(Tasks), n \in Nat : q = queue[s] /\ n = Len(q) /\ DOMAIN q = 1 .. n
  BY <1>1
<1>4. PICK w \in Seq(Tasks) : /\ w = Append(q, t) /\ DOMAIN w = 1 .. n + 1 /\ w[n + 1] = t
                              /\ \A i \in 1 .. n : w[i] = q[i]
  <2>1. /\ Append(q, t) \in Seq(Tasks) /\ Len(Append(q, t)) = Len(q) + 1
        /\ Append(q, t)[Len(q) + 1] = t /\ \A i \in 1 .. Len(q) : Append(q, t)[i] = q[i]
    OBVIOUS
  <2>2. DOMAIN Append(q, t) = 1 .. Len(q) + 1
    BY <2>1
  <2> QED
    BY <1>3, <2>1, <2>2
<1>5. queue'[s] = w /\ \A v \in Symbols \ {s} : queue'[v] = queue[v]
  BY <1>1, <1>3, <1>4
<1>6. TaskTypes'
  BY <1>1, <1>3, <1>4 DEF TaskTypes
<1>7. \A v \in Symbols : \A i \in DOMAIN queue[v] : queue[v][i] # t /\ queue[v][i] \in Tasks
  <2> SUFFICES ASSUME NEW v \in Symbols, NEW i \in DOMAIN queue[v]
               PROVE  queue[v][i] # t /\ queue[v][i] \in Tasks
    OBVIOUS
  <2>1. queue[v] \in Seq(Tasks)
    BY <1>1
  <2>2. queue[v][i] \in Tasks
    BY <2>1
  <2>3. task[queue[v][i]].sym = v /\ task[t].sym = None
    BY DEF QueuesRight
  <2> QED
    BY <1>1, <2>2, <2>3
<1>8. ASSUME NEW v \in Symbols
      PROVE  /\ \A i, j \in DOMAIN queue'[v] : queue'[v][i] = queue'[v][j] => i = j
             /\ \A i \in DOMAIN queue'[v] : task'[queue'[v][i]].sym = v
  <2>1. CASE v = s
    <3>1. \A i \in 1 .. n : q[i] # t /\ q[i] \in Tasks /\ task[q[i]].sym = s
      BY <1>3, <1>7 DEF QueuesRight
    <3>2. \A i, j \in 1 .. n : q[i] = q[j] => i = j
      BY <1>3 DEF QueuesRight
    <3>3. \A i \in 1 .. n + 1 : i \in 1 .. n \/ i = n + 1
      BY <1>3
    <3> QED
      BY <1>2, <1>3, <1>4, <1>5, <2>1, <3>1, <3>2, <3>3
  <2>2. CASE v # s
    BY <1>2, <1>5, <1>7, <2>2 DEF QueuesRight
  <2> QED
    BY <2>1, <2>2
<1>9. ASSUME NEW u \in Tasks
      PROVE  /\ IF task'[u].pc = "idle" THEN task'[u].sym = None
                ELSE /\ task'[u].sym \in Symbols
                     /\ \E i \in DOMAIN queue'[task'[u].sym] : queue'[task'[u].sym][i] = u
             /\ Beyond(u)' => queue'[task'[u].sym][1] = u
  <2>1. CASE u = t
    <3>1. n + 1 \in 1 .. n + 1
      BY <1>3
    <3> QED
      BY <1>2, <1>4, <1>5, <2>1, <3>1 DEF Beyond
  <2>2. CASE u # t
    <3>1. task'[u] = task[u]
      BY <1>2, <2>2
    <3>2. CASE task[u].pc = "idle"
      BY <3>1, <3>2 DEF QueuesRight, Beyond
    <3>3. CASE task[u].pc # "idle" /\ task[u].sym # s
      BY <1>5, <3>1, <3>3 DEF QueuesRight, Beyond
    <3>4. CASE task[u].pc # "idle" /\ task[u].sym = s
      <4>1. PICK i \in 1 .. n : q[i] = u
        BY <1>3, <3>4 DEF QueuesRight
      <4>2. i \in 1 .. n + 1 /\ 1 \in 1 .. n
        BY <1>3, <4>1
      <4>3. Beyond(u) => q[1] = u
        BY <1>3, <3>4 DEF QueuesRight
      <4>4. queue'[s] = w /\ task'[u].sym = s /\ task'[u].pc # "idle"
        BY <1>5, <3>1, <3>4
      <4>5. i \in DOMAIN w /\ w[i] = u
        BY <1>4, <4>1, <4>2
      <4>6. Beyond(u)' => w[1] = u
        BY <1>4, <3>1, <4>2, <4>3 DEF Beyond
      <4> QED
        BY <4>4, <4>5, <4>6
    <3> QED
      BY <3>2, <3>3, <3>4
  <2> QED
    BY <2>1, <2>2
<1> QED
  BY <1>6, <1>8, <1>9 DEF QueuesRight

\* Task t leaves the queue of its symbol.
LEMMA Leaves ==
  ASSUME TaskTypes, QueuesRight, NEW t \in Tasks, task[t].pc # "idle",
         task' = [task EXCEPT ![t] = Idle],
         queue' = [queue EXCEPT ![task[t].sym] = Without(queue[task[t].sym], t)]
  PROVE  TaskTypes' /\ QueuesRight'
<1>1. task \in [Tasks -> States] /\ queue \in [Symbols -> Seq(Tasks)]
  BY DEF TaskTypes
<1>2. task'[t] = Idle /\ \A u \in Tasks \ {t} : task'[u] = task[u]
  BY <1>1
<1>3. PICK s \in Symbols : s = task[t].sym
  BY DEF QueuesRight
<1>4. PICK q \in Seq(Tasks), n \in Nat : q = queue[s] /\ n = Len(q) /\ DOMAIN q = 1 .. n
  BY <1>1
<1>5. PICK k \in 1 .. n : q[k] = t
  BY <1>3, <1>4 DEF QueuesRight
<1>6. \A i, j \in 1 .. n : q[i] = q[j] => i = j
  BY <1>4 DEF QueuesRight
<1>7. PICK w \in Seq(Tasks) : w = Without(q, t) /\ DOMAIN w = 1 .. n - 1
                              /\ \A i \in 1 .. n - 1 : w[i] = IF i < k THEN q[i] ELSE q[i + 1]
  <2>1. \A i \in 1 .. Len(q) : q[i] = q[k] => i = k
    BY <1>4, <1>5, <1>6
  <2>2. k \in 1 .. Len(q)
    BY <1>4
  <2>3. Without(q, q[k]) \in Seq(Tasks) /\ Len(Without(q, q[k])) = Len(q) - 1
        /\ \A i \in 1 .. Len(q) - 1 : Without(q, q[k])[i] = IF i < k THEN q[i] ELSE q[i + 1]
    BY <2>1, <2>2, WithoutTask
  <2> QED
    BY <1>4, <1>5, <2>3
<1>8. queue'[s] = w /\ \A v \in Symbols \ {s} : queue'[v] = queue[v]
  BY <1>1, <1>3, <1>4, <1>7
<1>9. TaskTypes'
  BY <1>1, <1>3, <1>4, <1>7, RestingState DEF TaskTypes
<1>10. \A i \in 1 .. n - 1 : \E j \in 1 .. n : j # k /\ w[i] = q[j] /\ j = IF i < k THEN i ELSE i + 1
  <2> SUFFICES ASSUME NEW i \in 1 .. n - 1
               PROVE  \E j \in 1 .. n : j # k /\ w[i] = q[j] /\ j = IF i < k THEN i ELSE i + 1
    OBVIOUS
  <2>1. CASE i < k
    <3>1. i \in 1 .. n /\ i # k
      BY <1>4, <2>1
    <3> QED
      BY <1>7, <2>1, <3>1
  <2>2. CASE ~(i < k)
    <3>1. i + 1 \in 1 .. n /\ i + 1 # k
      BY <1>4, <1>5, <2>2
    <3> QED
      BY <1>7, <2>2, <3>1
  <2> QED
    BY <2>1, <2>2
<1>11. ASSUME NEW v \in Symbols
       PROVE  /\ \A i, j \in DOMAIN queue'[v] : queue'[v][i] = queue'[v][j] => i = j
              /\ \A i \in DOMAIN queue'[v] : task'[queue'[v][i]].sym = v
  <2>1. CASE v = s
    <3>1. \A i \in 1 .. n : q[i] \in Tasks /\ task[q[i]].sym = s
      BY <1>4 DEF QueuesRight
    <3>2. ASSUME NEW i \in 1 .. n - 1 PROVE w[i] # t /\ task'[w[i]].sym = s
      <4>1. PICK j \in 1 .. n : j # k /\ w[i] = q[j]
        BY <1>10, <3>2
      <4>2. q[j] # t
        BY <1>5, <1>6, <4>1
      <4> QED
        BY <1>2, <3>1, <4>1, <4>2
    <3>3. ASSUME NEW i \in 1 .. n - 1, NEW j \in 1 .. n - 1, w[i] = w[j] PROVE i = j
      <4>1. PICK a \in 1 .. n : a # k /\ w[i] = q[a] /\ a = IF i < k THEN i ELSE i + 1
        BY <1>10, <3>3
      <4>2. PICK b \in 1 .. n : b # k /\ w[j] = q[b] /\ b = IF j < k THEN j ELSE j + 1
        BY <1>10, <3>3
      <4>3. a = b
        BY <1>6, <3>3, <4>1, <4>2
      <4> QED
        BY <1>4, <1>5, <3>3, <4>1, <4>2, <4>3
    <3> QED
      BY <1>7, <1>8, <2>1, <3>2, <3>3
  <2>2. CASE v # s
    <3>1. \A i \in DOMAIN queue[v] : queue[v][i] \in Tasks /\ queue[v][i] # t
      BY <1>1, <1>3, <2>2 DEF QueuesRight
    <3> QED
      BY <1>2, <1>8, <2>2, <3>1 DEF QueuesRight
  <2> QED
    BY <2>1, <2>2
<1>12. ASSUME NEW u \in Tasks
       PROVE  /\ IF task'[u].pc = "idle" THEN task'[u].sym = None
                 ELSE /\ task'[u].sym \in Symbols
                      /\ \E i \in DOMAIN queue'[task'[u].sym] : queue'[task'[u].sym][i] = u
              /\ Beyond(u)' => queue'[task'[u].sym][1] = u
  <2>1. CASE u = t
    BY <1>2, <2>1, RestingState DEF Beyond
  <2>2. CASE u # t
    <3>1. task'[u] = task[u]
      BY <1>2, <2>2
    <3>2. CASE task[u].pc = "idle"
      BY <3>1, <3>2 DEF QueuesRight, Beyond
    <3>3. CASE task[u].pc # "idle" /\ task[u].sym # s
      BY <1>8, <3>1, <3>3 DEF QueuesRight, Beyond
    <3>4. CASE task[u].pc # "idle" /\ task[u].sym = s
      <4>1. PICK i \in 1 .. n : q[i] = u
        BY <1>4, <3>4 DEF QueuesRight
      <4>2. i # k
        BY <1>5, <2>2, <4>1
      <4>3. PICK j \in 1 .. n - 1 : j = IF i < k THEN i ELSE i - 1
        <5>1. CASE i < k
          <6>1. i \in 1 .. n - 1
            BY <1>4, <1>5, <4>1, <5>1
          <6> QED
            BY <5>1, <6>1
        <5>2. CASE ~(i < k)
          <6>1. i - 1 \in 1 .. n - 1
            BY <1>4, <1>5, <4>1, <4>2, <5>2
          <6> QED
            BY <5>2, <6>1
        <5> QED
          BY <5>1, <5>2
      <4>4. w[j] = u
        <5>1. CASE i < k
          BY <1>7, <4>1, <4>3, <5>1
        <5>2. CASE ~(i < k)
          <6>1. ~(j < k) /\ j + 1 = i
            BY <1>4, <1>5, <4>1, <4>2, <4>3, <5>2
          <6> QED
            BY <1>7, <4>1, <4>3, <6>1
        <5> QED
          BY <5>1, <5>2
      <4>5. Beyond(u) => w[1] = u
        <5>1. Beyond(u) => q[1] = u
          BY <1>4, <3>4 DEF QueuesRight
        <5>2. 1 \in 1 .. n
          BY <1>4, <4>1
        <5>3. Beyond(u) => i = 1
          BY <1>6, <4>1, <5>1, <5>2
        <5>4. i = 1 => j = 1
          BY <1>5, <4>2, <4>3
        <5> QED
          BY <4>4, <5>3, <5>4
      <4> QED
        BY <1>7, <1>8, <3>1, <3>4, <4>3, <4>4, <4>5 DEF Beyond
    <3> QED
      BY <3>2, <3>3, <3>4
  <2> QED
    BY <2>1, <2>2
<1> QED
  BY <1>9, <1>11, <1>12 DEF QueuesRight

\* Task t goes on in its evaluation.
LEMMA GoesOn ==
  ASSUME TaskTypes, QueuesRight, NEW t \in Tasks, NEW x \in States, task[t].pc # "idle",
         x.pc # "idle", x.sym = task[t].sym, Beyond(t) \/ queue[x.sym][1] = t,
         task' = [task EXCEPT ![t] = x], UNCHANGED queue
  PROVE  TaskTypes' /\ QueuesRight'
<1>1. task \in [Tasks -> States] /\ queue \in [Symbols -> Seq(Tasks)]
  BY DEF TaskTypes
<1>2. task'[t] = x /\ (\A u \in Tasks \ {t} : task'[u] = task[u]) /\ \A u \in Tasks : task'[u].sym = task[u].sym
  BY <1>1
<1>3. \A s \in Symbols : \A i \in DOMAIN queue[s] : queue[s][i] \in Tasks
  BY <1>1
<1>4. QueuesRight'
  BY <1>2, <1>3 DEF QueuesRight, Beyond
<1> QED
  BY <1>1, <1>4 DEF TaskTypes

\* The types of what a step of one task seldom touches.
RestTypes ==
  /\ acting \in [Symbols -> BOOLEAN] /\ cooling \in [Symbols -> BOOLEAN]
  /\ backoff \in [Symbols -> BOOLEAN]
  /\ enteredBar \in [Symbols -> 1 .. MaxBar \cup {None}]
  /\ entries \in Nat /\ newDay \in BOOLEAN /\ bar \in 1 .. MaxBar /\ mode \in Modes
  /\ seen \in [Symbols -> 1 .. bar \cup {None}]
  /\ book \in [Symbols -> 0 .. MaxBook] /\ snap \in [Symbols -> 0 .. MaxBook]
  /\ store \in [Symbols -> 0 .. MaxBook] /\ late \subseteq Symbols
  /\ spent \in [Symbols -> SUBSET (1 .. MaxBar)]
Awake == {t \in Tasks : task[t].pc # "idle"}

LEMMA EntriesFinite == IsFiniteSet(Symbols) /\ IsFiniteSet(Tasks)
  BY EntriesAssumption DEF EntriesAssumption

\* The parts of the types, and the types from their parts.
LEMMA TypesSplit ==
  ASSUME TypeOK
  PROVE  TaskTypes /\ RestTypes /\ overtaken \subseteq Awake
  BY DEF TypeOK, TaskTypes, RestTypes, Awake, In

LEMMA TypesJoin ==
  ASSUME TaskTypes', RestTypes', overtaken' \subseteq Awake', MarksRight'
  PROVE  TypeOK'
<1>1. PICK orders : orders = {t \in Tasks : Orders(t)'}
  OBVIOUS
<1>2. orders \subseteq Tasks
  BY <1>1
<1>3. /\ Cardinality(orders) <= Cardinality(Tasks)
      /\ Cardinality(orders) \in Nat /\ Cardinality(Tasks) \in Nat
  BY <1>2, EntriesFinite, FS_Subset, FS_CardinalityType
<1>4. inflight' = Cardinality(orders)
  BY <1>1 DEF MarksRight
<1>5. inflight' \in 0 .. Cardinality(Tasks)
  BY <1>3, <1>4
<1> QED
  BY <1>5 DEF TypeOK, TaskTypes, RestTypes, Awake, In

\* Task t gets the local state x, and the marks go with it.
LEMMA MarksFollow ==
  ASSUME EntriesBase, NEW t \in Tasks, NEW x \in States,
         task' = [task EXCEPT ![t] = x],
         \/ /\ x.pc \in {"order", "notify"} <=> Orders(t)
            /\ Orders(t) => x.sym = task[t].sym
            /\ UNCHANGED <<acting, inflight>>
         \/ /\ task[t].pc = "trend" /\ x.pc = "order" /\ x.sym = task[t].sym
            /\ acting' = [acting EXCEPT ![x.sym] = TRUE]
            /\ inflight' = inflight + 1
         \/ Orders(t) /\ x.pc = "idle" /\ Finally(t)
  PROVE  MarksRight'
<1>1. /\ TaskTypes /\ RestTypes /\ QueuesRight /\ MarksRight /\ task \in [Tasks -> States]
      /\ acting \in [Symbols -> BOOLEAN]
  BY TypesSplit DEF EntriesBase, TaskTypes, RestTypes
<1>2. task'[t] = x /\ \A u \in Tasks \ {t} : task'[u] = task[u] /\ (Orders(u)' <=> Orders(u))
  BY <1>1 DEF Orders
<1>3. PICK orders : orders = {u \in Tasks : Orders(u)}
  OBVIOUS
<1>4. IsFiniteSet(orders) /\ Cardinality(orders) \in Nat /\ inflight = Cardinality(orders)
  <2>1. IsFiniteSet(orders)
    BY <1>3, EntriesFinite, FS_Subset
  <2> QED
    BY <1>1, <1>3, <2>1, FS_CardinalityType DEF MarksRight
<1>5. CASE /\ x.pc \in {"order", "notify"} <=> Orders(t)
           /\ Orders(t) => x.sym = task[t].sym
           /\ UNCHANGED <<acting, inflight>>
  <2>1. \A u \in Tasks : (Orders(u)' <=> Orders(u)) /\ (Orders(u) => task'[u].sym = task[u].sym)
    BY <1>2, <1>5 DEF Orders
  <2>2. {u \in Tasks : Orders(u)'} = orders
    BY <1>3, <2>1
  <2>3. inflight' = Cardinality({u \in Tasks : Orders(u)'})
    BY <1>4, <1>5, <2>2
  <2> QED
    BY <1>1, <1>5, <2>1, <2>3 DEF MarksRight
<1>6. CASE /\ task[t].pc = "trend" /\ x.pc = "order" /\ x.sym = task[t].sym
           /\ acting' = [acting EXCEPT ![x.sym] = TRUE]
           /\ inflight' = inflight + 1
  <2>1. ~Orders(t) /\ Orders(t)' /\ x.sym \in Symbols
    BY <1>1, <1>2, <1>6 DEF Orders, QueuesRight
  <2>2. {u \in Tasks : Orders(u)'} = orders \cup {t} /\ t \notin orders
    BY <1>2, <1>3, <2>1
  <2>3. Cardinality(orders \cup {t}) = Cardinality(orders) + 1
    BY <1>4, <2>2, FS_AddElement
  <2>4. inflight' = Cardinality({u \in Tasks : Orders(u)'})
    BY <1>4, <1>6, <2>2, <2>3
  <2>5. \A s \in Symbols : acting'[s] <=> \E u \in Tasks : task'[u].sym = s /\ Orders(u)'
    <3>1. ASSUME NEW s \in Symbols, s # x.sym
          PROVE  (\E u \in Tasks : task'[u].sym = s /\ Orders(u)') <=>
                 (\E u \in Tasks : task[u].sym = s /\ Orders(u))
      BY <1>2, <1>6, <3>1
    <3>2. acting'[x.sym] /\ \A s \in Symbols \ {x.sym} : acting'[s] = acting[s]
      BY <1>1, <1>6, <2>1
    <3> QED
      BY <1>1, <1>2, <2>1, <3>1, <3>2 DEF MarksRight
  <2> QED
    BY <2>4, <2>5 DEF MarksRight
<1>7. CASE Orders(t) /\ x.pc = "idle" /\ Finally(t)
  <2>1. PICK s \in Symbols : s = task[t].sym
    BY <1>1, <1>7 DEF Orders, QueuesRight
  <2>2. /\ acting' = [acting EXCEPT ![s] = FALSE]
        /\ inflight' = IF inflight = 0 THEN 0 ELSE inflight - 1
    BY <1>7, <2>1 DEF Finally
  <2>3. ~Orders(t)'
    BY <1>2, <1>7 DEF Orders
  <2>4. {u \in Tasks : Orders(u)'} = orders \ {t} /\ t \in orders
    BY <1>2, <1>3, <1>7, <2>3
  <2>5. Cardinality(orders \ {t}) = Cardinality(orders) - 1
    BY <1>4, <2>4, FS_RemoveElement
  <2>6. Cardinality(orders) # 0
    BY <1>4, <2>4, FS_EmptySet
  <2>7. inflight' = Cardinality({u \in Tasks : Orders(u)'})
    BY <1>4, <2>2, <2>4, <2>5, <2>6
  <2>8. \A u \in Tasks \ {t} : task[u].sym = s => ~Orders(u)
    BY <1>1, <1>7, <2>1, LockExcludes DEF Orders, Beyond
  <2>9. \A v \in Symbols : acting'[v] <=> \E u \in Tasks : task'[u].sym = v /\ Orders(u)'
    <3>1. ASSUME NEW v \in Symbols, v # s
          PROVE  (\E u \in Tasks : task'[u].sym = v /\ Orders(u)') <=>
                 (\E u \in Tasks : task[u].sym = v /\ Orders(u))
      BY <1>2, <2>1, <2>3, <3>1
    <3>2. ~acting'[s] /\ \A v \in Symbols \ {s} : acting'[v] = acting[v]
      BY <1>1, <2>2
    <3>3. ~\E u \in Tasks : task'[u].sym = s /\ Orders(u)'
      BY <1>2, <2>3, <2>8
    <3> QED
      BY <1>1, <3>1, <3>2, <3>3 DEF MarksRight
  <2> QED
    BY <2>7, <2>9 DEF MarksRight
<1> QED
  BY <1>5, <1>6, <1>7

\* What a step of task t has to establish.
LEMMA TaskKeeps ==
  ASSUME EntriesBase, NEW t \in Tasks, NEW x \in States,
         task' = [task EXCEPT ![t] = x], TaskTypes', QueuesRight', MarksRight', RestTypes',
         overtaken' \subseteq Awake', UNCHANGED mode,
         mode = "bars" => \A s \in Symbols : seen'[s] # None,
         x.pc = "signal" => mode = "bars", x.pc \in {"trend", "order"} => x.bar # None
  PROVE  EntriesBase'
<1>1. task \in [Tasks -> States]
  BY TypesSplit DEF EntriesBase, TaskTypes
<1>2. task'[t] = x /\ \A u \in Tasks \ {t} : task'[u] = task[u]
  BY <1>1
<1>3. BarsRight'
  BY <1>2 DEF EntriesBase, BarsRight
<1>4. TypeOK'
  BY TypesJoin
<1> QED
  BY <1>3, <1>4 DEF EntriesBase

\* Task t leaves, with its marks.
LEMMA LeaveKeeps ==
  ASSUME EntriesBase, NEW t \in Tasks, task[t].pc # "idle",
         task' = [task EXCEPT ![t] = Idle],
         queue' = [queue EXCEPT ![task[t].sym] = Without(queue[task[t].sym], t)],
         overtaken' \subseteq Awake \ {t}, RestTypes', UNCHANGED mode,
         mode = "bars" => \A s \in Symbols : seen'[s] # None,
         (~Orders(t) /\ UNCHANGED <<acting, inflight>>) \/ (Orders(t) /\ Finally(t))
  PROVE  EntriesBase'
<1>1. TaskTypes /\ QueuesRight
  BY TypesSplit DEF EntriesBase
<1>2. TaskTypes' /\ QueuesRight'
  BY <1>1, Leaves
<1>3. PICK x \in States : x = Idle /\ x.pc = "idle"
  BY RestingState
<1>4. MarksRight'
  BY <1>3, MarksFollow
<1>5. overtaken' \subseteq Awake'
  BY <1>1 DEF TaskTypes, Awake
<1> QED
  BY <1>2, <1>3, <1>4, <1>5, TaskKeeps

\* Task t goes on, in the same evaluation and with the same marks.
LEMMA GoOnKeeps ==
  ASSUME EntriesBase, NEW t \in Tasks, NEW x \in States,
         task[t].pc # "idle", x.pc # "idle", x.sym = task[t].sym,
         Beyond(t) \/ queue[x.sym][1] = t,
         task' = [task EXCEPT ![t] = x], UNCHANGED <<queue, overtaken, mode>>, RestTypes',
         mode = "bars" => \A s \in Symbols : seen'[s] # None,
         x.pc = "signal" => mode = "bars", x.pc \in {"trend", "order"} => x.bar # None,
         \/ /\ x.pc \in {"order", "notify"} <=> Orders(t)
            /\ UNCHANGED <<acting, inflight>>
         \/ /\ task[t].pc = "trend" /\ x.pc = "order"
            /\ acting' = [acting EXCEPT ![x.sym] = TRUE]
            /\ inflight' = inflight + 1
  PROVE  EntriesBase'
<1>1. TaskTypes /\ QueuesRight /\ overtaken \subseteq Awake
  BY TypesSplit DEF EntriesBase
<1>2. TaskTypes' /\ QueuesRight'
  BY <1>1, GoesOn
<1>3. MarksRight'
  BY MarksFollow
<1>4. overtaken' \subseteq Awake'
  BY <1>1 DEF TaskTypes, Awake
<1> QED
  BY <1>2, <1>3, <1>4, TaskKeeps

\* No task moves.
LEMMA WorldKeeps ==
  ASSUME EntriesBase, UNCHANGED <<queue, task, acting, inflight, mode>>,
         RestTypes', overtaken' \subseteq Awake,
         mode = "bars" => \A s \in Symbols : seen'[s] # None
  PROVE  EntriesBase'
<1>1. TaskTypes' /\ QueuesRight' /\ MarksRight' /\ BarsRight'
  BY TypesSplit DEF EntriesBase, TaskTypes, QueuesRight, Beyond, MarksRight, Orders, BarsRight
<1>2. overtaken' \subseteq Awake'
  BY DEF Awake
<1> QED
  BY <1>1, <1>2, TypesJoin DEF EntriesBase

LEMMA DayRolls ==
  ASSUME entries \in Nat, NEW reached, RollDay(reached)
  PROVE  entries' \in Nat /\ entries' <= entries /\ newDay' \in BOOLEAN
         /\ (reached => entries' = Today)
  BY DEF RollDay, Today

\* What "seen" becomes is a bar that has come.
LEMMA SeenMoves ==
  ASSUME RestTypes, UNCHANGED <<bar, mode>>, NEW s \in Symbols,
         UNCHANGED seen \/ \E b \in 1 .. bar : seen' = [seen EXCEPT ![s] = b]
  PROVE  seen' \in [Symbols -> 1 .. bar' \cup {None}]
  BY DEF RestTypes

LEMMA BeginKeeps ==
  ASSUME EntriesBase, NEW t \in Tasks, NEW s \in Symbols, Begin(t, s)
  PROVE  EntriesBase'
<1>1. TaskTypes /\ RestTypes /\ QueuesRight /\ overtaken \subseteq Awake /\ BarsRight
  BY TypesSplit DEF EntriesBase
<1>2. /\ task[t].pc = "idle" /\ RollDay(RoomFor(s)) /\ PriceSeen(s)
      /\ UNCHANGED <<acting, inflight, cooling, backoff, enteredBar, mode, bar, book, snap, store, late,
                     spent, overtaken>>
  BY DEF Begin, In, account
<1>3. entries' \in Nat /\ newDay' \in BOOLEAN
  BY <1>1, <1>2, DayRolls DEF RestTypes
<1>4. bar \in 1 .. bar /\ bar \in 1 .. MaxBar /\ bar # None
  BY <1>1 DEF RestTypes, EntriesAssumption
<1>5. UNCHANGED seen \/ (mode = "price" /\ seen' = [seen EXCEPT ![s] = bar])
  BY <1>2 DEF PriceSeen
<1>6. seen' \in [Symbols -> 1 .. bar' \cup {None}]
  BY <1>1, <1>2, <1>4, <1>5, SeenMoves DEF BarsRight
<1>7. mode = "bars" => \A v \in Symbols : seen'[v] # None
  BY <1>1, <1>5 DEF BarsRight
<1>8. RestTypes'
  BY <1>1, <1>2, <1>3, <1>6 DEF RestTypes
<1>9. CASE GuardsOk(s)
  <2>1. PICK b \in Crossed(s) :
          /\ task' = [task EXCEPT ![t] = [Idle EXCEPT !.pc = "lock", !.sym = s, !.bar = b]]
          /\ queue' = [queue EXCEPT ![s] = Append(@, t)]
    BY <1>9 DEF Begin
  <2>2. b \in 1 .. MaxBar \cup {None}
    BY <1>4 DEF Crossed
  <2>3. PICK x : x = [Idle EXCEPT !.pc = "lock", !.sym = s, !.bar = b]
    OBVIOUS
  <2>4. x \in States /\ x.pc = "lock" /\ x.sym = s
    BY <2>2, <2>3, RestingState DEF States
  <2>5. task' = [task EXCEPT ![t] = x] /\ queue' = [queue EXCEPT ![s] = Append(queue[s], t)]
    BY <2>1, <2>3
  <2>6. TaskTypes' /\ QueuesRight'
    BY <1>1, <1>2, <2>4, <2>5, Joins
  <2>7. MarksRight'
    BY <1>2, <2>4, <2>5, MarksFollow DEF Orders
  <2>8. overtaken' \subseteq Awake'
    BY <1>1, <1>2, <2>4, <2>5 DEF TaskTypes, Awake
  <2> QED
    BY <1>2, <1>7, <1>8, <2>4, <2>5, <2>6, <2>7, <2>8, TaskKeeps
<1>10. CASE ~GuardsOk(s)
  <2>1. UNCHANGED <<task, queue>>
    BY <1>10 DEF Begin
  <2> QED
    BY <1>1, <1>2, <1>7, <1>8, <2>1, WorldKeeps
<1> QED
  BY <1>9, <1>10

\* Task t goes on to its next await.
LEMMA GoesTo ==
  ASSUME TaskTypes, NEW t \in Tasks, NEW pc \in {"signal", "trend"},
         NEW b \in 1 .. MaxBar \cup {None}, GoOn(t, pc, b)
  PROVE  /\ UNCHANGED <<queue, overtaken>>
         /\ \E x \in States : /\ x.pc = pc /\ x.sym = task[t].sym /\ x.bar = b
                              /\ task' = [task EXCEPT ![t] = x]
<1>1. task \in [Tasks -> States]
  BY DEF TaskTypes
<1>2. PICK x : x = [task[t] EXCEPT !.pc = pc, !.bar = b]
  OBVIOUS
<1>3. x \in States /\ x.pc = pc /\ x.sym = task[t].sym /\ x.bar = b
  BY <1>1, <1>2 DEF States
<1>4. task' = [task EXCEPT ![t] = x]
  BY <1>1, <1>2 DEF GoOn, States
<1> QED
  BY <1>3, <1>4 DEF GoOn

LEMMA EnterKeeps ==
  ASSUME EntriesBase, NEW t \in Tasks, Enter(t)
  PROVE  EntriesBase'
<1>1. TaskTypes /\ RestTypes /\ QueuesRight /\ overtaken \subseteq Awake /\ BarsRight
  BY TypesSplit DEF EntriesBase
<1>2. PICK s \in Symbols : s = task[t].sym /\ task[t].pc = "lock" /\ queue[s][1] = t
  BY <1>1 DEF Enter, In, Holds, QueuesRight
<1>3. PICK b \in 1 .. MaxBar \cup {None} : b = task[t].bar
  BY <1>1 DEF TaskTypes, States
<1>4. PICK pass \in BOOLEAN : pass <=> Fresh(s) /\ GuardsOk(s)
  OBVIOUS
<1>5. /\ RollDay(Fresh(s) /\ RoomFor(s))
      /\ UNCHANGED <<acting, inflight, backoff, enteredBar, mode, bar, book, snap, store, late, spent>>
      /\ \/ pass /\ mode = "bars" /\ GoOn(t, "signal", None) /\ UNCHANGED <<seen, cooling>>
         \/ /\ pass /\ Fires(s, b) /\ UNCHANGED cooling
            /\ GoOn(t, "trend", IF mode = "price" THEN b ELSE bar)
         \/ Arms(s) /\ Leave(t)
         \/ Leave(t) /\ UNCHANGED <<seen, cooling>>
  BY <1>2, <1>3, <1>4 DEF Enter, account
<1>6. entries' \in Nat /\ newDay' \in BOOLEAN
  BY <1>1, <1>5, DayRolls DEF RestTypes
<1>7. bar \in 1 .. bar /\ bar \in 1 .. MaxBar /\ bar # None
  BY <1>1 DEF RestTypes, EntriesAssumption
<1>8. /\ seen' \in [Symbols -> 1 .. bar' \cup {None}]
      /\ mode = "bars" => \A v \in Symbols : seen'[v] # None
      /\ cooling' \in [Symbols -> BOOLEAN]
  <2>1. UNCHANGED seen \/ (mode # "bars" /\ seen' = [seen EXCEPT ![s] = bar])
    BY <1>5 DEF Fires, Arms
  <2>2. seen' \in [Symbols -> 1 .. bar' \cup {None}]
    BY <1>1, <1>5, <1>7, <2>1, SeenMoves
  <2>3. cooling' \in [Symbols -> BOOLEAN]
    BY <1>1, <1>5 DEF Arms, RestTypes
  <2> QED
    BY <1>1, <2>1, <2>2, <2>3 DEF BarsRight
<1>9. RestTypes'
  BY <1>1, <1>5, <1>6, <1>8 DEF RestTypes
<1>10. CASE Leave(t)
  <2>1. ~Orders(t) /\ UNCHANGED <<acting, inflight>>
    BY <1>2, <1>5 DEF Orders
  <2>2. /\ task' = [task EXCEPT ![t] = Idle] /\ overtaken' \subseteq Awake \ {t}
        /\ queue' = [queue EXCEPT ![task[t].sym] = Without(queue[task[t].sym], t)]
    BY <1>1, <1>10 DEF Leave
  <2> QED
    BY <1>2, <1>5, <1>8, <1>9, <2>1, <2>2, LeaveKeeps
<1>11. CASE mode = "bars" /\ GoOn(t, "signal", None)
  <2>1. /\ UNCHANGED <<queue, overtaken>>
        /\ \E x \in States : /\ x.pc = "signal" /\ x.sym = task[t].sym /\ x.bar = None
                             /\ task' = [task EXCEPT ![t] = x]
    <3>1. PICK pc \in {"signal", "trend"}, c \in 1 .. MaxBar \cup {None} : pc = "signal" /\ c = None
      OBVIOUS
    <3>2. GoOn(t, pc, c)
      BY <1>11, <3>1
    <3> QED
      BY <1>1, <3>1, <3>2, GoesTo
  <2> QED
    BY <1>2, <1>5, <1>8, <1>9, <1>11, <2>1, GoOnKeeps DEF Orders
<1>12. CASE Fires(s, b) /\ GoOn(t, "trend", IF mode = "price" THEN b ELSE bar)
  <2>1. PICK c \in 1 .. MaxBar \cup {None} : c = (IF mode = "price" THEN b ELSE bar) /\ c # None
    BY <1>3, <1>7, <1>12 DEF Fires
  <2>2. GoOn(t, "trend", c)
    BY <1>12, <2>1
  <2>3. /\ UNCHANGED <<queue, overtaken>>
        /\ \E x \in States : /\ x.pc = "trend" /\ x.sym = task[t].sym /\ x.bar = c
                             /\ task' = [task EXCEPT ![t] = x]
    BY <1>1, <2>2, GoesTo
  <2> QED
    BY <1>2, <1>5, <1>8, <1>9, <2>1, <2>3, GoOnKeeps DEF Orders
<1> QED
  BY <1>5, <1>10, <1>11, <1>12

LEMMA SignalKeeps ==
  ASSUME EntriesBase, NEW t \in Tasks, Signal(t)
  PROVE  EntriesBase'
<1>1. TaskTypes /\ RestTypes /\ QueuesRight /\ overtaken \subseteq Awake /\ BarsRight
  BY TypesSplit DEF EntriesBase
<1>2. PICK s \in Symbols : s = task[t].sym /\ task[t].pc = "signal" /\ mode = "bars"
  BY <1>1 DEF Signal, In, QueuesRight, BarsRight
<1>3. PICK b \in seen[s] .. bar : /\ seen' = [seen EXCEPT ![s] = b]
                                  /\ Leave(t) \/ GoOn(t, "trend", b)
  BY <1>2 DEF Signal
<1>4. /\ UNCHANGED <<acting, inflight, cooling, backoff, enteredBar, entries, newDay, mode, bar, book,
                     snap, store, late, spent>>
  BY DEF Signal, manager, account
<1>5. b \in 1 .. bar /\ b \in 1 .. MaxBar /\ b # None
  <2>1. seen[s] \in 1 .. bar /\ bar \in 1 .. MaxBar
    BY <1>1, <1>2 DEF RestTypes, BarsRight
  <2> QED
    BY <2>1 DEF EntriesAssumption
<1>6. seen' \in [Symbols -> 1 .. bar' \cup {None}]
  BY <1>1, <1>3, <1>4, <1>5, SeenMoves
<1>7. \A v \in Symbols : seen'[v] # None
  BY <1>1, <1>2, <1>3, <1>5 DEF RestTypes, BarsRight
<1>8. RestTypes'
  BY <1>1, <1>4, <1>6 DEF RestTypes
<1>9. CASE Leave(t)
  <2>1. ~Orders(t)
    BY <1>2 DEF Orders
  <2>2. /\ task' = [task EXCEPT ![t] = Idle] /\ overtaken' \subseteq Awake \ {t}
        /\ queue' = [queue EXCEPT ![task[t].sym] = Without(queue[task[t].sym], t)]
    BY <1>1, <1>9 DEF Leave
  <2> QED
    BY <1>2, <1>4, <1>7, <1>8, <2>1, <2>2, LeaveKeeps
<1>10. CASE GoOn(t, "trend", b)
  <2>1. /\ UNCHANGED <<queue, overtaken>>
        /\ \E x \in States : /\ x.pc = "trend" /\ x.sym = task[t].sym /\ x.bar = b
                             /\ task' = [task EXCEPT ![t] = x]
    BY <1>1, <1>5, <1>10, GoesTo
  <2>2. Beyond(t)
    BY <1>2 DEF Beyond
  <2> QED
    BY <1>2, <1>4, <1>5, <1>7, <1>8, <2>1, <2>2, GoOnKeeps DEF Orders
<1> QED
  BY <1>3, <1>9, <1>10

LEMMA TrendDeniesKeeps ==
  ASSUME EntriesBase, NEW t \in Tasks, TrendDenies(t)
  PROVE  EntriesBase'
<1>1. TaskTypes /\ RestTypes /\ overtaken \subseteq Awake /\ BarsRight
  BY TypesSplit DEF EntriesBase
<1>2. task[t].pc = "trend" /\ ~Orders(t)
  BY DEF TrendDenies, In, Orders
<1>3. /\ UNCHANGED <<acting, inflight, cooling, backoff, enteredBar, entries, newDay, mode, bar, seen,
                     book, snap, store, late, spent>>
      /\ task' = [task EXCEPT ![t] = Idle] /\ overtaken' \subseteq Awake \ {t}
      /\ queue' = [queue EXCEPT ![task[t].sym] = Without(queue[task[t].sym], t)]
  BY <1>1 DEF TrendDenies, Leave, manager, bars, account
<1>4. RestTypes' /\ (mode = "bars" => \A v \in Symbols : seen'[v] # None)
  BY <1>1, <1>3 DEF RestTypes, BarsRight
<1> QED
  BY <1>2, <1>3, <1>4, LeaveKeeps

\* A local state stays one when the task goes to another await, or is answered.
LEMMA StateMoves ==
  ASSUME NEW y \in States, NEW pc \in {"order", "notify"}
  PROVE  \E x \in States : /\ x = [y EXCEPT !.pc = pc]
                           /\ x.pc = pc /\ x.sym = y.sym /\ x.bar = y.bar
<1>1. PICK x : x = [y EXCEPT !.pc = pc]
  OBVIOUS
<1>2. x \in States /\ x.pc = pc /\ x.sym = y.sym /\ x.bar = y.bar
  BY <1>1 DEF States
<1> QED
  BY <1>1, <1>2

LEMMA StateAnswered ==
  ASSUME NEW y \in States, NEW r \in {"ok", "refused"}
  PROVE  \E x \in States : /\ x = [y EXCEPT !.reply = r]
                           /\ x.pc = y.pc /\ x.sym = y.sym /\ x.bar = y.bar
<1>1. PICK x : x = [y EXCEPT !.reply = r]
  OBVIOUS
<1>2. x \in States /\ x.pc = y.pc /\ x.sym = y.sym /\ x.bar = y.bar
  BY <1>1 DEF States
<1> QED
  BY <1>1, <1>2

LEMMA SendKeeps ==
  ASSUME EntriesBase, NEW t \in Tasks, Send(t)
  PROVE  EntriesBase'
<1>1. TaskTypes /\ RestTypes /\ QueuesRight /\ BarsRight
  BY TypesSplit DEF EntriesBase
<1>2. PICK s \in Symbols : s = task[t].sym /\ task[t].pc = "trend" /\ task[t].bar # None
  BY <1>1 DEF Send, In, QueuesRight, BarsRight
<1>3. /\ acting' = [acting EXCEPT ![s] = TRUE] /\ inflight' = inflight + 1 /\ RollDay(TRUE)
      /\ task' = [task EXCEPT ![t].pc = "order"]
      /\ UNCHANGED <<queue, cooling, backoff, enteredBar, mode, bar, seen, book, snap, store, late,
                     spent, overtaken>>
  BY <1>2 DEF Send, bars, account
<1>4. task \in [Tasks -> States] /\ task[t] \in States
  BY <1>1 DEF TaskTypes
<1>5. PICK x \in States : /\ x = [task[t] EXCEPT !.pc = "order"]
                          /\ x.pc = "order" /\ x.sym = task[t].sym /\ x.bar = task[t].bar
  BY <1>4, StateMoves
<1>6. task' = [task EXCEPT ![t] = x]
  BY <1>3, <1>4, <1>5
<1>7. entries' \in Nat /\ newDay' \in BOOLEAN
  BY <1>1, <1>3, DayRolls DEF RestTypes
<1>8. RestTypes' /\ (mode = "bars" => \A v \in Symbols : seen'[v] # None)
  BY <1>1, <1>3, <1>7 DEF RestTypes, BarsRight
<1>9. Beyond(t)
  BY <1>2 DEF Beyond
<1> QED
  BY <1>2, <1>3, <1>5, <1>6, <1>8, <1>9, GoOnKeeps

\* What the cooldown, the bars entered on and "seen" become when an order is done.
LEMMA EntryMarked ==
  ASSUME EntriesBase, NEW t \in Tasks, task[t].pc = "order", MarkEntered(t),
         UNCHANGED <<bar, mode>>
  PROVE  /\ cooling' \in [Symbols -> BOOLEAN]
         /\ enteredBar' \in [Symbols -> 1 .. MaxBar \cup {None}]
         /\ seen' \in [Symbols -> 1 .. bar' \cup {None}]
         /\ mode = "bars" => \A s \in Symbols : seen'[s] # None
<1>1. TaskTypes /\ RestTypes /\ QueuesRight /\ BarsRight
  BY TypesSplit DEF EntriesBase
<1>2. PICK s \in Symbols, b \in 1 .. MaxBar : s = task[t].sym /\ b = task[t].bar
  BY <1>1 DEF TaskTypes, States, QueuesRight, BarsRight
<1>3. bar \in 1 .. bar /\ bar # None
  BY <1>1 DEF RestTypes, EntriesAssumption
<1>4. /\ cooling' = [cooling EXCEPT ![s] = TRUE]
      /\ enteredBar' = [enteredBar EXCEPT ![s] = b] \/ UNCHANGED enteredBar
      /\ UNCHANGED seen \/ seen' = [seen EXCEPT ![s] = bar]
  BY <1>2 DEF MarkEntered, Restarted
<1>5. seen' \in [Symbols -> 1 .. bar' \cup {None}]
  BY <1>1, <1>3, <1>4, SeenMoves
<1>6. mode = "bars" => \A v \in Symbols : seen'[v] # None
  BY <1>1, <1>3, <1>4 DEF RestTypes, BarsRight
<1>7. cooling' \in [Symbols -> BOOLEAN]
  BY <1>1, <1>4 DEF RestTypes
<1>8. enteredBar' \in [Symbols -> 1 .. MaxBar \cup {None}]
  BY <1>1, <1>4 DEF RestTypes
<1> QED
  BY <1>5, <1>6, <1>7, <1>8

\* What an order was for is counted as spent.
LEMMA SpentGrows ==
  ASSUME EntriesBase, NEW t \in Tasks, task[t].pc = "order",
         spent' = [spent EXCEPT ![task[t].sym] = @ \cup {task[t].bar}]
  PROVE  spent' \in [Symbols -> SUBSET (1 .. MaxBar)]
<1>1. TaskTypes /\ RestTypes /\ QueuesRight /\ BarsRight
  BY TypesSplit DEF EntriesBase
<1>2. PICK s \in Symbols, b \in 1 .. MaxBar : s = task[t].sym /\ b = task[t].bar
  BY <1>1 DEF TaskTypes, States, QueuesRight, BarsRight
<1> QED
  BY <1>1, <1>2 DEF RestTypes

LEMMA AcceptedKeeps ==
  ASSUME EntriesBase, NEW t \in Tasks, Accepted(t)
  PROVE  EntriesBase'
<1>1. TaskTypes /\ RestTypes
  BY TypesSplit DEF EntriesBase
<1>2. /\ task[t].pc = "order" /\ MarkEntered(t) /\ entries' = entries + 1
      /\ task' = [task EXCEPT ![t].pc = "notify"]
      /\ spent' = [spent EXCEPT ![task[t].sym] = @ \cup {task[t].bar}]
      /\ UNCHANGED <<queue, acting, inflight, backoff, newDay, mode, bar, book, snap, store, late,
                     overtaken>>
  BY DEF Accepted, In, account
<1>3. task \in [Tasks -> States] /\ task[t] \in States
  BY <1>1 DEF TaskTypes
<1>4. PICK x \in States : /\ x = [task[t] EXCEPT !.pc = "notify"]
                          /\ x.pc = "notify" /\ x.sym = task[t].sym
  BY <1>3, StateMoves
<1>5. task' = [task EXCEPT ![t] = x]
  BY <1>2, <1>3, <1>4
<1>6. spent' \in [Symbols -> SUBSET (1 .. MaxBar)]
  BY <1>2, SpentGrows
<1>7. /\ cooling' \in [Symbols -> BOOLEAN]
      /\ enteredBar' \in [Symbols -> 1 .. MaxBar \cup {None}]
      /\ seen' \in [Symbols -> 1 .. bar' \cup {None}]
      /\ mode = "bars" => \A s \in Symbols : seen'[s] # None
  BY <1>2, EntryMarked
<1>8. RestTypes'
  BY <1>1, <1>2, <1>6, <1>7 DEF RestTypes
<1>9. Beyond(t) /\ Orders(t)
  BY <1>2 DEF Beyond, Orders
<1> QED
  BY <1>2, <1>4, <1>5, <1>7, <1>8, <1>9, GoOnKeeps

\* finally leaves the acting marks a function to BOOLEAN.
LEMMA ActingEnds ==
  ASSUME RestTypes, NEW t \in Tasks, Finally(t)
  PROVE  acting' \in [Symbols -> BOOLEAN]
  BY DEF RestTypes, Finally

LEMMA NotifiedKeeps ==
  ASSUME EntriesBase, NEW t \in Tasks, Notified(t)
  PROVE  EntriesBase'
<1>1. TaskTypes /\ RestTypes /\ overtaken \subseteq Awake /\ BarsRight
  BY TypesSplit DEF EntriesBase
<1>2. task[t].pc = "notify" /\ Orders(t)
  BY DEF Notified, In, Orders
<1>3. /\ UNCHANGED <<cooling, backoff, enteredBar, entries, newDay, mode, bar, seen, book, snap, store,
                     late, spent>>
      /\ Finally(t)
      /\ task' = [task EXCEPT ![t] = Idle] /\ overtaken' \subseteq Awake \ {t}
      /\ queue' = [queue EXCEPT ![task[t].sym] = Without(queue[task[t].sym], t)]
  BY <1>1 DEF Notified, Leave, bars, account
<1>4. acting' \in [Symbols -> BOOLEAN]
  BY <1>1, <1>3, ActingEnds
<1>5. RestTypes' /\ (mode = "bars" => \A v \in Symbols : seen'[v] # None)
  BY <1>1, <1>3, <1>4 DEF RestTypes, BarsRight
<1> QED
  BY <1>2, <1>3, <1>5, LeaveKeeps

\* The back-off of t's symbol begins.
LEMMA BacksOff ==
  ASSUME EntriesBase, NEW t \in Tasks, task[t].pc = "order", BackOff(t)
  PROVE  /\ backoff' \in [Symbols -> BOOLEAN]
         /\ overtaken' \subseteq Awake \ {t}
         /\ task' = [task EXCEPT ![t] = Idle]
         /\ queue' = [queue EXCEPT ![task[t].sym] = Without(queue[task[t].sym], t)]
<1>1. RestTypes /\ QueuesRight /\ overtaken \subseteq Awake
  BY TypesSplit DEF EntriesBase
<1>2. PICK s \in Symbols : s = task[t].sym
  BY <1>1 DEF QueuesRight
<1>3. Others(s, t) \subseteq Awake \ {t}
  <2> SUFFICES ASSUME NEW u \in Others(s, t) PROVE u \in Awake \ {t}
    OBVIOUS
  <2>1. u \in Tasks \ {t} /\ task[u].sym = s /\ s # None
    BY DEF Others, EntriesAssumption
  <2> QED
    BY <1>1, <2>1 DEF QueuesRight, Awake
<1>4. overtaken' = (overtaken \ {t}) \cup Others(s, t) /\ backoff' = [backoff EXCEPT ![s] = TRUE]
  BY <1>2 DEF BackOff
<1> QED
  BY <1>1, <1>3, <1>4 DEF BackOff, RestTypes

LEMMA RejectedKeeps ==
  ASSUME EntriesBase, NEW t \in Tasks, Rejected(t)
  PROVE  EntriesBase'
<1>1. TaskTypes /\ RestTypes /\ BarsRight
  BY TypesSplit DEF EntriesBase
<1>2. /\ task[t].pc = "order" /\ Orders(t) /\ BackOff(t) /\ Finally(t)
      /\ UNCHANGED <<cooling, enteredBar, entries, newDay, mode, bar, seen, book, snap, store, late,
                     spent>>
  BY DEF Rejected, In, Orders, bars, account
<1>3. /\ backoff' \in [Symbols -> BOOLEAN]
      /\ overtaken' \subseteq Awake \ {t}
      /\ task' = [task EXCEPT ![t] = Idle]
      /\ queue' = [queue EXCEPT ![task[t].sym] = Without(queue[task[t].sym], t)]
  BY <1>2, BacksOff
<1>4. acting' \in [Symbols -> BOOLEAN]
  BY <1>1, <1>2, ActingEnds
<1>5. RestTypes' /\ (mode = "bars" => \A v \in Symbols : seen'[v] # None)
  BY <1>1, <1>2, <1>3, <1>4 DEF RestTypes, BarsRight
<1> QED
  BY <1>2, <1>3, <1>5, LeaveKeeps

\* An order that is given up may still be with the EA.
LEMMA Abandons ==
  ASSUME EntriesBase, NEW t \in Tasks, task[t].pc # "idle", Abandon(t)
  PROVE  late' \subseteq Symbols
<1>1. RestTypes /\ QueuesRight
  BY TypesSplit DEF EntriesBase
<1>2. late \subseteq Symbols /\ task[t].sym \in Symbols
  BY <1>1 DEF RestTypes, QueuesRight
<1> QED
  BY <1>2 DEF Abandon

LEMMA TimedOutKeeps ==
  ASSUME EntriesBase, NEW t \in Tasks, TimedOut(t)
  PROVE  EntriesBase'
<1>1. TaskTypes /\ RestTypes
  BY TypesSplit DEF EntriesBase
<1>2. /\ task[t].pc = "order" /\ Orders(t) /\ BackOff(t) /\ MarkEntered(t) /\ Finally(t)
      /\ Abandon(t)
      /\ spent' = [spent EXCEPT ![task[t].sym] = @ \cup {task[t].bar}]
      /\ UNCHANGED <<entries, newDay, mode, bar, book, snap, store>>
  BY DEF TimedOut, In, Orders
<1>3. /\ backoff' \in [Symbols -> BOOLEAN]
      /\ overtaken' \subseteq Awake \ {t}
      /\ task' = [task EXCEPT ![t] = Idle]
      /\ queue' = [queue EXCEPT ![task[t].sym] = Without(queue[task[t].sym], t)]
  BY <1>2, BacksOff
<1>4. acting' \in [Symbols -> BOOLEAN] /\ late' \subseteq Symbols
  BY <1>1, <1>2, ActingEnds, Abandons
<1>5. /\ cooling' \in [Symbols -> BOOLEAN]
      /\ enteredBar' \in [Symbols -> 1 .. MaxBar \cup {None}]
      /\ seen' \in [Symbols -> 1 .. bar' \cup {None}]
      /\ mode = "bars" => \A s \in Symbols : seen'[s] # None
  BY <1>2, EntryMarked
<1>6. spent' \in [Symbols -> SUBSET (1 .. MaxBar)]
  BY <1>2, SpentGrows
<1>7. RestTypes'
  BY <1>1, <1>2, <1>3, <1>4, <1>5, <1>6 DEF RestTypes
<1> QED
  BY <1>2, <1>3, <1>5, <1>7, LeaveKeeps

LEMMA CancelledKeeps ==
  ASSUME EntriesBase, NEW t \in Tasks, Cancelled(t)
  PROVE  EntriesBase'
<1>1. TaskTypes /\ RestTypes /\ overtaken \subseteq Awake /\ BarsRight
  BY TypesSplit DEF EntriesBase
<1>2. /\ task[t].pc # "idle"
      /\ IF Orders(t) THEN Finally(t) ELSE UNCHANGED <<acting, inflight>>
      /\ Abandon(t) \/ UNCHANGED late
      /\ UNCHANGED <<cooling, backoff, enteredBar, entries, newDay, mode, bar, seen, book, snap, store,
                     spent>>
      /\ task' = [task EXCEPT ![t] = Idle] /\ overtaken' \subseteq Awake \ {t}
      /\ queue' = [queue EXCEPT ![task[t].sym] = Without(queue[task[t].sym], t)]
  BY <1>1 DEF Cancelled, Leave, In, bars, Orders
<1>3. late' \subseteq Symbols
  BY <1>1, <1>2, Abandons DEF RestTypes
<1>4. acting' \in [Symbols -> BOOLEAN]
  BY <1>1, <1>2, ActingEnds DEF RestTypes
<1>5. RestTypes' /\ (mode = "bars" => \A v \in Symbols : seen'[v] # None)
  BY <1>1, <1>2, <1>3, <1>4 DEF RestTypes, BarsRight
<1> QED
  BY <1>2, <1>5, LeaveKeeps

\* The EA and the account, the clock, and the other managers.
LEMMA RepliesKeep ==
  ASSUME EntriesBase, NEW t \in Tasks, Fill(t) \/ Refuse(t)
  PROVE  EntriesBase'
<1>1. TaskTypes /\ RestTypes /\ QueuesRight /\ BarsRight
  BY TypesSplit DEF EntriesBase
<1>2. PICK s \in Symbols : s = task[t].sym /\ task[t].pc = "order" /\ task[t].bar # None
  BY <1>1 DEF Fill, Refuse, In, QueuesRight, BarsRight
<1>3. PICK r \in {"ok", "refused"} : task' = [task EXCEPT ![t].reply = r]
  BY DEF Fill, Refuse
<1>4. UNCHANGED <<queue, acting, inflight, cooling, backoff, enteredBar, entries, newDay, mode, bar,
                  seen, snap, store, late, spent, overtaken>>
  BY DEF Fill, Refuse, manager, bars, account
<1>5. book' \in [Symbols -> 0 .. MaxBook]
  <2>1. CASE Fill(t)
    <3>1. PICK n \in 0 .. MaxBook : n = book[s] /\ n < MaxBook /\ book' = [book EXCEPT ![s] = n + 1]
      BY <1>1, <1>2, <2>1 DEF Fill, RestTypes
    <3>2. n + 1 \in 0 .. MaxBook
      BY <3>1 DEF EntriesAssumption
    <3> QED
      BY <1>1, <3>1, <3>2 DEF RestTypes
  <2>2. CASE Refuse(t)
    BY <1>1, <2>2 DEF Refuse, account, RestTypes
  <2> QED
    BY <2>1, <2>2
<1>6. task \in [Tasks -> States] /\ task[t] \in States
  BY <1>1 DEF TaskTypes
<1>7. PICK x \in States : /\ x = [task[t] EXCEPT !.reply = r]
                          /\ x.pc = "order" /\ x.sym = task[t].sym /\ x.bar = task[t].bar
  <2>1. \E x \in States : /\ x = [task[t] EXCEPT !.reply = r]
                          /\ x.pc = task[t].pc /\ x.sym = task[t].sym /\ x.bar = task[t].bar
    BY <1>3, <1>6, StateAnswered
  <2> QED
    BY <1>2, <2>1
<1>8. task' = [task EXCEPT ![t] = x]
  BY <1>3, <1>6, <1>7
<1>9. RestTypes' /\ (mode = "bars" => \A v \in Symbols : seen'[v] # None)
  BY <1>1, <1>4, <1>5 DEF RestTypes, BarsRight
<1>10. Beyond(t) /\ Orders(t)
  BY <1>2 DEF Beyond, Orders
<1> QED
  BY <1>2, <1>4, <1>7, <1>8, <1>9, <1>10, GoOnKeeps

LEMMA PausesEndKeep ==
  ASSUME EntriesBase, NEW s \in Symbols, CooldownOver(s) \/ BackoffOver(s)
  PROVE  EntriesBase'
<1>1. RestTypes /\ overtaken \subseteq Awake /\ BarsRight
  BY TypesSplit DEF EntriesBase
<1>2. UNCHANGED <<queue, task, acting, inflight, enteredBar, entries, newDay, mode, bar, seen, book,
                  snap, store, late, spent, overtaken>>
  BY DEF CooldownOver, BackoffOver, bars, account
<1>3. cooling' \in [Symbols -> BOOLEAN] /\ backoff' \in [Symbols -> BOOLEAN]
  BY <1>1 DEF CooldownOver, BackoffOver, RestTypes
<1>4. RestTypes' /\ (mode = "bars" => \A v \in Symbols : seen'[v] # None)
  BY <1>1, <1>2, <1>3 DEF RestTypes, BarsRight
<1> QED
  BY <1>1, <1>2, <1>4, WorldKeeps

LEMMA ResetKeeps ==
  ASSUME EntriesBase, NEW s \in Symbols, Reset(s)
  PROVE  EntriesBase'
<1>1. RestTypes /\ QueuesRight /\ overtaken \subseteq Awake /\ BarsRight
  BY TypesSplit DEF EntriesBase
<1>2. /\ enteredBar' = [enteredBar EXCEPT ![s] = None]
      /\ cooling' = [cooling EXCEPT ![s] = TRUE]
      /\ UNCHANGED seen \/ seen' = [seen EXCEPT ![s] = bar]
      /\ UNCHANGED spent \/ spent' = [spent EXCEPT ![s] = {}]
      /\ overtaken' = overtaken \cup Others(s, None)
      /\ UNCHANGED <<queue, task, acting, inflight, backoff, entries, newDay, mode, bar, book, snap,
                     store, late>>
  BY DEF Reset, Restarted, account
<1>3. bar \in 1 .. bar /\ bar # None
  BY <1>1 DEF RestTypes, EntriesAssumption
<1>4. seen' \in [Symbols -> 1 .. bar' \cup {None}]
  BY <1>1, <1>2, <1>3, SeenMoves
<1>5. mode = "bars" => \A v \in Symbols : seen'[v] # None
  BY <1>1, <1>2, <1>3 DEF RestTypes, BarsRight
<1>6. enteredBar' \in [Symbols -> 1 .. MaxBar \cup {None}] /\ cooling' \in [Symbols -> BOOLEAN]
  BY <1>1, <1>2 DEF RestTypes
<1>7. spent' \in [Symbols -> SUBSET (1 .. MaxBar)]
  BY <1>1, <1>2 DEF RestTypes
<1>8. RestTypes'
  BY <1>1, <1>2, <1>4, <1>6, <1>7 DEF RestTypes
<1>9. Others(s, None) \subseteq Awake
  <2> SUFFICES ASSUME NEW u \in Others(s, None) PROVE u \in Awake
    OBVIOUS
  <2>1. u \in Tasks /\ task[u].sym = s /\ s # None
    BY DEF Others, EntriesAssumption
  <2> QED
    BY <1>1, <2>1 DEF QueuesRight, Awake
<1> QED
  BY <1>1, <1>2, <1>5, <1>8, <1>9, WorldKeeps

LEMMA BrokerKeeps ==
  ASSUME EntriesBase,
         (\E s \in Symbols : LateFill(s) \/ Close(s)) \/ SendSnapshot \/ HandleSnapshot
  PROVE  EntriesBase'
<1>1. RestTypes /\ overtaken \subseteq Awake /\ BarsRight
  BY TypesSplit DEF EntriesBase
<1>2. UNCHANGED <<queue, task, acting, inflight, cooling, backoff, enteredBar, entries, newDay, mode,
                  bar, seen, spent, overtaken>>
  BY DEF LateFill, Close, SendSnapshot, HandleSnapshot, manager, bars
<1>3. /\ book' \in [Symbols -> 0 .. MaxBook] /\ snap' \in [Symbols -> 0 .. MaxBook]
      /\ store' \in [Symbols -> 0 .. MaxBook] /\ late' \subseteq Symbols
  <2>1. CASE \E s \in Symbols : LateFill(s) \/ Close(s)
    <3>1. PICK s \in Symbols : LateFill(s) \/ Close(s)
      BY <2>1
    <3>2. PICK n \in 0 .. MaxBook : n = book[s]
      BY <1>1 DEF RestTypes
    <3>3. \/ UNCHANGED book
          \/ n < MaxBook /\ book' = [book EXCEPT ![s] = n + 1]
          \/ n > 0 /\ book' = [book EXCEPT ![s] = n - 1]
      BY <3>1, <3>2 DEF LateFill, Close
    <3>4. (n < MaxBook => n + 1 \in 0 .. MaxBook) /\ (n > 0 => n - 1 \in 0 .. MaxBook)
      BY <3>2 DEF EntriesAssumption
    <3>5. book' \in [Symbols -> 0 .. MaxBook]
      BY <1>1, <3>3, <3>4 DEF RestTypes
    <3>6. UNCHANGED <<snap, store>> /\ late' \subseteq late
      BY <3>1 DEF LateFill, Close
    <3> QED
      BY <1>1, <3>5, <3>6 DEF RestTypes
  <2>2. CASE SendSnapshot \/ HandleSnapshot
    BY <1>1, <2>2 DEF SendSnapshot, HandleSnapshot, RestTypes
  <2> QED
    BY <2>1, <2>2
<1>4. RestTypes' /\ (mode = "bars" => \A v \in Symbols : seen'[v] # None)
  BY <1>1, <1>2, <1>3 DEF RestTypes, BarsRight
<1> QED
  BY <1>1, <1>2, <1>4, WorldKeeps

LEMMA TimeKeeps ==
  ASSUME EntriesBase, Midnight \/ BarCloses \/ UNCHANGED vars
  PROVE  EntriesBase'
<1>1. RestTypes /\ overtaken \subseteq Awake /\ BarsRight
  BY TypesSplit DEF EntriesBase
<1>2. UNCHANGED <<queue, task, acting, inflight, cooling, backoff, enteredBar, entries, mode, seen,
                  book, snap, store, late, spent, overtaken>>
  BY DEF Midnight, BarCloses, vars, manager, bars, account
<1>3. newDay' \in BOOLEAN /\ bar' \in 1 .. MaxBar /\ bar' \in Nat /\ bar \in Nat /\ bar <= bar'
  <2>1. newDay' \in BOOLEAN
    BY <1>1 DEF Midnight, BarCloses, vars, manager, RestTypes
  <2>2. bar' = bar \/ (bar < MaxBar /\ bar' = bar + 1)
    BY DEF Midnight, BarCloses, vars, bars
  <2>3. bar \in 1 .. MaxBar /\ MaxBar \in Nat
    BY <1>1 DEF RestTypes, EntriesAssumption
  <2> QED
    BY <2>1, <2>2, <2>3
<1>4. 1 .. bar \subseteq 1 .. bar'
  BY <1>3
<1>5. seen' \in [Symbols -> 1 .. bar' \cup {None}]
  BY <1>1, <1>2, <1>4 DEF RestTypes
<1>6. RestTypes' /\ (mode = "bars" => \A v \in Symbols : seen'[v] # None)
  BY <1>1, <1>2, <1>3, <1>5 DEF RestTypes, BarsRight
<1> QED
  BY <1>1, <1>2, <1>6, WorldKeeps

LEMMA InitEntries ==
  ASSUME Init
  PROVE  EntriesBase
<1>1. /\ queue = [s \in Symbols |-> <<>>] /\ task = [t \in Tasks |-> Idle]
      /\ acting = [s \in Symbols |-> FALSE] /\ inflight = 0 /\ overtaken = {}
  BY DEF Init
<1>2. /\ Idle \in States /\ Idle.pc = "idle" /\ Idle.sym = None
  BY RestingState
<1>3. QueuesRight
  BY <1>1, <1>2 DEF QueuesRight, Beyond
<1>4. {t \in Tasks : Orders(t)} = {}
  BY <1>1, <1>2 DEF Orders
<1>5. MarksRight
  BY <1>1, <1>2, <1>4, FS_EmptySet DEF MarksRight, Orders
<1>6. BarsRight
  BY <1>1, <1>2 DEF Init, BarsRight, EntriesAssumption
<1>7. bar \in 1 .. MaxBar /\ bar = 1 /\ 1 \in 1 .. 1 /\ 0 \in 0 .. MaxBook
  BY DEF Init, EntriesAssumption
<1>8. seen \in [Symbols -> 1 .. bar \cup {None}]
  BY <1>7 DEF Init
<1>9. /\ book \in [Symbols -> 0 .. MaxBook] /\ snap \in [Symbols -> 0 .. MaxBook]
      /\ store \in [Symbols -> 0 .. MaxBook]
  BY <1>7 DEF Init
<1>10. /\ task \in [Tasks -> States] /\ queue \in [Symbols -> Seq(Tasks)]
  BY <1>1, <1>2
<1>11. inflight \in 0 .. Cardinality(Tasks)
  BY <1>1, EntriesFinite, FS_CardinalityType
<1>12. spent \in [Symbols -> SUBSET (1 .. MaxBar)] /\ enteredBar \in [Symbols -> 1 .. MaxBar \cup {None}]
  BY DEF Init
<1>13. TypeOK
  BY <1>1, <1>7, <1>8, <1>9, <1>10, <1>11, <1>12 DEF Init, TypeOK
<1> QED
  BY <1>3, <1>5, <1>6, <1>13 DEF EntriesBase

LEMMA EntriesStep ==
  ASSUME EntriesBase, [Next]_vars
  PROVE  EntriesBase'
<1>1. CASE \E t \in Tasks, s \in Symbols : Begin(t, s)
  BY <1>1, BeginKeeps
<1>2. CASE \E t \in Tasks : Enter(t) \/ Signal(t) \/ TrendDenies(t) \/ Send(t)
  BY <1>2, EnterKeeps, SignalKeeps, TrendDeniesKeeps, SendKeeps
<1>3. CASE \E t \in Tasks : Accepted(t) \/ Notified(t) \/ Rejected(t) \/ TimedOut(t)
  BY <1>3, AcceptedKeeps, NotifiedKeeps, RejectedKeeps, TimedOutKeeps
<1>4. CASE \E t \in Tasks : Cancelled(t) \/ Fill(t) \/ Refuse(t)
  BY <1>4, CancelledKeeps, RepliesKeep
<1>5. CASE \E s \in Symbols : CooldownOver(s) \/ BackoffOver(s) \/ Reset(s)
  BY <1>5, PausesEndKeep, ResetKeeps
<1>6. CASE (\E s \in Symbols : LateFill(s) \/ Close(s)) \/ SendSnapshot \/ HandleSnapshot
  BY <1>6, BrokerKeeps
<1>7. CASE Midnight \/ BarCloses \/ UNCHANGED vars
  BY <1>7, TimeKeeps
<1> QED
  BY <1>1, <1>2, <1>3, <1>4, <1>5, <1>6, <1>7 DEF Next, Steps

\* A symbol is acting while exactly one task has an order of it: the lock excludes a
\* second one.
LEMMA MarksCount ==
  ASSUME EntriesBase
  PROVE  OrdersAreMarked
<1>1. QueuesRight /\ MarksRight
  BY DEF EntriesBase
<1>2. ASSUME NEW s \in Symbols
      PROVE  Cardinality(Ordering(s)) = IF acting[s] THEN 1 ELSE 0
  <2>1. CASE acting[s]
    <3>1. PICK t \in Tasks : task[t].sym = s /\ Orders(t)
      BY <1>1, <2>1 DEF MarksRight
    <3>2. \A u \in Tasks : task[u].sym = s /\ Orders(u) => u = t
      BY <1>1, <3>1, LockExcludes DEF Orders, Beyond
    <3>3. Ordering(s) = {t}
      BY <3>1, <3>2 DEF Ordering, In, Orders
    <3> QED
      BY <2>1, <3>3, FS_Singleton
  <2>2. CASE ~acting[s]
    <3>1. Ordering(s) = {}
      BY <1>1, <2>2 DEF MarksRight, Ordering, In, Orders
    <3> QED
      BY <2>2, <3>1, FS_EmptySet
  <2> QED
    BY <2>1, <2>2
<1>3. {t \in Tasks : In(t, {"order", "notify"})} = {t \in Tasks : Orders(t)}
  BY DEF In, Orders
<1> QED
  BY <1>1, <1>2, <1>3 DEF OrdersAreMarked, MarksRight

LEMMA EntriesInvariant ==
  Spec => []EntriesBase
<1>1. Init => EntriesBase
  BY InitEntries
<1>2. EntriesBase /\ [Next]_vars => EntriesBase'
  BY EntriesStep
<1> QED
  BY <1>1, <1>2, PTL DEF Spec

\* Whatever ends an order - its answer, its timeout, the cancellation of its caller -
\* the marks that keep other evaluations out tell the truth: a symbol is acting while
\* exactly one task has an order of it, and _inflight counts the orders.
THEOREM MarksHold == Spec => []Consistent
<1>1. EntriesBase => Consistent
  BY MarksCount DEF EntriesBase, Consistent
<1>2. Spec => []EntriesBase
  BY EntriesInvariant
<1> QED
  BY <1>1, <1>2, PTL

\* What the cooldown and the back-off have kept out: an evaluation that is not overtaken
\* is past its first checks only while no back-off runs, past the second only while no
\* cooldown does.
PausesRight ==
  \A t \in Tasks \ overtaken :
    /\ task[t].pc \in {"lock", "signal", "trend"} => ~backoff[task[t].sym]
    /\ task[t].pc \in {"signal", "trend"} => ~cooling[task[t].sym]

\* What a step of task t has to establish for that.
LEMMA PausesFollow ==
  ASSUME EntriesBase, PausesRight, NEW t \in Tasks, NEW x \in States,
         task' = [task EXCEPT ![t] = x],
         \A u \in Tasks \ {t} : u \notin overtaken' =>
           /\ u \notin overtaken
           /\ task[u].pc \in {"lock", "signal", "trend"} =>
                (backoff'[task[u].sym] => backoff[task[u].sym])
           /\ task[u].pc \in {"signal", "trend"} => (cooling'[task[u].sym] => cooling[task[u].sym]),
         t \notin overtaken' =>
           /\ x.pc \in {"lock", "signal", "trend"} => ~backoff'[x.sym]
           /\ x.pc \in {"signal", "trend"} => ~cooling'[x.sym]
  PROVE  PausesRight'
<1>1. task \in [Tasks -> States]
  BY TypesSplit DEF EntriesBase, TaskTypes
<1>2. task'[t] = x /\ \A u \in Tasks \ {t} : task'[u] = task[u]
  BY <1>1
<1> QED
  BY <1>2 DEF PausesRight

\* Task t leaves, or goes on with its order, and neither pause begins.
LEMMA PausesStay ==
  ASSUME EntriesBase, PausesRight, NEW t \in Tasks, NEW x \in States,
         task' = [task EXCEPT ![t] = x], x.pc \in {"idle", "order", "notify"},
         overtaken \subseteq overtaken' \cup {t}, UNCHANGED <<backoff, cooling>>
  PROVE  PausesRight'
  BY PausesFollow

\* The evaluations that are past the lock of t's symbol are t's.
LEMMA NobodyElse ==
  ASSUME EntriesBase, NEW t \in Tasks, task[t].pc # "idle",
         queue[task[t].sym][1] = t, NEW u \in Tasks \ {t}, Beyond(u)
  PROVE  task[u].sym # task[t].sym
  BY DEF EntriesBase, QueuesRight

\* A task past the lock is the first of its queue.
LEMMA BeyondIsFirst ==
  ASSUME EntriesBase, NEW t \in Tasks, Beyond(t)
  PROVE  queue[task[t].sym][1] = t /\ task[t].pc # "idle" /\ task[t].sym \in Symbols
  BY DEF EntriesBase, QueuesRight, Beyond

LEMMA PausesBegin ==
  ASSUME EntriesBase, PausesRight, NEW t \in Tasks, NEW s \in Symbols,
         Begin(t, s)
  PROVE  PausesRight'
<1>1. ~backoff[s] /\ UNCHANGED <<backoff, cooling, overtaken>>
  BY DEF Begin
<1>2. CASE GuardsOk(s)
  <2>1. PICK b \in 1 .. MaxBar \cup {None} :
          task' = [task EXCEPT ![t] = [Idle EXCEPT !.pc = "lock", !.sym = s, !.bar = b]]
    <3>1. \E b \in Crossed(s) :
            task' = [task EXCEPT ![t] = [Idle EXCEPT !.pc = "lock", !.sym = s, !.bar = b]]
      BY <1>2 DEF Begin
    <3>2. bar \in 1 .. MaxBar
      BY TypesSplit DEF EntriesBase, RestTypes
    <3> QED
      BY <3>1, <3>2 DEF Crossed
  <2>2. PICK x : x = [Idle EXCEPT !.pc = "lock", !.sym = s, !.bar = b]
    OBVIOUS
  <2>3. x \in States /\ x.pc = "lock" /\ x.sym = s
    BY <2>1, <2>2, RestingState DEF States
  <2> QED
    BY <1>1, <2>1, <2>2, <2>3, PausesFollow
<1>3. CASE ~GuardsOk(s)
  BY <1>1, <1>3 DEF Begin, PausesRight
<1> QED
  BY <1>2, <1>3

LEMMA PausesEnter ==
  ASSUME EntriesBase, PausesRight, NEW t \in Tasks, Enter(t)
  PROVE  PausesRight'
<1>1. TaskTypes /\ RestTypes /\ QueuesRight
  BY TypesSplit DEF EntriesBase
<1>2. PICK s \in Symbols : s = task[t].sym /\ task[t].pc = "lock" /\ queue[s][1] = t
  BY <1>1 DEF Enter, In, Holds, QueuesRight
<1>3. /\ UNCHANGED backoff
      /\ \/ /\ ~cooling[s] /\ UNCHANGED cooling
            /\ \E pc \in {"signal", "trend"}, b \in 1 .. MaxBar \cup {None} : GoOn(t, pc, b)
         \/ cooling' = [cooling EXCEPT ![s] = TRUE] /\ Leave(t)
         \/ UNCHANGED cooling /\ Leave(t)
  <2>1. task[t].bar \in 1 .. MaxBar \cup {None} /\ bar \in 1 .. MaxBar
    BY <1>1 DEF TaskTypes, RestTypes, States
  <2> QED
    BY <1>2, <2>1 DEF Enter, Fresh, Arms
<1>4. CASE ~cooling[s] /\ UNCHANGED cooling
           /\ \E pc \in {"signal", "trend"}, b \in 1 .. MaxBar \cup {None} : GoOn(t, pc, b)
  <2>1. PICK pc \in {"signal", "trend"}, b \in 1 .. MaxBar \cup {None} : GoOn(t, pc, b)
    BY <1>4
  <2>2. /\ UNCHANGED <<queue, overtaken>>
        /\ \E x \in States : /\ x.pc = pc /\ x.sym = task[t].sym /\ x.bar = b
                             /\ task' = [task EXCEPT ![t] = x]
    BY <1>1, <2>1, GoesTo
  <2>3. PICK x \in States : x.pc = pc /\ x.sym = s /\ task' = [task EXCEPT ![t] = x]
    BY <1>2, <2>2
  <2>4. t \notin overtaken => ~backoff[s]
    BY <1>2 DEF PausesRight
  <2> QED
    BY <1>3, <1>4, <2>2, <2>3, <2>4, PausesFollow
<1>5. CASE Leave(t) /\ (UNCHANGED cooling \/ cooling' = [cooling EXCEPT ![s] = TRUE])
  <2>1. \A u \in Tasks \ {t} : Beyond(u) => task[u].sym # s /\ task[u].sym \in Symbols
    BY <1>2, NobodyElse, BeyondIsFirst
  <2>2. \A u \in Tasks \ {t} : task[u].pc \in {"signal", "trend"} => (cooling'[task[u].sym] => cooling[task[u].sym])
    BY <1>1, <1>5, <2>1 DEF Beyond, RestTypes
  <2>3. task' = [task EXCEPT ![t] = Idle] /\ overtaken' = overtaken \ {t}
    BY <1>5 DEF Leave
  <2> QED
    BY <1>3, <2>2, <2>3, RestingState, PausesFollow
<1> QED
  BY <1>3, <1>4, <1>5

LEMMA PausesSignal ==
  ASSUME EntriesBase, PausesRight, NEW t \in Tasks, Signal(t)
  PROVE  PausesRight'
<1>1. TaskTypes /\ RestTypes /\ QueuesRight /\ BarsRight
  BY TypesSplit DEF EntriesBase
<1>2. PICK s \in Symbols : s = task[t].sym /\ task[t].pc = "signal" /\ mode = "bars"
  BY <1>1 DEF Signal, In, QueuesRight, BarsRight
<1>3. PICK b \in seen[s] .. bar : Leave(t) \/ GoOn(t, "trend", b)
  BY <1>2 DEF Signal
<1>4. UNCHANGED <<cooling, backoff>>
  BY DEF Signal, manager
<1>5. b \in 1 .. MaxBar \cup {None}
  <2>1. seen[s] \in 1 .. bar /\ bar \in 1 .. MaxBar
    BY <1>1, <1>2 DEF RestTypes, BarsRight
  <2> QED
    BY <2>1 DEF EntriesAssumption
<1>6. CASE Leave(t)
  BY <1>4, <1>6, RestingState, PausesStay DEF Leave
<1>7. CASE GoOn(t, "trend", b)
  <2>1. /\ UNCHANGED overtaken
        /\ \E x \in States : /\ x.pc = "trend" /\ x.sym = task[t].sym /\ x.bar = b
                             /\ task' = [task EXCEPT ![t] = x]
    BY <1>1, <1>5, <1>7, GoesTo
  <2>2. t \notin overtaken => ~backoff[s] /\ ~cooling[s]
    BY <1>2 DEF PausesRight
  <2> QED
    BY <1>2, <1>4, <2>1, <2>2, PausesFollow
<1> QED
  BY <1>3, <1>6, <1>7

\* The order is sent, done, given up or cancelled.
LEMMA PausesOrder ==
  ASSUME EntriesBase, PausesRight, NEW t \in Tasks,
         \/ TrendDenies(t) \/ Send(t) \/ Notified(t) \/ Cancelled(t)
         \/ Fill(t) \/ Refuse(t)
  PROVE  PausesRight'
<1>1. task \in [Tasks -> States] /\ task[t] \in States
  BY TypesSplit DEF EntriesBase, TaskTypes
<1>2. UNCHANGED <<cooling, backoff>> /\ overtaken \subseteq overtaken' \cup {t}
  BY DEF TrendDenies, Send, Notified, Cancelled, Fill, Refuse, manager, Leave
<1>3. \/ task' = [task EXCEPT ![t] = Idle]
      \/ task' = [task EXCEPT ![t].pc = "order"]
      \/ task[t].pc = "order" /\ \E r \in {"ok", "refused"} : task' = [task EXCEPT ![t].reply = r]
  BY DEF TrendDenies, Send, Notified, Cancelled, Fill, Refuse, Leave, In
<1>4. \E x \in States : task' = [task EXCEPT ![t] = x] /\ x.pc \in {"idle", "order"}
  <2>1. CASE task' = [task EXCEPT ![t] = Idle]
    BY <2>1, RestingState
  <2>2. CASE task' = [task EXCEPT ![t].pc = "order"]
    <3>1. PICK x \in States : x = [task[t] EXCEPT !.pc = "order"] /\ x.pc = "order"
      BY <1>1, StateMoves
    <3> QED
      BY <1>1, <2>2, <3>1
  <2>3. CASE task[t].pc = "order" /\ \E r \in {"ok", "refused"} : task' = [task EXCEPT ![t].reply = r]
    <3>1. PICK r \in {"ok", "refused"} : task' = [task EXCEPT ![t].reply = r]
      BY <2>3
    <3>2. PICK x \in States : x = [task[t] EXCEPT !.reply = r] /\ x.pc = "order"
      <4>1. \E x \in States : /\ x = [task[t] EXCEPT !.reply = r]
                              /\ x.pc = task[t].pc /\ x.sym = task[t].sym /\ x.bar = task[t].bar
        BY <1>1, <3>1, StateAnswered
      <4> QED
        BY <2>3, <4>1
    <3> QED
      BY <1>1, <3>1, <3>2
  <2> QED
    BY <1>3, <2>1, <2>2, <2>3
<1> QED
  BY <1>2, <1>4, PausesStay

\* The cooldown begins with an entry, the back-off with one that failed.
LEMMA PausesAccepted ==
  ASSUME EntriesBase, PausesRight, NEW t \in Tasks, Accepted(t)
  PROVE  PausesRight'
<1>1. TaskTypes /\ RestTypes
  BY TypesSplit DEF EntriesBase
<1>2. Beyond(t) /\ task[t].pc = "order"
  BY DEF Accepted, In, Beyond
<1>3. PICK s \in Symbols : s = task[t].sym
  BY <1>2, BeyondIsFirst
<1>4. /\ cooling' = [cooling EXCEPT ![s] = TRUE] /\ UNCHANGED <<backoff, overtaken>>
      /\ task' = [task EXCEPT ![t].pc = "notify"]
  BY <1>3 DEF Accepted, MarkEntered, Restarted
<1>5. \A u \in Tasks \ {t} : Beyond(u) => task[u].sym # s /\ task[u].sym \in Symbols
  BY <1>2, <1>3, NobodyElse, BeyondIsFirst
<1>6. \A u \in Tasks \ {t} : task[u].pc \in {"signal", "trend"} => (cooling'[task[u].sym] => cooling[task[u].sym])
  BY <1>1, <1>4, <1>5 DEF Beyond, RestTypes
<1>7. task \in [Tasks -> States] /\ task[t] \in States
  BY <1>1 DEF TaskTypes
<1>8. PICK x \in States : x = [task[t] EXCEPT !.pc = "notify"] /\ x.pc = "notify"
  BY <1>7, StateMoves
<1>9. task' = [task EXCEPT ![t] = x]
  BY <1>4, <1>7, <1>8
<1> QED
  BY <1>4, <1>6, <1>8, <1>9, PausesFollow

LEMMA PausesBackOff ==
  ASSUME EntriesBase, PausesRight, NEW t \in Tasks,
         Rejected(t) \/ TimedOut(t)
  PROVE  PausesRight'
<1>1. TaskTypes /\ RestTypes /\ QueuesRight
  BY TypesSplit DEF EntriesBase
<1>2. PICK s \in Symbols : s = task[t].sym
  BY <1>1 DEF Rejected, TimedOut, In, QueuesRight
<1>3. /\ backoff' = [backoff EXCEPT ![s] = TRUE]
      /\ UNCHANGED cooling \/ cooling' = [cooling EXCEPT ![s] = TRUE]
      /\ task' = [task EXCEPT ![t] = Idle]
      /\ overtaken' = (overtaken \ {t}) \cup Others(s, t)
  BY <1>2 DEF Rejected, TimedOut, BackOff, MarkEntered, Restarted
<1>4. ASSUME NEW u \in Tasks \ {t}, u \notin overtaken', task[u].pc # "idle"
      PROVE  /\ backoff'[task[u].sym] = backoff[task[u].sym]
             /\ cooling'[task[u].sym] = cooling[task[u].sym]
  <2>1. task[u].sym # s /\ task[u].sym \in Symbols
    BY <1>1, <1>3, <1>4 DEF Others, QueuesRight
  <2> QED
    BY <1>1, <1>3, <2>1 DEF RestTypes
<1>5. \A u \in Tasks \ {t} : u \notin overtaken' => u \notin overtaken
  BY <1>3
<1> QED
  BY <1>3, <1>4, <1>5, RestingState, PausesFollow

LEMMA PausesReset ==
  ASSUME EntriesBase, PausesRight, NEW s \in Symbols, Reset(s)
  PROVE  PausesRight'
<1>1. RestTypes /\ QueuesRight
  BY TypesSplit DEF EntriesBase
<1>2. /\ cooling' = [cooling EXCEPT ![s] = TRUE] /\ UNCHANGED <<task, backoff>>
      /\ overtaken' = overtaken \cup Others(s, None)
  BY DEF Reset, Restarted
<1>3. ASSUME NEW u \in Tasks \ overtaken', task[u].pc # "idle"
      PROVE  u \notin overtaken /\ cooling'[task[u].sym] = cooling[task[u].sym]
  <2>1. task[u].sym # s /\ task[u].sym \in Symbols
    BY <1>1, <1>2, <1>3 DEF Others, EntriesAssumption, QueuesRight
  <2> QED
    BY <1>1, <1>2, <2>1 DEF RestTypes
<1> QED
  BY <1>2, <1>3 DEF PausesRight

\* Pauses end, and what else happens does not begin one.
LEMMA PausesWorld ==
  ASSUME EntriesBase, PausesRight,
         \/ \E s \in Symbols : CooldownOver(s) \/ BackoffOver(s) \/ LateFill(s) \/ Close(s)
         \/ Midnight \/ BarCloses \/ SendSnapshot \/ HandleSnapshot \/ UNCHANGED vars
  PROVE  PausesRight'
<1>1. RestTypes /\ QueuesRight
  BY TypesSplit DEF EntriesBase
<1>2. UNCHANGED <<task, overtaken>>
  BY DEF CooldownOver, BackoffOver, LateFill, Close, Midnight, BarCloses, SendSnapshot,
         HandleSnapshot, vars
<1>3. /\ UNCHANGED cooling \/ \E s \in Symbols : cooling' = [cooling EXCEPT ![s] = FALSE]
      /\ UNCHANGED backoff \/ \E s \in Symbols : backoff' = [backoff EXCEPT ![s] = FALSE]
  BY DEF CooldownOver, BackoffOver, LateFill, Close, Midnight, BarCloses, SendSnapshot,
         HandleSnapshot, vars, manager
<1>4. \A s \in Symbols : (cooling'[s] => cooling[s]) /\ (backoff'[s] => backoff[s])
  BY <1>1, <1>3 DEF RestTypes
<1> QED
  BY <1>1, <1>2, <1>4 DEF PausesRight, QueuesRight

LEMMA PausesStep ==
  ASSUME EntriesBase, PausesRight, [Next]_vars
  PROVE  PausesRight'
<1>1. CASE \E t \in Tasks, s \in Symbols : Begin(t, s)
  BY <1>1, PausesBegin
<1>2. CASE \E t \in Tasks : Enter(t) \/ Signal(t) \/ Accepted(t)
  BY <1>2, PausesEnter, PausesSignal, PausesAccepted
<1>3. CASE \E t \in Tasks : \/ TrendDenies(t) \/ Send(t) \/ Notified(t) \/ Cancelled(t)
                            \/ Fill(t) \/ Refuse(t)
  BY <1>3, PausesOrder
<1>4. CASE \E t \in Tasks : Rejected(t) \/ TimedOut(t)
  BY <1>4, PausesBackOff
<1>5. CASE \E s \in Symbols : Reset(s)
  BY <1>5, PausesReset
<1>6. CASE \/ \E s \in Symbols : CooldownOver(s) \/ BackoffOver(s) \/ LateFill(s) \/ Close(s)
           \/ Midnight \/ BarCloses \/ SendSnapshot \/ HandleSnapshot \/ UNCHANGED vars
  BY <1>6, PausesWorld
<1> QED
  BY <1>1, <1>2, <1>3, <1>4, <1>5, <1>6 DEF Next, Steps

\* The checks are made long before the order goes out, with awaits in between; still, an
\* order goes out in the cooldown or the back-off only from an evaluation that was under
\* way when the back-off or a reset began.
THEOREM PausesHold == Spec => PausesHoldUnlessOvertaken
<1> DEFINE Inv == EntriesBase /\ PausesRight
           Kept == \A t \in Tasks :
                     Sends(t) /\ (cooling[task[t].sym] \/ backoff[task[t].sym]) => t \in overtaken
<1>1. Init => Inv
  <2> SUFFICES ASSUME Init PROVE Inv
    OBVIOUS
  <2>1. \A t \in Tasks : task[t].pc = "idle"
    BY RestingState DEF Init
  <2> QED
    BY <2>1, InitEntries DEF PausesRight
<1>2. Inv /\ [Next]_vars => Inv'
  BY EntriesStep, PausesStep
<1>3. Inv => Kept
  BY DEF PausesRight, Sends, In
<1>4. Spec => [][Kept]_vars
  <2>1. Inv /\ [Next]_vars => [Kept]_vars
    BY <1>3
  <2> HIDE DEF Inv, Kept
  <2> QED
    BY <1>1, <1>2, <2>1, PTL DEF Spec
<1> QED
  BY <1>4 DEF PausesHoldUnlessOvertaken

\* The symbols with an evaluation that has passed the daily limit and is not counted yet.
Busy == {s \in Symbols : \E t \in Tasks : task[t].sym = s /\ task[t].pc \in {"signal", "trend", "order"}}

\* Together they stay within the limit, but for one each.
DailyRight == entries + Cardinality(Busy) <= MaxPerDay - 1 + Cardinality(Symbols)

LEMMA BusyCounts ==
  ASSUME NEW S \in SUBSET Symbols
  PROVE  /\ IsFiniteSet(S) /\ Cardinality(S) \in Nat
         /\ \A T \in SUBSET S : Cardinality(T) \in Nat /\ Cardinality(T) <= Cardinality(S)
<1>1. IsFiniteSet(S)
  BY EntriesFinite, FS_Subset
<1> QED
  BY <1>1, FS_Subset, FS_CardinalityType

\* A step that neither counts an entry nor lets an evaluation pass the limit.
LEMMA DailyStays ==
  ASSUME EntriesBase, DailyRight,
         entries' \in Nat, entries' <= entries, Busy' \subseteq Busy
  PROVE  DailyRight'
<1>1. Busy \in SUBSET Symbols /\ Symbols \in SUBSET Symbols
  BY DEF Busy
<1>2. PICK a \in Nat, b \in Nat, c \in Nat :
        a = Cardinality(Busy) /\ b = Cardinality(Busy') /\ c = Cardinality(Symbols) /\ b <= a
  BY <1>1, BusyCounts
<1>3. entries \in Nat /\ MaxPerDay \in Nat
  BY TypesSplit DEF EntriesBase, RestTypes, EntriesAssumption
<1>4. entries + a <= MaxPerDay - 1 + c
  BY <1>2 DEF DailyRight
<1>5. entries' + b <= MaxPerDay - 1 + c
  BY <1>2, <1>3, <1>4
<1> QED
  BY <1>2, <1>5 DEF DailyRight

\* Task t gets the local state x, not past the limit unless it was.
LEMMA BusyShrinks ==
  ASSUME EntriesBase, NEW t \in Tasks, NEW x \in States,
         task' = [task EXCEPT ![t] = x],
         \/ x.pc \in {"idle", "lock", "notify"}
         \/ x.sym = task[t].sym /\ task[t].pc \in {"signal", "trend", "order"}
  PROVE  Busy' \subseteq Busy
<1>1. task \in [Tasks -> States]
  BY TypesSplit DEF EntriesBase, TaskTypes
<1>2. task'[t] = x /\ \A u \in Tasks \ {t} : task'[u] = task[u]
  BY <1>1
<1> QED
  BY <1>2 DEF Busy

LEMMA DailyEnter ==
  ASSUME EntriesBase, DailyRight, NEW t \in Tasks, Enter(t)
  PROVE  DailyRight'
<1>1. entries \in Nat /\ MaxPerDay \in Nat
  BY TypesSplit DEF EntriesBase, RestTypes, EntriesAssumption
<1>2. PICK pass \in BOOLEAN : pass <=> Fresh(task[t].sym) /\ GuardsOk(task[t].sym)
  OBVIOUS
<1>3. RollDay(Fresh(task[t].sym) /\ RoomFor(task[t].sym)) /\ (pass \/ Leave(t))
  BY <1>2 DEF Enter
<1>4. entries' \in Nat /\ entries' <= entries
  BY <1>1, <1>3, DayRolls
<1>5. CASE pass
  <2>1. entries' < MaxPerDay
    BY <1>1, <1>2, <1>3, <1>5, DayRolls DEF GuardsOk
  <2>2. Busy' \in SUBSET Symbols /\ Symbols \in SUBSET Symbols
    BY DEF Busy
  <2>3. PICK a \in Nat, c \in Nat : a = Cardinality(Busy') /\ c = Cardinality(Symbols) /\ a <= c
    BY <2>2, BusyCounts
  <2>4. entries' + a <= MaxPerDay - 1 + c
    BY <1>1, <1>4, <2>1, <2>3
  <2> QED
    BY <2>3, <2>4 DEF DailyRight
<1>6. CASE Leave(t)
  <2>1. Busy' \subseteq Busy
    BY <1>6, RestingState, BusyShrinks DEF Leave
  <2> QED
    BY <1>4, <2>1, DailyStays
<1> QED
  BY <1>3, <1>5, <1>6

LEMMA DailyBegin ==
  ASSUME EntriesBase, DailyRight, NEW t \in Tasks, NEW s \in Symbols,
         Begin(t, s)
  PROVE  DailyRight'
<1>1. entries \in Nat /\ bar \in 1 .. MaxBar
  BY TypesSplit DEF EntriesBase, RestTypes
<1>2. entries' \in Nat /\ entries' <= entries
  BY <1>1, DayRolls DEF Begin
<1>3. Busy' \subseteq Busy
  <2>1. CASE UNCHANGED task
    BY <2>1 DEF Busy
  <2>2. CASE task' # task
    <3>1. \E b \in Crossed(s) :
            task' = [task EXCEPT ![t] = [Idle EXCEPT !.pc = "lock", !.sym = s, !.bar = b]]
      BY <2>2 DEF Begin
    <3>2. PICK b \in 1 .. MaxBar \cup {None} :
            task' = [task EXCEPT ![t] = [Idle EXCEPT !.pc = "lock", !.sym = s, !.bar = b]]
      BY <1>1, <3>1 DEF Crossed
    <3>3. PICK x : x = [Idle EXCEPT !.pc = "lock", !.sym = s, !.bar = b]
      OBVIOUS
    <3>4. x \in States /\ x.pc = "lock"
      BY <3>2, <3>3, RestingState DEF States
    <3> QED
      BY <3>2, <3>3, <3>4, BusyShrinks
  <2> QED
    BY <2>1, <2>2
<1> QED
  BY <1>2, <1>3, DailyStays

LEMMA DailySignal ==
  ASSUME EntriesBase, DailyRight, NEW t \in Tasks, Signal(t)
  PROVE  DailyRight'
<1>1. TaskTypes /\ RestTypes /\ QueuesRight /\ BarsRight
  BY TypesSplit DEF EntriesBase
<1>2. PICK s \in Symbols : s = task[t].sym /\ task[t].pc = "signal" /\ mode = "bars"
  BY <1>1 DEF Signal, In, QueuesRight, BarsRight
<1>3. PICK b \in seen[s] .. bar : Leave(t) \/ GoOn(t, "trend", b)
  BY <1>2 DEF Signal
<1>4. b \in 1 .. MaxBar \cup {None}
  <2>1. seen[s] \in 1 .. bar /\ bar \in 1 .. MaxBar
    BY <1>1, <1>2 DEF RestTypes, BarsRight
  <2> QED
    BY <2>1 DEF EntriesAssumption
<1>5. Busy' \subseteq Busy
  <2>1. CASE Leave(t)
    BY <2>1, RestingState, BusyShrinks DEF Leave
  <2>2. CASE GoOn(t, "trend", b)
    <3>1. \E x \in States : /\ x.pc = "trend" /\ x.sym = task[t].sym /\ x.bar = b
                            /\ task' = [task EXCEPT ![t] = x]
      BY <1>1, <1>4, <2>2, GoesTo
    <3> QED
      BY <1>2, <3>1, BusyShrinks
  <2> QED
    BY <1>3, <2>1, <2>2
<1>6. entries' \in Nat /\ entries' <= entries
  BY <1>1 DEF Signal, manager, RestTypes
<1> QED
  BY <1>5, <1>6, DailyStays

LEMMA DailyOrder ==
  ASSUME EntriesBase, DailyRight, NEW t \in Tasks,
         \/ TrendDenies(t) \/ Send(t) \/ Notified(t) \/ Rejected(t) \/ TimedOut(t)
         \/ Cancelled(t) \/ Fill(t) \/ Refuse(t)
  PROVE  DailyRight'
<1>1. task \in [Tasks -> States] /\ task[t] \in States /\ entries \in Nat
  BY TypesSplit DEF EntriesBase, TaskTypes, RestTypes
<1>2. entries' \in Nat /\ entries' <= entries
  <2>1. CASE Send(t)
    BY <1>1, <2>1, DayRolls DEF Send
  <2>2. CASE ~Send(t)
    <3>1. UNCHANGED entries
      BY <2>2 DEF TrendDenies, Notified, Rejected, TimedOut, Cancelled, Fill, Refuse,
                  manager
    <3> QED
      BY <1>1, <3>1
  <2> QED
    BY <2>1, <2>2
<1>3. \/ task' = [task EXCEPT ![t] = Idle]
      \/ task[t].pc = "trend" /\ task' = [task EXCEPT ![t].pc = "order"]
      \/ task[t].pc = "order" /\ \E r \in {"ok", "refused"} : task' = [task EXCEPT ![t].reply = r]
  BY DEF TrendDenies, Send, Notified, Rejected, TimedOut, BackOff, Cancelled, Fill,
         Refuse, Leave, In
<1>4. Busy' \subseteq Busy
  <2>1. CASE task' = [task EXCEPT ![t] = Idle]
    BY <2>1, RestingState, BusyShrinks
  <2>2. CASE task[t].pc = "trend" /\ task' = [task EXCEPT ![t].pc = "order"]
    <3>1. PICK x \in States : x = [task[t] EXCEPT !.pc = "order"] /\ x.sym = task[t].sym
      BY <1>1, StateMoves
    <3>2. task' = [task EXCEPT ![t] = x]
      BY <1>1, <2>2, <3>1
    <3> QED
      BY <2>2, <3>1, <3>2, BusyShrinks
  <2>3. CASE task[t].pc = "order" /\ \E r \in {"ok", "refused"} : task' = [task EXCEPT ![t].reply = r]
    <3>1. PICK r \in {"ok", "refused"} : task' = [task EXCEPT ![t].reply = r]
      BY <2>3
    <3>2. \E x \in States : /\ x = [task[t] EXCEPT !.reply = r]
                            /\ x.pc = task[t].pc /\ x.sym = task[t].sym /\ x.bar = task[t].bar
      BY <1>1, <3>1, StateAnswered
    <3>3. PICK x \in States : x = [task[t] EXCEPT !.reply = r] /\ x.sym = task[t].sym
      BY <3>2
    <3>4. task' = [task EXCEPT ![t] = x]
      BY <1>1, <3>1, <3>3
    <3> QED
      BY <2>3, <3>3, <3>4, BusyShrinks
  <2> QED
    BY <1>3, <2>1, <2>2, <2>3
<1> QED
  BY <1>2, <1>4, DailyStays

\* An entry is counted as its symbol stops being busy: nobody else of the symbol is past
\* the lock.
LEMMA DailyAccepted ==
  ASSUME EntriesBase, DailyRight, NEW t \in Tasks, Accepted(t)
  PROVE  DailyRight'
<1>1. task \in [Tasks -> States] /\ task[t] \in States /\ entries \in Nat /\ MaxPerDay \in Nat
  BY TypesSplit DEF EntriesBase, TaskTypes, RestTypes, EntriesAssumption
<1>2. Beyond(t) /\ task[t].pc = "order" /\ entries' = entries + 1
      /\ task' = [task EXCEPT ![t].pc = "notify"]
  BY DEF Accepted, In, Beyond
<1>3. PICK s \in Symbols : s = task[t].sym
  BY <1>2, BeyondIsFirst
<1>4. \A u \in Tasks \ {t} : Beyond(u) => task[u].sym # s
  BY <1>2, <1>3, NobodyElse, BeyondIsFirst
<1>5. task'[t].pc = "notify" /\ \A u \in Tasks \ {t} : task'[u] = task[u]
  BY <1>1, <1>2 DEF States
<1>6. Busy' \subseteq Busy \ {s}
  BY <1>4, <1>5 DEF Busy, Beyond
<1>7. s \in Busy /\ Busy \in SUBSET Symbols /\ Symbols \in SUBSET Symbols
  BY <1>2, <1>3 DEF Busy
<1>8. PICK a \in Nat, c \in Nat : a = Cardinality(Busy) /\ c = Cardinality(Symbols)
  BY <1>7, BusyCounts
<1>9. Cardinality(Busy \ {s}) = a - 1 /\ Busy \ {s} \in SUBSET Symbols
  BY <1>7, <1>8, BusyCounts, FS_RemoveElement
<1>10. PICK b \in Nat : b = Cardinality(Busy') /\ b <= a - 1
  BY <1>6, <1>9, BusyCounts
<1>11. entries + a <= MaxPerDay - 1 + c
  BY <1>8 DEF DailyRight
<1>12. entries' + b <= MaxPerDay - 1 + c
  BY <1>1, <1>2, <1>8, <1>10, <1>11
<1> QED
  BY <1>8, <1>10, <1>12 DEF DailyRight

LEMMA DailyWorld ==
  ASSUME EntriesBase, DailyRight, UNCHANGED <<task, entries>>
  PROVE  DailyRight'
<1>1. entries' \in Nat /\ entries' <= entries
  BY TypesSplit DEF EntriesBase, RestTypes
<1>2. Busy' \subseteq Busy
  BY DEF Busy
<1> QED
  BY <1>1, <1>2, DailyStays

LEMMA DailyStep ==
  ASSUME EntriesBase, DailyRight, [Next]_vars
  PROVE  DailyRight'
<1>1. CASE \E t \in Tasks, s \in Symbols : Begin(t, s)
  BY <1>1, DailyBegin
<1>2. CASE \E t \in Tasks : Enter(t) \/ Signal(t) \/ Accepted(t)
  BY <1>2, DailyEnter, DailySignal, DailyAccepted
<1>3. CASE \E t \in Tasks : \/ TrendDenies(t) \/ Send(t) \/ Notified(t) \/ Rejected(t)
                            \/ TimedOut(t) \/ Cancelled(t) \/ Fill(t) \/ Refuse(t)
  BY <1>3, DailyOrder
<1>4. CASE \/ \E s \in Symbols : \/ CooldownOver(s) \/ BackoffOver(s) \/ Reset(s)
                                 \/ LateFill(s) \/ Close(s)
           \/ Midnight \/ BarCloses \/ SendSnapshot \/ HandleSnapshot \/ UNCHANGED vars
  <2>1. UNCHANGED <<task, entries>>
    BY <1>4 DEF CooldownOver, BackoffOver, Reset, LateFill, Close, Midnight, BarCloses,
                SendSnapshot, HandleSnapshot, vars, manager
  <2> QED
    BY <2>1, DailyWorld
<1> QED
  BY <1>1, <1>2, <1>3, <1>4 DEF Next, Steps

\* The daily limit is checked long before the entry is counted; the lock of the symbol
\* keeps the excess to one entry for each symbol but one.
THEOREM DailyLimitHolds == Spec => []DailyOvershootIsBounded
<1> DEFINE Inv == EntriesBase /\ DailyRight
<1>1. Init => Inv
  <2> SUFFICES ASSUME Init PROVE Inv
    OBVIOUS
  <2>1. EntriesBase
    BY InitEntries
  <2>2. Busy = {} /\ entries = 0
    BY RestingState DEF Init, Busy
  <2>3. Symbols \in SUBSET Symbols
    OBVIOUS
  <2>4. Cardinality(Symbols) \in Nat /\ Cardinality(Busy) = 0
    BY <2>2, <2>3, BusyCounts, FS_EmptySet
  <2>5. 0 + 0 <= MaxPerDay - 1 + Cardinality(Symbols)
    BY <2>4 DEF EntriesAssumption
  <2> QED
    BY <2>1, <2>2, <2>4, <2>5 DEF DailyRight
<1>2. Inv /\ [Next]_vars => Inv'
  BY EntriesStep, DailyStep
<1>3. Inv => DailyOvershootIsBounded
  <2> SUFFICES ASSUME Inv PROVE DailyOvershootIsBounded
    OBVIOUS
  <2>1. Busy \in SUBSET Symbols /\ Symbols \in SUBSET Symbols
    BY DEF Busy
  <2>2. PICK a \in Nat, c \in Nat : a = Cardinality(Busy) /\ c = Cardinality(Symbols)
    BY <2>1, BusyCounts
  <2>3. entries \in Nat /\ MaxPerDay \in Nat
    BY TypesSplit DEF EntriesBase, RestTypes, EntriesAssumption
  <2>4. entries + a <= MaxPerDay - 1 + c
    BY <2>2 DEF DailyRight
  <2>5. entries <= MaxPerDay + c - 1
    BY <2>2, <2>3, <2>4
  <2> QED
    BY <2>2, <2>5 DEF DailyOvershootIsBounded
<1> HIDE DEF Inv
<1> QED
  BY <1>1, <1>2, <1>3, PTL DEF Spec

\* A task enters on its bar; a task keeps the crossing it found.
Entering(t) == task[t].pc \in {"trend", "order"}
Keeping(t) == task[t].pc \in {"lock", "trend", "order"} /\ task[t].bar # None

\* What was entered on in a symbol lies behind what was looked at there, and behind every
\* bar, date or interval that is about to be entered on; a crossing is found once.
SignalsOf(s) ==
  /\ \A x \in spent[s] : seen[s] # None /\ x <= seen[s]
  /\ mode = "bars" =>
       /\ enteredBar[s] # None => enteredBar[s] <= seen[s]
       /\ \A x \in spent[s] : enteredBar[s] # None /\ x <= enteredBar[s]
  /\ \A t \in Tasks : task[t].sym = s /\ Entering(t) =>
       /\ task[t].bar <= bar
       /\ mode # "interval" => seen[s] # None /\ task[t].bar <= seen[s]
       /\ mode # "price" => \A x \in spent[s] : x < task[t].bar
  /\ mode = "price" => \A t \in Tasks : task[t].sym = s /\ Keeping(t) =>
       /\ seen[s] # None /\ task[t].bar <= seen[s]
       /\ task[t].bar \notin spent[s]
       /\ \A u \in Tasks \ {t} : task[u].sym = s /\ Keeping(u) => task[u].bar # task[t].bar

SignalsRight == \A s \in Symbols : SignalsOf(s)

\* The values of one symbol.
LEMMA SymbolTypes ==
  ASSUME EntriesBase, NEW s \in Symbols
  PROVE  /\ bar \in Nat /\ bar \in 1 .. bar /\ bar \in 1 .. MaxBar /\ None \notin Nat
         /\ seen[s] \in 1 .. bar \cup {None} /\ spent[s] \subseteq 1 .. MaxBar
         /\ enteredBar[s] \in 1 .. MaxBar \cup {None}
<1>1. RestTypes
  BY TypesSplit DEF EntriesBase
<1> QED
  BY <1>1 DEF RestTypes, EntriesAssumption

\* Nothing is looked at, entered on or found in symbol s.
LEMMA SignalsStay ==
  ASSUME EntriesBase, NEW s \in Symbols, SignalsOf(s), UNCHANGED mode,
         bar' \in Nat, bar <= bar', seen'[s] = seen[s], spent'[s] = spent[s],
         enteredBar'[s] = enteredBar[s],
         \A u \in Tasks : task'[u].sym = s /\ Entering(u)' =>
           Entering(u) /\ task[u].sym = s /\ task[u].bar = task'[u].bar,
         mode = "price" => \A u \in Tasks : task'[u].sym = s /\ Keeping(u)' =>
           Keeping(u) /\ task[u].sym = s /\ task[u].bar = task'[u].bar
  PROVE  SignalsOf(s)'
<1>1. \A u \in Tasks : Entering(u) => task[u].bar \in Nat
  BY TypesSplit DEF EntriesBase, BarsRight, TaskTypes, States, Entering
<1>2. bar \in Nat
  BY SymbolTypes
<1>3. \A t \in Tasks : task'[t].sym = s /\ Entering(t)' => task'[t].bar <= bar'
  BY <1>1, <1>2 DEF SignalsOf
<1>4. \A t \in Tasks : task'[t].sym = s /\ Entering(t)' =>
        /\ mode' # "interval" => seen'[s] # None /\ task'[t].bar <= seen'[s]
        /\ mode' # "price" => \A x \in spent'[s] : x < task'[t].bar
  BY DEF SignalsOf
<1>5. mode' = "price" => \A t \in Tasks : task'[t].sym = s /\ Keeping(t)' =>
        /\ seen'[s] # None /\ task'[t].bar <= seen'[s]
        /\ task'[t].bar \notin spent'[s]
        /\ \A u \in Tasks \ {t} : task'[u].sym = s /\ Keeping(u)' => task'[u].bar # task'[t].bar
  BY DEF SignalsOf
<1> QED
  BY <1>3, <1>4, <1>5 DEF SignalsOf

\* Task t gets the local state x, without a new bar to enter on.
LEMMA SignalsLeft ==
  ASSUME EntriesBase, SignalsRight, NEW t \in Tasks, NEW x \in States,
         task' = [task EXCEPT ![t] = x], UNCHANGED <<mode, bar, seen, spent, enteredBar>>,
         \/ x.pc \in {"idle", "signal"}
         \/ x.sym = task[t].sym /\ x.bar = task[t].bar /\ Entering(t)
  PROVE  SignalsRight'
<1>1. task \in [Tasks -> States] /\ bar \in Nat
  BY TypesSplit DEF EntriesBase, TaskTypes, RestTypes
<1>2. task'[t] = x /\ \A u \in Tasks \ {t} : task'[u] = task[u]
  BY <1>1
<1>3. \A u \in Tasks : \A s \in Symbols :
        /\ task'[u].sym = s /\ Entering(u)' => Entering(u) /\ task[u].sym = s /\ task[u].bar = task'[u].bar
        /\ task'[u].sym = s /\ Keeping(u)' => Keeping(u) /\ task[u].sym = s /\ task[u].bar = task'[u].bar
  BY <1>2 DEF Entering, Keeping
<1> QED
  BY <1>1, <1>3, SignalsStay DEF SignalsRight

\* The other symbols, when only task t moves, from s and for s.
LEMMA SignalsElsewhere ==
  ASSUME EntriesBase, SignalsRight, NEW t \in Tasks, NEW s \in Symbols,
         NEW x \in States, task' = [task EXCEPT ![t] = x], x.sym \in {s, None},
         UNCHANGED <<mode, bar>>,
         \A v \in Symbols \ {s} : /\ seen'[v] = seen[v] /\ spent'[v] = spent[v]
                                  /\ enteredBar'[v] = enteredBar[v],
         SignalsOf(s)'
  PROVE  SignalsRight'
<1>1. task \in [Tasks -> States] /\ bar \in Nat
  BY TypesSplit DEF EntriesBase, TaskTypes, RestTypes
<1>2. task'[t] = x /\ \A u \in Tasks \ {t} : task'[u] = task[u]
  BY <1>1
<1>3. \A u \in Tasks : \A v \in Symbols \ {s} :
        /\ task'[u].sym = v /\ Entering(u)' => Entering(u) /\ task[u].sym = v /\ task[u].bar = task'[u].bar
        /\ task'[u].sym = v /\ Keeping(u)' => Keeping(u) /\ task[u].sym = v /\ task[u].bar = task'[u].bar
  BY <1>2 DEF Entering, Keeping, EntriesAssumption
<1>4. \A v \in Symbols \ {s} : SignalsOf(v)'
  BY <1>1, <1>3, SignalsStay DEF SignalsRight
<1> QED
  BY <1>4 DEF SignalsRight

\* A price is seen: the crossing since the last one is found once, and by its finder.
LEMMA SignalsBegin ==
  ASSUME EntriesBase, SignalsRight, NEW t \in Tasks, NEW s \in Symbols,
         Begin(t, s)
  PROVE  SignalsRight'
<1>1. /\ task \in [Tasks -> States] /\ seen \in [Symbols -> 1 .. bar \cup {None}]
      /\ bar \in Nat /\ bar \in 1 .. MaxBar /\ None \notin Nat
  BY TypesSplit, SymbolTypes DEF EntriesBase, TaskTypes, RestTypes
<1>2. /\ task[t].pc = "idle" /\ PriceSeen(s) /\ UNCHANGED <<mode, bar, spent, enteredBar>>
  BY DEF Begin, In
<1>3. \/ UNCHANGED task
      \/ \E b \in Crossed(s) :
           task' = [task EXCEPT ![t] = [Idle EXCEPT !.pc = "lock", !.sym = s, !.bar = b]]
  BY DEF Begin
<1>4. PICK x \in States : /\ task' = [task EXCEPT ![t] = x]
                          /\ \/ x = task[t] /\ x.sym = None
                             \/ x.pc = "lock" /\ x.sym = s /\ x.bar \in Crossed(s)
  <2>1. CASE UNCHANGED task
    <3>1. task[t] \in States /\ task[t].sym = None
      BY <1>1, <1>2 DEF EntriesBase, QueuesRight
    <3> QED
      BY <1>1, <2>1, <3>1
  <2>2. CASE task' # task
    <3>1. PICK b \in Crossed(s) :
            task' = [task EXCEPT ![t] = [Idle EXCEPT !.pc = "lock", !.sym = s, !.bar = b]]
      BY <1>3, <2>2
    <3>2. b \in 1 .. MaxBar \cup {None}
      BY <1>1 DEF Crossed
    <3>3. PICK x : x = [Idle EXCEPT !.pc = "lock", !.sym = s, !.bar = b]
      OBVIOUS
    <3>4. x \in States /\ x.pc = "lock" /\ x.sym = s /\ x.bar = b
      BY <3>2, <3>3, RestingState DEF States
    <3> QED
      BY <3>1, <3>3, <3>4
  <2> QED
    BY <2>1, <2>2
<1>5. task'[t] = x /\ \A u \in Tasks \ {t} : task'[u] = task[u]
  BY <1>1, <1>4
<1>6. UNCHANGED seen \/ (mode = "price" /\ seen' = [seen EXCEPT ![s] = bar])
  BY <1>2 DEF PriceSeen
<1>7. \A u \in Tasks : Entering(u)' => Entering(u) /\ task'[u] = task[u]
  BY <1>2, <1>4, <1>5 DEF Entering
<1>8. CASE mode # "price"
  <2>1. SignalsOf(s)'
    BY <1>1, <1>2, <1>6, <1>7, <1>8, SignalsStay DEF SignalsRight
  <2> QED
    BY <1>2, <1>4, <1>6, <1>8, <2>1, SignalsElsewhere
<1>9. CASE mode = "price"
  <2>1. seen'[s] = bar /\ \A v \in Symbols \ {s} : seen'[v] = seen[v]
    BY <1>1, <1>2, <1>9 DEF PriceSeen
  <2>2. /\ SignalsOf(s) /\ seen[s] \in 1 .. bar \cup {None} /\ spent[s] \subseteq 1 .. MaxBar
    BY SymbolTypes DEF SignalsRight
  <2>3. \A y \in spent'[s] : seen'[s] # None /\ y <= seen'[s]
    BY <1>1, <1>2, <2>1, <2>2 DEF SignalsOf
  <2>4. \A u \in Tasks : task'[u].sym = s /\ Entering(u)' =>
          task'[u].bar <= bar' /\ (mode' # "interval" => seen'[s] # None /\ task'[u].bar <= seen'[s])
    BY <1>1, <1>2, <1>7, <2>1, <2>2 DEF SignalsOf
  <2>5. \A u \in Tasks \ {t} : task'[u].sym = s /\ Keeping(u)' =>
          /\ Keeping(u) /\ task[u].sym = s /\ task'[u].bar = task[u].bar
          /\ seen[s] # None /\ task[u].bar <= seen[s] /\ task[u].bar \notin spent[s]
          /\ task[u].bar \in 1 .. MaxBar
    BY <1>1, <1>5, <1>9, <2>2 DEF SignalsOf, Keeping, States
  <2>6. task'[t].sym = s /\ Keeping(t)' => /\ task'[t].bar = bar /\ seen[s] # None /\ seen[s] < bar
    <3>1. task'[t].sym = s => x.bar \in Crossed(s)
      BY <1>4, <1>5, <1>2 DEF EntriesAssumption
    <3>2. seen[s] \notin {None, bar} => seen[s] < bar
      BY <1>1, <2>2
    <3> QED
      BY <1>5, <3>1, <3>2 DEF Crossed, Keeping
  <2>7. bar = seen'[s] /\ seen'[s] # None
    BY <1>1, <2>1
  <2>8. ASSUME NEW u \in Tasks, task'[u].sym = s, Keeping(u)'
        PROVE  /\ task'[u].bar <= seen'[s] /\ task'[u].bar \notin spent'[s]
               /\ \A w \in Tasks \ {u} : task'[w].sym = s /\ Keeping(w)' => task'[w].bar # task'[u].bar
    <3>1. CASE u = t
      <4>1. task'[t].bar = bar /\ seen[s] # None /\ seen[s] < bar /\ seen[s] \in Nat
        BY <1>1, <2>2, <2>6, <2>8, <3>1
      <4>2. bar \notin spent[s]
        BY <1>1, <2>2, <4>1 DEF SignalsOf
      <4>3. \A w \in Tasks \ {t} : task'[w].sym = s /\ Keeping(w)' => task'[w].bar # bar
        BY <1>1, <2>5, <4>1
      <4> QED
        BY <1>1, <1>2, <2>7, <3>1, <4>1, <4>2, <4>3
    <3>2. CASE u # t
      <4>1. /\ Keeping(u) /\ task[u].sym = s /\ task'[u].bar = task[u].bar
            /\ seen[s] # None /\ task[u].bar <= seen[s] /\ task[u].bar \notin spent[s]
            /\ task[u].bar \in 1 .. MaxBar
        BY <2>5, <2>8, <3>2
      <4>2. task[u].bar <= bar
        BY <1>1, <2>2, <4>1
      <4>3. ASSUME NEW w \in Tasks \ {u}, task'[w].sym = s, Keeping(w)'
            PROVE  task'[w].bar # task'[u].bar
        <5>1. CASE w = t
          <6>1. task'[t].bar = bar /\ seen[s] # None /\ seen[s] < bar /\ seen[s] \in Nat
            BY <1>1, <2>2, <2>6, <4>3, <5>1
          <6> QED
            BY <1>1, <4>1, <5>1, <6>1
        <5>2. CASE w # t
          <6>1. Keeping(w) /\ task[w].sym = s /\ task'[w].bar = task[w].bar
            BY <2>5, <4>3, <5>2
          <6> QED
            BY <1>9, <2>2, <4>1, <4>3, <6>1 DEF SignalsOf
        <5> QED
          BY <5>1, <5>2
      <4> QED
        BY <1>2, <2>7, <4>1, <4>2, <4>3
    <3> QED
      BY <3>1, <3>2
  <2>9. SignalsOf(s)'
    BY <1>2, <1>9, <2>3, <2>4, <2>7, <2>8 DEF SignalsOf
  <2> QED
    BY <1>2, <1>4, <2>1, <2>9, SignalsElsewhere
<1> QED
  BY <1>8, <1>9

\* The trigger fires for a date or an interval that was not entered on, or for a crossing
\* that is t's.
LEMMA SignalsFire ==
  ASSUME EntriesBase, SignalsRight, NEW t \in Tasks, NEW s \in Symbols,
         s = task[t].sym, task[t].pc = "lock", queue[s][1] = t, Fires(s, task[t].bar),
         GoOn(t, "trend", IF mode = "price" THEN task[t].bar ELSE bar),
         UNCHANGED <<mode, bar, spent, enteredBar>>
  PROVE  SignalsRight'
<1>1. /\ task \in [Tasks -> States] /\ seen \in [Symbols -> 1 .. bar \cup {None}] /\ TaskTypes
      /\ bar \in Nat /\ bar \in 1 .. MaxBar /\ None \notin Nat
      /\ spent[s] \subseteq 1 .. MaxBar /\ task[t].bar \in 1 .. MaxBar \cup {None}
      /\ seen[s] \in 1 .. bar \cup {None}
  BY TypesSplit, SymbolTypes DEF EntriesBase, TaskTypes, RestTypes, States
<1>2. PICK c \in 1 .. MaxBar \cup {None} : c = IF mode = "price" THEN task[t].bar ELSE bar
  BY <1>1
<1>3. PICK x \in States : /\ x.pc = "trend" /\ x.sym = s /\ x.bar = c
                          /\ task' = [task EXCEPT ![t] = x]
  <2>1. PICK pc \in {"signal", "trend"} : pc = "trend"
    OBVIOUS
  <2>2. GoOn(t, pc, c)
    BY <1>2, <2>1
  <2>3. \E x \in States : x.pc = pc /\ x.sym = task[t].sym /\ x.bar = c /\ task' = [task EXCEPT ![t] = x]
    <3>1. TaskTypes
      BY <1>1
    <3> QED
      BY <2>2, <3>1, GoesTo
  <2> QED
    BY <2>1, <2>3
<1>4. task'[t] = x /\ \A u \in Tasks \ {t} : task'[u] = task[u]
  BY <1>1, <1>3
<1>5. \A u \in Tasks \ {t} : task[u].sym = s => ~Entering(u)
  BY NobodyElse DEF Entering, Beyond
<1>6. SignalsOf(s)
  BY DEF SignalsRight
<1>7. /\ UNCHANGED seen \/ (mode = "schedule" /\ seen' = [seen EXCEPT ![s] = bar])
      /\ \A v \in Symbols \ {s} : seen'[v] = seen[v]
  BY <1>1 DEF Fires
<1>8. CASE mode = "price"
  <2>1. task[t].bar # None /\ c = task[t].bar /\ UNCHANGED seen
    BY <1>2, <1>8 DEF Fires
  <2>2. Keeping(t) /\ task[t].bar <= seen[s] /\ seen[s] # None
    BY <1>6, <1>8, <2>1 DEF SignalsOf, Keeping
  <2>3. task[t].bar <= bar
    BY <1>1, <2>1, <2>2
  <2>4. \A u \in Tasks : task'[u].sym = s /\ Entering(u)' =>
          task'[u].bar <= bar' /\ seen'[s] # None /\ task'[u].bar <= seen'[s]
    BY <1>3, <1>4, <1>5, <2>1, <2>2, <2>3 DEF Entering
  <2>5. \A u \in Tasks : /\ (Keeping(u) <=> Keeping(u)') /\ task'[u].sym = task[u].sym
                         /\ task'[u].bar = task[u].bar
    BY <1>3, <1>4, <2>1 DEF Keeping
  <2>6. \A u \in Tasks : task'[u].sym = s /\ Keeping(u)' =>
          /\ seen'[s] # None /\ task'[u].bar <= seen'[s]
          /\ task'[u].bar \notin spent'[s]
          /\ \A w \in Tasks \ {u} : task'[w].sym = s /\ Keeping(w)' => task'[w].bar # task'[u].bar
    BY <1>6, <1>8, <2>1, <2>5 DEF SignalsOf
  <2>7. SignalsOf(s)'
    BY <1>6, <1>8, <2>1, <2>4, <2>6 DEF SignalsOf
  <2> QED
    BY <1>3, <1>7, <2>7, SignalsElsewhere
<1>9. CASE mode # "price"
  <2>1. /\ c = bar /\ mode \in {"schedule", "interval"} /\ seen[s] # bar
        /\ mode = "schedule" => seen'[s] = bar
        /\ mode = "interval" => seen'[s] = seen[s]
    BY <1>1, <1>2, <1>9 DEF Fires
  <2>2. \A y \in spent[s] : seen[s] # None /\ y <= seen[s] /\ y < bar /\ y <= bar
    BY <1>1, <1>6, <2>1 DEF SignalsOf
  <2>3. bar # None /\ bar <= bar
    BY <1>1
  <2>4. \A u \in Tasks : task'[u].sym = s /\ Entering(u)' => task'[u].bar = bar
    BY <1>3, <1>4, <1>5, <2>1 DEF Entering
  <2>5. \A y \in spent'[s] : seen'[s] # None /\ y <= seen'[s]
    BY <2>1, <2>2, <2>3
  <2>6. SignalsOf(s)'
    BY <2>1, <2>2, <2>3, <2>4, <2>5 DEF SignalsOf
  <2> QED
    BY <1>3, <1>7, <2>6, SignalsElsewhere
<1> QED
  BY <1>8, <1>9

\* The evaluation ends, and may have started the interval.
LEMMA SignalsArm ==
  ASSUME EntriesBase, SignalsRight, NEW t \in Tasks, NEW s \in Symbols,
         task' = [task EXCEPT ![t] = Idle],
         UNCHANGED seen \/ Arms(s), UNCHANGED <<mode, bar, spent, enteredBar>>
  PROVE  SignalsRight'
<1>1. CASE UNCHANGED seen
  BY <1>1, RestingState, SignalsLeft
<1>2. CASE Arms(s)
  <2>1. /\ task \in [Tasks -> States] /\ seen \in [Symbols -> 1 .. bar \cup {None}]
        /\ bar \in Nat /\ bar \in 1 .. bar /\ None \notin Nat
    BY TypesSplit, SymbolTypes DEF EntriesBase, TaskTypes, RestTypes
  <2>2. /\ mode = "interval" /\ seen[s] = None /\ seen'[s] = bar
        /\ \A v \in Symbols \ {s} : seen'[v] = seen[v]
    BY <1>2, <2>1 DEF Arms
  <2>3. SignalsOf(s) /\ \A y \in spent[s] : FALSE
    BY <2>2 DEF SignalsRight, SignalsOf
  <2>4. \A u \in Tasks : task'[u].sym = s /\ Entering(u)' => task'[u].bar <= bar
    <3>1. \A u \in Tasks : Entering(u)' => Entering(u) /\ task'[u] = task[u]
      BY <2>1, RestingState DEF Entering
    <3> QED
      BY <2>3, <3>1 DEF SignalsOf
  <2>5. SignalsOf(s)'
    BY <2>2, <2>3, <2>4 DEF SignalsOf
  <2> QED
    BY <2>2, <2>5, RestingState, SignalsElsewhere
<1> QED
  BY <1>1, <1>2

LEMMA SignalsEnter ==
  ASSUME EntriesBase, SignalsRight, NEW t \in Tasks, Enter(t)
  PROVE  SignalsRight'
<1>1. TaskTypes /\ QueuesRight
  BY TypesSplit DEF EntriesBase
<1>2. PICK s \in Symbols : s = task[t].sym /\ task[t].pc = "lock" /\ queue[s][1] = t
  BY <1>1 DEF Enter, In, Holds, QueuesRight
<1>3. /\ UNCHANGED <<mode, bar, spent, enteredBar>>
      /\ \/ GoOn(t, "signal", None) /\ UNCHANGED seen
         \/ /\ Fires(s, task[t].bar)
            /\ GoOn(t, "trend", IF mode = "price" THEN task[t].bar ELSE bar)
         \/ (UNCHANGED seen \/ Arms(s)) /\ Leave(t)
  BY <1>2 DEF Enter
<1>4. CASE GoOn(t, "signal", None) /\ UNCHANGED seen
  <2>1. PICK pc \in {"signal", "trend"}, c \in 1 .. MaxBar \cup {None} : pc = "signal" /\ c = None
    OBVIOUS
  <2>2. GoOn(t, pc, c)
    BY <1>4, <2>1
  <2>3. \E x \in States : x.pc = pc /\ x.sym = task[t].sym /\ x.bar = c /\ task' = [task EXCEPT ![t] = x]
    BY <1>1, <2>2, GoesTo
  <2> QED
    BY <1>3, <1>4, <2>1, <2>3, SignalsLeft
<1>5. CASE /\ Fires(s, task[t].bar)
           /\ GoOn(t, "trend", IF mode = "price" THEN task[t].bar ELSE bar)
  BY <1>2, <1>3, <1>5, SignalsFire
<1>6. CASE (UNCHANGED seen \/ Arms(s)) /\ Leave(t)
  BY <1>3, <1>6, SignalsArm DEF Leave
<1> QED
  BY <1>3, <1>4, <1>5, <1>6

\* A signal is of a bar that was not entered on, and no older than the one that was.
LEMMA SignalsSignal ==
  ASSUME EntriesBase, SignalsRight, NEW t \in Tasks, Signal(t)
  PROVE  SignalsRight'
<1>1. TaskTypes /\ QueuesRight /\ BarsRight /\ RestTypes
  BY TypesSplit DEF EntriesBase
<1>2. PICK s \in Symbols : s = task[t].sym /\ task[t].pc = "signal" /\ mode = "bars"
  BY <1>1 DEF Signal, In, QueuesRight, BarsRight
<1>3. PICK b \in seen[s] .. bar :
        /\ seen' = [seen EXCEPT ![s] = b]
        /\ Leave(t) \/ (b # enteredBar[s] /\ GoOn(t, "trend", b))
  BY <1>2 DEF Signal
<1>4. UNCHANGED <<mode, bar, spent, enteredBar>>
  BY DEF Signal, manager
<1>5. /\ task \in [Tasks -> States] /\ seen \in [Symbols -> 1 .. bar \cup {None}]
      /\ bar \in Nat /\ bar \in 1 .. MaxBar /\ None \notin Nat
      /\ spent[s] \subseteq 1 .. MaxBar /\ seen[s] \in 1 .. bar
      /\ enteredBar[s] \in 1 .. MaxBar \cup {None}
  BY <1>1, <1>2, SymbolTypes DEF TaskTypes, RestTypes, BarsRight
<1>6. b \in 1 .. MaxBar /\ b # None /\ seen[s] <= b /\ b <= bar /\ b \in Nat
  BY <1>5
<1>7. seen'[s] = b /\ \A v \in Symbols \ {s} : seen'[v] = seen[v]
  BY <1>3, <1>5
<1>8. \A u \in Tasks \ {t} : task[u].sym = s => ~Entering(u)
  BY <1>2, NobodyElse, BeyondIsFirst DEF Entering, Beyond
<1>9. SignalsOf(s)
  BY DEF SignalsRight
<1>10. \A y \in spent[s] : y <= b
  BY <1>5, <1>6, <1>9 DEF SignalsOf
<1>11. enteredBar[s] # None => enteredBar[s] <= b
  BY <1>2, <1>5, <1>6, <1>9 DEF SignalsOf
<1>12. \A y \in spent[s] : enteredBar[s] # None /\ y <= enteredBar[s]
  BY <1>2, <1>9 DEF SignalsOf
<1>13. PICK x \in States :
         /\ task' = [task EXCEPT ![t] = x]
         /\ \/ x.pc = "idle" /\ x.sym = None
            \/ x.pc = "trend" /\ x.sym = s /\ x.bar = b /\ b # enteredBar[s]
  <2>1. CASE Leave(t)
    BY <2>1, RestingState DEF Leave
  <2>2. CASE b # enteredBar[s] /\ GoOn(t, "trend", b)
    <3>1. b \in 1 .. MaxBar \cup {None}
      BY <1>6
    <3>2. \E x \in States : /\ x.pc = "trend" /\ x.sym = task[t].sym /\ x.bar = b
                            /\ task' = [task EXCEPT ![t] = x]
      BY <1>1, <2>2, <3>1, GoesTo
    <3> QED
      BY <1>2, <2>2, <3>2
  <2> QED
    BY <1>3, <2>1, <2>2
<1>14. task'[t] = x /\ \A u \in Tasks \ {t} : task'[u] = task[u]
  BY <1>5, <1>13
<1>15. ASSUME NEW u \in Tasks, task'[u].sym = s, Entering(u)'
       PROVE  task'[u].bar = b /\ \A y \in spent[s] : y < b
  <2>1. u = t /\ x.pc = "trend" /\ x.bar = b /\ b # enteredBar[s]
    BY <1>8, <1>13, <1>14, <1>15 DEF Entering
  <2>2. ASSUME NEW y \in spent[s] PROVE y < b
    <3>1. enteredBar[s] # None /\ y <= enteredBar[s] /\ enteredBar[s] <= b
      BY <1>11, <1>12
    <3>2. enteredBar[s] \in Nat /\ y \in Nat
      BY <1>5, <3>1
    <3> QED
      BY <1>6, <2>1, <3>1, <3>2
  <2> QED
    BY <1>14, <2>1, <2>2
<1>16. b <= b
  BY <1>6
<1>17. SignalsOf(s)'
  BY <1>2, <1>4, <1>6, <1>7, <1>10, <1>11, <1>12, <1>15, <1>16 DEF SignalsOf
<1> QED
  BY <1>4, <1>7, <1>13, <1>17, SignalsElsewhere

\* An entry, or what may have been one: its bar, date, interval or crossing is spent.
LEMMA SignalsEntered ==
  ASSUME EntriesBase, SignalsRight, NEW t \in Tasks,
         Accepted(t) \/ TimedOut(t)
  PROVE  SignalsRight'
<1>1. /\ task[t].pc = "order" /\ Beyond(t) /\ Entering(t) /\ Keeping(t)
      /\ MarkEntered(t) /\ UNCHANGED <<mode, bar>>
      /\ spent' = [spent EXCEPT ![task[t].sym] = @ \cup {task[t].bar}]
  BY DEF Accepted, TimedOut, In, Beyond, Entering, Keeping, EntriesBase, BarsRight
<1>2. PICK s \in Symbols : s = task[t].sym
  BY <1>1, BeyondIsFirst
<1>3. PICK c \in 1 .. MaxBar : c = task[t].bar
  BY <1>1, TypesSplit DEF EntriesBase, TaskTypes, States, BarsRight, Entering
<1>4. /\ task \in [Tasks -> States] /\ task[t] \in States
      /\ seen \in [Symbols -> 1 .. bar \cup {None}]
      /\ spent \in [Symbols -> SUBSET (1 .. MaxBar)]
      /\ enteredBar \in [Symbols -> 1 .. MaxBar \cup {None}]
  BY TypesSplit DEF EntriesBase, TaskTypes, RestTypes
<1>5. /\ bar \in Nat /\ bar # None /\ None \notin Nat
      /\ spent[s] \subseteq 1 .. MaxBar /\ seen[s] \in 1 .. bar \cup {None}
  BY SymbolTypes
<1>6. PICK x \in States : /\ task' = [task EXCEPT ![t] = x]
                          /\ x.pc \in {"idle", "notify"} /\ x.sym \in {s, None}
  <2>1. CASE Accepted(t)
    <3>1. PICK x \in States : /\ x = [task[t] EXCEPT !.pc = "notify"]
                              /\ x.pc = "notify" /\ x.sym = task[t].sym
      BY <1>4, StateMoves
    <3>2. task' = [task EXCEPT ![t] = x]
      BY <1>4, <2>1, <3>1 DEF Accepted
    <3> QED
      BY <1>2, <3>1, <3>2
  <2>2. CASE TimedOut(t)
    BY <2>2, RestingState DEF TimedOut, BackOff
  <2> QED
    BY <2>1, <2>2
<1>7. task'[t] = x /\ \A u \in Tasks \ {t} : task'[u] = task[u]
  BY <1>4, <1>6
<1>8. \A u \in Tasks \ {t} : task[u].sym = s => ~Entering(u)
  BY <1>1, <1>2, NobodyElse, BeyondIsFirst DEF Entering, Beyond
<1>9. SignalsOf(s)
  BY DEF SignalsRight
<1>10. /\ seen'[s] = IF mode = "interval" THEN bar ELSE seen[s]
       /\ enteredBar'[s] = IF mode = "bars" THEN c ELSE enteredBar[s]
       /\ spent'[s] = spent[s] \cup {c}
       /\ \A v \in Symbols \ {s} : /\ seen'[v] = seen[v] /\ spent'[v] = spent[v]
                                   /\ enteredBar'[v] = enteredBar[v]
  BY <1>1, <1>2, <1>3, <1>4 DEF MarkEntered, Restarted
<1>11. c <= bar /\ (mode # "interval" => seen[s] # None /\ c <= seen[s])
       /\ (mode # "price" => \A y \in spent[s] : y < c)
  BY <1>1, <1>2, <1>3, <1>9 DEF SignalsOf
<1>12. \A y \in spent'[s] : seen'[s] # None /\ y <= seen'[s]
  <2>1. \A y \in spent[s] : seen[s] # None /\ y <= seen[s] /\ y <= bar
    BY <1>5, <1>9 DEF SignalsOf
  <2> QED
    BY <1>5, <1>10, <1>11, <2>1
<1>13. mode = "bars" => \A y \in spent'[s] : enteredBar'[s] # None /\ y <= enteredBar'[s]
  <2>1. c # None /\ c <= c
    BY <1>3, <1>5
  <2>2. mode = "bars" => \A y \in spent[s] : y <= c
    BY <1>3, <1>5, <1>11
  <2> QED
    BY <1>10, <2>1, <2>2
<1>14. mode = "bars" => (enteredBar'[s] # None => enteredBar'[s] <= seen'[s])
  BY <1>10, <1>11
<1>15. \A u \in Tasks : task'[u].sym = s => ~Entering(u)'
  BY <1>6, <1>7, <1>8 DEF Entering
<1>16. \A u \in Tasks : Keeping(u)' => u # t /\ Keeping(u) /\ task'[u] = task[u]
  BY <1>6, <1>7 DEF Keeping
<1>17. ASSUME mode = "price", NEW u \in Tasks, task'[u].sym = s, Keeping(u)'
       PROVE  /\ seen'[s] # None /\ task'[u].bar <= seen'[s]
              /\ task'[u].bar \notin spent'[s]
              /\ \A w \in Tasks \ {u} : task'[w].sym = s /\ Keeping(w)' => task'[w].bar # task'[u].bar
  <2>1. u # t /\ Keeping(u) /\ task'[u] = task[u] /\ task[u].sym = s
    BY <1>16, <1>17
  <2>2. /\ seen[s] # None /\ task[u].bar <= seen[s] /\ task[u].bar \notin spent[s]
        /\ \A w \in Tasks \ {u} : task[w].sym = s /\ Keeping(w) => task[w].bar # task[u].bar
    BY <1>9, <1>17, <2>1 DEF SignalsOf
  <2>3. task[u].bar # c
    BY <1>1, <1>2, <1>3, <2>1, <2>2
  <2>4. \A w \in Tasks \ {u} : task'[w].sym = s /\ Keeping(w)' => task'[w].bar # task[u].bar
    BY <1>16, <2>2
  <2> QED
    BY <1>10, <1>17, <2>1, <2>2, <2>3, <2>4
<1>18. SignalsOf(s)'
  BY <1>1, <1>12, <1>13, <1>14, <1>15, <1>17 DEF SignalsOf
<1> QED
  BY <1>1, <1>6, <1>10, <1>18, SignalsElsewhere

\* The order is sent, answered, refused or cancelled.
LEMMA SignalsOrder ==
  ASSUME EntriesBase, SignalsRight, NEW t \in Tasks,
         \/ TrendDenies(t) \/ Send(t) \/ Notified(t) \/ Rejected(t) \/ Cancelled(t)
         \/ Fill(t) \/ Refuse(t)
  PROVE  SignalsRight'
<1>1. task \in [Tasks -> States] /\ task[t] \in States
  BY TypesSplit DEF EntriesBase, TaskTypes
<1>2. UNCHANGED <<mode, bar, seen, spent, enteredBar>>
  BY DEF TrendDenies, Send, Notified, Rejected, Cancelled, Fill, Refuse, manager, bars
<1>3. \/ task' = [task EXCEPT ![t] = Idle]
      \/ task[t].pc = "trend" /\ task' = [task EXCEPT ![t].pc = "order"]
      \/ task[t].pc = "order" /\ \E r \in {"ok", "refused"} : task' = [task EXCEPT ![t].reply = r]
  BY DEF TrendDenies, Send, Notified, Rejected, BackOff, Cancelled, Fill, Refuse,
         Leave, In
<1>4. CASE task' = [task EXCEPT ![t] = Idle]
  BY <1>2, <1>4, RestingState, SignalsLeft
<1>5. CASE task[t].pc = "trend" /\ task' = [task EXCEPT ![t].pc = "order"]
  <2>1. PICK x \in States : /\ x = [task[t] EXCEPT !.pc = "order"]
                            /\ x.sym = task[t].sym /\ x.bar = task[t].bar
    BY <1>1, StateMoves
  <2>2. task' = [task EXCEPT ![t] = x]
    BY <1>1, <1>5, <2>1
  <2> QED
    BY <1>2, <1>5, <2>1, <2>2, SignalsLeft DEF Entering
<1>6. CASE task[t].pc = "order" /\ \E r \in {"ok", "refused"} : task' = [task EXCEPT ![t].reply = r]
  <2>1. PICK r \in {"ok", "refused"} : task' = [task EXCEPT ![t].reply = r]
    BY <1>6
  <2>2. \E x \in States : /\ x = [task[t] EXCEPT !.reply = r]
                          /\ x.pc = task[t].pc /\ x.sym = task[t].sym /\ x.bar = task[t].bar
    BY <1>1, <2>1, StateAnswered
  <2>3. PICK x \in States : /\ x = [task[t] EXCEPT !.reply = r]
                            /\ x.sym = task[t].sym /\ x.bar = task[t].bar
    BY <2>2
  <2>4. task' = [task EXCEPT ![t] = x]
    BY <1>1, <2>1, <2>3
  <2> QED
    BY <1>2, <1>6, <2>3, <2>4, SignalsLeft DEF Entering
<1> QED
  BY <1>3, <1>4, <1>5, <1>6

\* A reset forgets the bars, and starts the interval again.
LEMMA SignalsReset ==
  ASSUME EntriesBase, SignalsRight, NEW s \in Symbols, Reset(s)
  PROVE  SignalsRight'
<1>1. /\ UNCHANGED <<task, mode, bar>>
      /\ enteredBar' = [enteredBar EXCEPT ![s] = None]
      /\ seen' = IF mode = "interval" THEN [seen EXCEPT ![s] = bar] ELSE seen
      /\ spent' = IF mode = "bars" THEN [spent EXCEPT ![s] = {}] ELSE spent
  BY DEF Reset, Restarted
<1>2. /\ seen \in [Symbols -> 1 .. bar \cup {None}]
      /\ spent \in [Symbols -> SUBSET (1 .. MaxBar)]
      /\ enteredBar \in [Symbols -> 1 .. MaxBar \cup {None}]
      /\ bar \in Nat /\ bar # None /\ None \notin Nat /\ bar <= bar
  BY TypesSplit, SymbolTypes DEF EntriesBase, RestTypes
<1>3. \A v \in Symbols \ {s} : /\ seen'[v] = seen[v] /\ spent'[v] = spent[v]
                               /\ enteredBar'[v] = enteredBar[v]
  BY <1>1, <1>2
<1>4. ASSUME NEW v \in Symbols \ {s} PROVE SignalsOf(v)'
  BY <1>1, <1>2, <1>3, SignalsStay DEF SignalsRight, Entering, Keeping
<1>5. /\ SignalsOf(s) /\ enteredBar'[s] = None
      /\ seen[s] \in 1 .. bar \cup {None} /\ spent[s] \subseteq 1 .. MaxBar
  BY <1>1, <1>2 DEF SignalsRight
<1>6. SignalsOf(s)'
  <2>1. CASE mode = "bars"
    <3>1. spent'[s] = {} /\ seen'[s] = seen[s]
      BY <1>1, <1>2, <2>1
    <3> QED
      BY <1>1, <1>5, <2>1, <3>1 DEF SignalsOf, Entering, Keeping
  <2>2. CASE mode = "interval"
    <3>1. spent'[s] = spent[s] /\ seen'[s] = bar
      BY <1>1, <1>2, <2>2
    <3>2. \A y \in spent[s] : y <= bar
      BY <1>2, <1>5 DEF SignalsOf
    <3> QED
      BY <1>1, <1>2, <1>5, <2>2, <3>1, <3>2 DEF SignalsOf, Entering, Keeping
  <2>3. CASE mode \notin {"bars", "interval"}
    BY <1>1, <1>5, <2>3 DEF SignalsOf, Entering, Keeping
  <2> QED
    BY <2>1, <2>2, <2>3
<1> QED
  BY <1>4, <1>6 DEF SignalsRight

LEMMA SignalsWorld ==
  ASSUME EntriesBase, SignalsRight,
         UNCHANGED <<task, mode, seen, spent, enteredBar>>, bar' \in Nat, bar <= bar'
  PROVE  SignalsRight'
  BY SignalsStay DEF SignalsRight, Entering, Keeping

LEMMA SignalsStep ==
  ASSUME EntriesBase, SignalsRight, [Next]_vars
  PROVE  SignalsRight'
<1>1. CASE \E t \in Tasks, s \in Symbols : Begin(t, s)
  BY <1>1, SignalsBegin
<1>2. CASE \E t \in Tasks : Enter(t) \/ Signal(t) \/ Accepted(t) \/ TimedOut(t)
  BY <1>2, SignalsEnter, SignalsSignal, SignalsEntered
<1>3. CASE \E t \in Tasks : \/ TrendDenies(t) \/ Send(t) \/ Notified(t) \/ Rejected(t)
                            \/ Cancelled(t) \/ Fill(t) \/ Refuse(t)
  BY <1>3, SignalsOrder
<1>4. CASE \E s \in Symbols : Reset(s)
  BY <1>4, SignalsReset
<1>5. CASE \/ \E s \in Symbols : \/ CooldownOver(s) \/ BackoffOver(s)
                                 \/ LateFill(s) \/ Close(s)
           \/ Midnight \/ BarCloses \/ SendSnapshot \/ HandleSnapshot \/ UNCHANGED vars
  <2>1. UNCHANGED <<task, mode, seen, spent, enteredBar>> /\ bar' \in {bar, bar + 1}
    BY <1>5 DEF CooldownOver, BackoffOver, LateFill, Close, Midnight, BarCloses,
                SendSnapshot, HandleSnapshot, vars, manager, bars
  <2>2. bar \in Nat
    BY TypesSplit DEF EntriesBase, RestTypes
  <2>3. bar' \in Nat /\ bar <= bar'
    BY <2>1, <2>2
  <2> QED
    BY <2>1, <2>3, SignalsWorld
<1> QED
  BY <1>1, <1>2, <1>3, <1>4, <1>5 DEF Next, Steps

\* What an entry waited for is entered on once: not again for the same bar (until a close
\* resets the symbol), date, interval or crossing, also when the order timed out and may
\* have been filled.
THEOREM EntriesAreOnce == Spec => OneEntryPerSignal
<1> DEFINE Inv == EntriesBase /\ SignalsRight
           Once == \A t \in Tasks : Sends(t) => task[t].bar \notin spent[task[t].sym]
<1>1. Init => Inv
  <2> SUFFICES ASSUME Init PROVE Inv
    OBVIOUS
  <2>1. \A s \in Symbols : spent[s] = {} /\ enteredBar[s] = None
    BY DEF Init
  <2>2. \A t \in Tasks : ~Entering(t) /\ ~Keeping(t)
    BY RestingState DEF Init, Entering, Keeping
  <2> QED
    BY <2>1, <2>2, InitEntries DEF SignalsRight, SignalsOf
<1>2. Inv /\ [Next]_vars => Inv'
  BY EntriesStep, SignalsStep
<1>3. Inv => Once
  <2> SUFFICES ASSUME Inv, NEW t \in Tasks, task[t].pc = "trend"
               PROVE  task[t].bar \notin spent[task[t].sym]
    BY DEF Sends, In
  <2>1. PICK s \in Symbols : s = task[t].sym
    BY BeyondIsFirst DEF Beyond
  <2>2. task[t].bar # None
    BY DEF EntriesBase, BarsRight
  <2>3. task[t].bar \in 1 .. MaxBar /\ SignalsOf(s)
    BY <2>2, TypesSplit DEF EntriesBase, TaskTypes, States, SignalsRight
  <2>4. CASE mode = "price"
    BY <2>1, <2>2, <2>3, <2>4 DEF SignalsOf, Keeping
  <2>5. CASE mode # "price"
    <3>1. \A y \in spent[s] : y < task[t].bar
      BY <2>1, <2>3, <2>5 DEF SignalsOf, Entering
    <3> QED
      BY <2>1, <2>3, <3>1
  <2> QED
    BY <2>4, <2>5
<1>4. Spec => [][Once]_vars
  <2>1. Inv /\ [Next]_vars => [Once]_vars
    BY <1>3
  <2> HIDE DEF Inv, Once
  <2> QED
    BY <1>1, <1>2, <2>1, PTL DEF Spec
<1> QED
  BY <1>4 DEF OneEntryPerSignal

-----------------------------------------------------------------------------
(* Signals *)

USE SignalsAssumption

\* The streak s fits the n opinions f, the last of which is of the bar last: it stands at
\* that bar or begins anew, and what it counts are the last ones.
Fits(s, n, f, last) ==
  /\ s.bar \in {0, last}
  /\ s.bar = 0 => s.count = 0
  /\ s.count <= n
  /\ \A k \in n - s.count + 1 .. n : f[k] = s.side

Looked == [bar : 1 .. LastBar, side : Opinions]

LastOf(q) == IF q = <<>> THEN 0 ELSE q[Len(q)].bar

SidesOf(q) == [k \in 1 .. Len(q) |-> q[k].side]

StreaksInv ==
  /\ SignalsTypeOK
  /\ \A source \in Asks :
       Fits(streak[source], Len(looks[source]), SidesOf(looks[source]), LastOf(looks[source]))

LEMMA VerdictIsAnOpinion == ASSUME NEW v PROVE Verdict(v) \in Opinions
<1>1. DEFINE wins(mine, theirs) ==
        CASE config.logic = "all"       -> mine = Enabled
          [] config.logic = "any"       -> mine > 0 /\ theirs = 0
          [] config.logic = "threshold" -> mine >= MinAgree /\ theirs = 0
          [] config.logic = "majority"  -> mine - theirs >= MinMargin
<1>2. Verdict(v) = IF wins(v.buys, v.sells) THEN "BUY"
                   ELSE IF wins(v.sells, v.buys) THEN "SELL" ELSE NoSide
  BY DEF Verdict, CombineSignals
<1> HIDE DEF wins
<1> QED
  BY <1>2 DEF Opinions

LEMMA OpinionIsOne == ASSUME NEW source, NEW v \in Votes PROVE Opinion(source, v) \in Opinions
  BY VerdictIsAnOpinion DEF Opinion, MlVerdict, Allowed, Votes, Opinions

\* A mode asks the indicators, the model or both.
LEMMA AsksOfMode ==
  ASSUME SignalsTypeOK
  PROVE  /\ Asks \subseteq Sources
         /\ config.mode = "indicators" => Asks = {"ind"}
         /\ config.mode = "ml" => Asks = {"ml"}
<1>1. config.mode \in {"indicators", "ml", "indicators_ml"}
  BY DEF SignalsTypeOK
<1> QED
  BY <1>1 DEF Asks, Sources

LEMMA LengthenIsNat ==
  ASSUME NEW count \in Nat, NEW side, NEW last
  PROVE  /\ Lengthen(count, side, last) \in Nat
         /\ side = NoSide => Lengthen(count, side, last) = 0
         /\ side # NoSide /\ side = last => Lengthen(count, side, last) = count + 1
         /\ side # NoSide /\ side # last => Lengthen(count, side, last) = 1
<1>1. CASE side = NoSide
  BY <1>1 DEF Lengthen
<1>2. CASE side # NoSide /\ side = last
  BY <1>2 DEF Lengthen
<1>3. CASE side # NoSide /\ side # last
  BY <1>3 DEF Lengthen
<1> QED
  BY <1>1, <1>2, <1>3

\* What AfterBar makes of a streak: at another bar, and at its own.
LEMMA AfterBarIs ==
  ASSUME NEW s \in Streaks, NEW side \in Opinions, NEW at \in 1 .. LastBar
  PROVE  /\ AfterBar(s, side, at) \in Streaks
         /\ AfterBar(s, side, at).bar = at
         /\ AfterBar(s, side, at).side = side
         /\ at # s.bar => AfterBar(s, side, at).count = Lengthen(s.count, side, s.side)
         /\ at = s.bar /\ side = s.side => AfterBar(s, side, at) = s
         /\ at = s.bar /\ side # s.side =>
              AfterBar(s, side, at).count = IF side = NoSide THEN 0 ELSE 1
<1> DEFINE t == AfterBar(s, side, at)
<1>1. s.count \in Nat /\ s.side \in Opinions /\ s.bar \in 0 .. LastBar
  BY DEF Streaks
<1>2. CASE at # s.bar
  <2>1. t = [side |-> side, count |-> Lengthen(s.count, side, s.side), bar |-> at]
    BY <1>2 DEF AfterBar
  <2>2. Lengthen(s.count, side, s.side) \in Nat
    BY <1>1, LengthenIsNat
  <2> HIDE DEF t
  <2>3. t \in Streaks /\ t.bar = at /\ t.side = side
        /\ t.count = Lengthen(s.count, side, s.side)
    BY <2>1, <2>2 DEF Streaks
  <2> QED
    BY <1>2, <2>3 DEF t
<1>3. CASE at = s.bar /\ side # s.side
  <2>1. t = [s EXCEPT !.side = side, !.count = IF side = NoSide THEN 0 ELSE 1]
    BY <1>3 DEF AfterBar
  <2>2. s = [side |-> s.side, count |-> s.count, bar |-> s.bar]
    BY DEF Streaks
  <2>3. t = [side |-> side, count |-> IF side = NoSide THEN 0 ELSE 1, bar |-> at]
    BY <1>3, <2>1, <2>2
  <2> HIDE DEF t
  <2>4. t \in Streaks /\ t.bar = at /\ t.side = side
        /\ t.count = IF side = NoSide THEN 0 ELSE 1
    BY <1>1, <2>3 DEF Streaks
  <2> QED
    BY <1>3, <2>4 DEF t
<1>4. CASE at = s.bar /\ side = s.side
  BY <1>4 DEF AfterBar
<1> QED
  BY <1>2, <1>3, <1>4

\* What AfterBar makes of a streak that fits the opinions f fits the opinions g, in
\* which the one of the bar replaces the last one or follows it.
LEMMA AfterBarFits ==
  ASSUME NEW s \in Streaks, NEW n \in Nat, NEW f, NEW last \in 0 .. LastBar,
         Fits(s, n, f, last), n = 0 => last = 0,
         NEW at \in 1 .. LastBar, NEW side \in Opinions, NEW m \in Nat, NEW g,
         m = IF last = at THEN n ELSE n + 1,
         \A k \in 1 .. n : k < m => g[k] = f[k],
         g[m] = side
  PROVE  Fits(AfterBar(s, side, at), m, g, at)
<1> DEFINE t == AfterBar(s, side, at)
<1>1. s.count \in Nat /\ s.side \in Opinions /\ s.bar \in 0 .. LastBar /\ m > 0
  BY DEF Streaks
<1>2. t \in Streaks /\ t.bar = at /\ t.side = side /\ t.count \in Nat
  BY AfterBarIs DEF Streaks
<1>3. CASE t.count <= 1
  <2>1. \A k \in m - t.count + 1 .. m : k = m
    BY <1>1, <1>2, <1>3
  <2> HIDE DEF t
  <2> QED
    BY <1>1, <1>2, <1>3, <2>1 DEF Fits, t
<1>4. CASE t.count > 1
  <2>1. side = s.side /\ (at # s.bar => side # NoSide)
    <3>1. /\ at # s.bar => t.count = Lengthen(s.count, side, s.side)
          /\ at = s.bar /\ side # s.side => t.count = IF side = NoSide THEN 0 ELSE 1
      BY AfterBarIs
    <3> HIDE DEF t
    <3> QED
      BY <1>1, <1>4, <3>1, LengthenIsNat
  <2>2. CASE at # s.bar
    <3>1. t.count = s.count + 1
      BY <1>1, <2>1, <2>2, AfterBarIs, LengthenIsNat
    <3>2. s.bar = last /\ m = n + 1
      BY <1>1, <1>4, <2>2, <3>1 DEF Fits
    <3>3. t.count <= m
      BY <1>1, <3>1, <3>2 DEF Fits
    <3>4. ASSUME NEW k \in m - t.count + 1 .. m PROVE g[k] = side
      <4>1. CASE k = m
        BY <4>1
      <4>2. CASE k # m
        <5>1. k \in n - s.count + 1 .. n /\ k < m
          BY <1>1, <1>2, <3>1, <3>2, <4>2
        <5>2. k \in 1 .. n
          BY <1>1, <5>1 DEF Fits
        <5> QED
          BY <2>1, <5>1, <5>2 DEF Fits
      <4> QED
        BY <4>1, <4>2
    <3> HIDE DEF t
    <3> QED
      BY <1>2, <3>3, <3>4 DEF Fits, t
  <2>3. CASE at = s.bar
    <3>1. t = s /\ m = n
      BY <2>1, <2>3, AfterBarIs DEF Fits
    <3>2. \A k \in n - s.count + 1 .. n : g[k] = side
      <4> SUFFICES ASSUME NEW k \in n - s.count + 1 .. n PROVE g[k] = side
        OBVIOUS
      <4>1. k \in 1 .. n /\ f[k] = side
        BY <1>1, <2>1 DEF Fits
      <4> QED
        BY <3>1, <4>1
    <3> HIDE DEF t
    <3> QED
      BY <1>2, <2>1, <2>3, <3>1, <3>2 DEF Fits, t
  <2> QED
    BY <2>2, <2>3
<1> QED
  BY <1>2, <1>3, <1>4

\* What is noted of a look replaces the last entry or follows it.
LEMMA NotedIs ==
  ASSUME NEW q \in Seq(Looked), NEW e \in Looked
  PROVE  /\ LastOf(q) \in 0 .. LastBar /\ (Len(q) = 0 => LastOf(q) = 0)
         /\ Noted(q, e) \in Seq(Looked)
         /\ Len(Noted(q, e)) = IF LastOf(q) = e.bar THEN Len(q) ELSE Len(q) + 1
         /\ Len(Noted(q, e)) > 0
         /\ \A k \in 1 .. Len(q) : k < Len(Noted(q, e)) => Noted(q, e)[k] = q[k]
         /\ Noted(q, e)[Len(Noted(q, e))] = e
         /\ LastOf(Noted(q, e)) = e.bar
<1>1. Len(q) \in Nat /\ e.bar \in 1 .. LastBar
  BY DEF Looked
<1>2. LastOf(q) \in 0 .. LastBar /\ (Len(q) = 0 => LastOf(q) = 0)
      /\ (q # <<>> /\ q[Len(q)].bar = e.bar <=> LastOf(q) = e.bar)
  <2>1. CASE q = <<>>
    BY <2>1, <1>1 DEF LastOf
  <2>2. CASE q # <<>>
    <3>1. Len(q) \in 1 .. Len(q)
      BY <2>2, <1>1, EmptySeq
    <3>2. q[Len(q)] \in Looked
      BY <3>1, ElementOfSeq
    <3> QED
      BY <2>2, <3>1, <3>2 DEF LastOf, Looked
  <2> QED
    BY <2>1, <2>2
<1>3. CASE LastOf(q) = e.bar
  <2>1. Noted(q, e) = [q EXCEPT ![Len(q)] = e] /\ Len(q) > 0
    BY <1>1, <1>2, <1>3 DEF Noted
  <2> QED
    BY <1>1, <1>2, <1>3, <2>1 DEF LastOf
<1>4. CASE LastOf(q) # e.bar
  <2>1. Noted(q, e) = Append(q, e)
    BY <1>2, <1>4 DEF Noted
  <2> QED
    BY <1>1, <1>2, <1>4, <2>1 DEF LastOf
<1> QED
  BY <1>3, <1>4

LEMMA SignalsStart == SignalsInit => StreaksInv
<1> SUFFICES ASSUME SignalsInit PROVE StreaksInv
  OBVIOUS
<1>1. NoStreak \in Streaks /\ NoSignal \in [side : Opinions, bar : 0 .. LastBar]
  BY DEF NoStreak, NoSignal, Streaks, Opinions
<1>2. SignalsTypeOK
  <2>1. <<>> \in Seq([bar : 1 .. LastBar, side : Opinions]) /\ <<>> \in Seq(Votes)
    BY EmptySeq
  <2> QED
    BY <1>1, <2>1 DEF SignalsInit, SignalsTypeOK
<1>3. \A source \in Sources : streak[source] = NoStreak /\ looks[source] = <<>>
  BY DEF SignalsInit
<1>4. Fits(NoStreak, 0, SidesOf(<<>>), 0)
  BY DEF Fits, NoStreak
<1>5. LastOf(<<>>) = 0 /\ Len(<<>>) = 0
  BY DEF LastOf
<1> QED
  BY <1>2, <1>3, <1>4, <1>5, AsksOfMode DEF StreaksInv

LEMMA StreaksNewBar == ASSUME StreaksInv, NewBar PROVE StreaksInv'
<1>1. PICK v \in Asked : closed' = Append(closed, v)
  BY DEF NewBar
<1>2. closed' \in Seq(Votes) /\ Len(closed') <= LastBar
  BY <1>1 DEF NewBar, StreaksInv, SignalsTypeOK, Asked
<1>3. smooth' \in BOOLEAN /\ breaks' \subseteq {"blind", "reset"}
  BY DEF NewBar, StreaksInv, SignalsTypeOK
<1>4. SignalsTypeOK'
  BY <1>2, <1>3 DEF NewBar, StreaksInv, SignalsTypeOK
<1>5. Asks' = Asks /\ streak' = streak /\ looks' = looks
  BY DEF NewBar, Asks
<1> QED
  BY <1>4, <1>5 DEF StreaksInv

\* The streak of a source after a look is a streak; one that was able stands at the bar.
LEMMA AfterLookIs ==
  ASSUME SignalsTypeOK, closed # <<>>, NEW able \in SUBSET Asks, NEW source \in Sources
  PROVE  /\ Len(closed) \in 1 .. LastBar
         /\ closed[Len(closed)] \in Votes
         /\ Opinion(source, closed[Len(closed)]) \in Opinions
         /\ AfterLook(source, able) \in Streaks
         /\ source \in able => AfterLook(source, able) =
              AfterBar(streak[source], Opinion(source, closed[Len(closed)]), Len(closed))
         /\ source \notin able => \/ AfterLook(source, able) = streak[source]
                                  \/ /\ AfterLook(source, able).side = NoSide
                                     /\ AfterLook(source, able).count = 0
                                     /\ AfterLook(source, able).bar = streak[source].bar
         /\ source \notin able /\ source \in Asks /\ source = "ind" =>
              AfterLook(source, able).count = 0
<1>1. Len(closed) \in 1 .. LastBar /\ closed[Len(closed)] \in Votes
  BY DEF SignalsTypeOK
<1>2. Opinion(source, closed[Len(closed)]) \in Opinions
  BY <1>1, OpinionIsOne
<1>3. streak[source] \in Streaks
  BY DEF SignalsTypeOK
<1>4. CASE source \in able
  <2>1. AfterLook(source, able)
          = AfterBar(streak[source], Opinion(source, closed[Len(closed)]), Len(closed))
    BY <1>4 DEF AfterLook
  <2> QED
    BY <1>1, <1>2, <1>3, <1>4, <2>1, AfterBarIs
<1>5. CASE source \in Asks \ able /\ source = "ind"
  <2>1. AfterLook(source, able) = AfterNoBars(streak[source])
    BY <1>5 DEF AfterLook
  <2>2. AfterNoBars(streak[source]) = [side |-> NoSide, count |-> 0, bar |-> streak[source].bar]
    <3> DEFINE s == streak[source]
    <3>1. s = [side |-> s.side, count |-> s.count, bar |-> s.bar]
      BY <1>3 DEF Streaks
    <3>2. AfterNoBars(s) = [s EXCEPT !.side = NoSide, !.count = 0]
      BY DEF AfterNoBars
    <3> HIDE DEF s
    <3>3. AfterNoBars(s) = [side |-> NoSide, count |-> 0, bar |-> s.bar]
      BY <3>1, <3>2
    <3> QED
      BY <3>3 DEF s
  <2> QED
    BY <1>1, <1>2, <1>3, <1>5, <2>1, <2>2 DEF Streaks, Opinions
<1>6. CASE source \notin able /\ ~(source \in Asks /\ source = "ind")
  <2>1. AfterLook(source, able) = streak[source]
    BY <1>6 DEF AfterLook
  <2> QED
    BY <1>1, <1>2, <1>3, <1>6, <2>1
<1> QED
  BY <1>4, <1>5, <1>6

LEMMA StreaksLook == ASSUME StreaksInv, Look PROVE StreaksInv'
<1> DEFINE at == Len(closed)
           Entry(source) == [bar |-> at, side |-> Opinion(source, closed[at])]
<1>1. PICK able \in SUBSET Asks :
        /\ streak' = [source \in Sources |-> AfterLook(source, able)]
        /\ signal' = [side |-> Side([source \in Sources |-> AfterLook(source, able)], able),
                      bar |-> at]
        /\ looks' = [source \in Sources |-> IF source \in able
                                            THEN Noted(looks[source], Entry(source))
                                            ELSE looks[source]]
        /\ breaks' = IF able = Asks THEN breaks ELSE Broken("blind")
  BY DEF Look
<1>2. closed # <<>> /\ UNCHANGED <<config, closed, smooth>> /\ SignalsTypeOK
  BY DEF Look, StreaksInv
<1>3. at \in 1 .. LastBar
  BY <1>2, AfterLookIs DEF Sources
<1>4. \A source \in Sources : /\ AfterLook(source, able) \in Streaks
                              /\ Opinion(source, closed[at]) \in Opinions
  BY <1>2, AfterLookIs
<1>5. \A source \in Sources : Entry(source) \in Looked /\ looks[source] \in Seq(Looked)
  BY <1>2, <1>3, <1>4 DEF Looked, SignalsTypeOK
<1>6. looks' \in [Sources -> Seq(Looked)] /\ streak' \in [Sources -> Streaks]
  BY <1>1, <1>4, <1>5, NotedIs
<1>7. signal' \in [side : Opinions, bar : 0 .. LastBar]
  <2> DEFINE s == [source \in Sources |-> AfterLook(source, able)]
  <2>1. s["ind"].side \in Opinions /\ s["ml"].side \in Opinions
    BY <1>4 DEF Streaks, Sources
  <2>2. signal' = [side |-> Side(s, able), bar |-> at]
    BY <1>1
  <2> HIDE DEF s
  <2>3. Side(s, able) \in Opinions
    <3>1. config.mode \in {"indicators", "ml", "indicators_ml"}
      BY <1>2 DEF SignalsTypeOK
    <3> QED
      BY <2>1, <3>1 DEF Side, Allowed, Confirmed, Opinions
  <2> QED
    BY <1>3, <2>2, <2>3
<1>8. breaks' \subseteq {"blind", "reset"}
  BY <1>1, <1>2 DEF Broken, SignalsTypeOK
<1>9. SignalsTypeOK'
  BY <1>2, <1>6, <1>7, <1>8 DEF SignalsTypeOK, Looked
<1>10. ASSUME NEW source \in Asks
       PROVE  Fits(streak[source], Len(looks[source]), SidesOf(looks[source]), LastOf(looks[source]))'
  <2> DEFINE q == looks[source]
             r == looks'[source]
             s == streak[source]
             side == Opinion(source, closed[at])
  <2>1. source \in Sources /\ s \in Streaks /\ q \in Seq(Looked) /\ side \in Opinions
    BY <1>2, <1>4, <1>5, AsksOfMode DEF SignalsTypeOK
  <2>2. Fits(s, Len(q), SidesOf(q), LastOf(q))
    BY DEF StreaksInv
  <2>3. CASE source \in able
    <3>1. r = Noted(q, Entry(source)) /\ streak'[source] = AfterBar(s, side, at)
      BY <1>1, <1>2, <2>1, <2>3, AfterLookIs
    <3>2. /\ LastOf(q) \in 0 .. LastBar /\ (Len(q) = 0 => LastOf(q) = 0)
          /\ r \in Seq(Looked)
          /\ Len(r) = IF LastOf(q) = at THEN Len(q) ELSE Len(q) + 1
          /\ Len(r) > 0
          /\ \A k \in 1 .. Len(q) : k < Len(r) => r[k] = q[k]
          /\ r[Len(r)].side = side
          /\ LastOf(r) = at
      <4> DEFINE e == Entry(source)
      <4>1. e.bar = at /\ e.side = side /\ e \in Looked /\ r = Noted(q, e)
        BY <1>5, <2>1, <3>1
      <4> HIDE DEF e, q, r, side, at
      <4>2. /\ LastOf(q) \in 0 .. LastBar /\ (Len(q) = 0 => LastOf(q) = 0)
            /\ r \in Seq(Looked)
            /\ Len(r) = IF LastOf(q) = e.bar THEN Len(q) ELSE Len(q) + 1
            /\ Len(r) > 0
            /\ \A k \in 1 .. Len(q) : k < Len(r) => r[k] = q[k]
            /\ r[Len(r)] = e
            /\ LastOf(r) = e.bar
        <5> DEFINE p == Noted(q, e)
        <5>1. /\ LastOf(q) \in 0 .. LastBar /\ (Len(q) = 0 => LastOf(q) = 0)
              /\ p \in Seq(Looked)
              /\ Len(p) = IF LastOf(q) = e.bar THEN Len(q) ELSE Len(q) + 1
              /\ Len(p) > 0
              /\ \A k \in 1 .. Len(q) : k < Len(p) => p[k] = q[k]
              /\ p[Len(p)] = e
              /\ LastOf(p) = e.bar
          BY <2>1, <4>1, NotedIs
        <5>2. p = r
          BY <4>1
        <5> HIDE DEF p
        <5> QED
          BY <5>1, <5>2
      <4> QED
        BY <4>1, <4>2
    <3> HIDE DEF q, r, s, side, at
    <3>3. Len(q) \in Nat /\ Len(r) \in Nat
      BY <2>1, <3>2
    <3>4. SidesOf(r)[Len(r)] = side
      BY <3>2, <3>3 DEF SidesOf
    <3>5. \A k \in 1 .. Len(q) : k < Len(r) => SidesOf(r)[k] = SidesOf(q)[k]
      <4>1. \A k \in 1 .. Len(q) : k < Len(r) => k \in 1 .. Len(r)
        BY <3>3
      <4> QED
        BY <3>2, <4>1 DEF SidesOf
    <3>6. Fits(AfterBar(s, side, at), Len(r), SidesOf(r), at)
      <4> DEFINE n == Len(q)
                 m == Len(r)
                 f == SidesOf(q)
                 g == SidesOf(r)
                 last == LastOf(q)
      <4>1. /\ n \in Nat /\ m \in Nat /\ last \in 0 .. LastBar
            /\ Fits(s, n, f, last) /\ (n = 0 => last = 0)
            /\ m = IF last = at THEN n ELSE n + 1
            /\ \A k \in 1 .. n : k < m => g[k] = f[k]
            /\ g[m] = side
        BY <2>2, <3>2, <3>3, <3>4, <3>5
      <4> HIDE DEF n, m, f, g, last
      <4>2. Fits(AfterBar(s, side, at), m, g, at)
        BY <1>3, <2>1, <4>1, AfterBarFits
      <4> QED
        BY <4>2 DEF m, g
    <3>7. Fits(streak'[source], Len(r), SidesOf(r), LastOf(r))
      BY <3>1, <3>2, <3>6
    <3> QED
      BY <3>7 DEF r, Fits, SidesOf, LastOf
  <2>4. CASE source \notin able
    <3>1. r = q /\ streak'[source] = AfterLook(source, able)
      BY <1>1, <2>1, <2>4
    <3>2. \/ streak'[source] = s
          \/ streak'[source].side = NoSide /\ streak'[source].count = 0 /\ streak'[source].bar = s.bar
      BY <1>2, <2>1, <2>4, <3>1, AfterLookIs
    <3> HIDE DEF q, s
    <3>3. Len(q) \in Nat
      BY <2>1
    <3>4. Fits(streak'[source], Len(q), SidesOf(q), LastOf(q))
      BY <2>2, <3>2, <3>3 DEF Fits
    <3>5. looks'[source] = q
      BY <3>1 DEF r
    <3> QED
      BY <3>4, <3>5 DEF Fits, SidesOf, LastOf
  <2> QED
    BY <2>3, <2>4
<1>11. Asks' = Asks
  BY <1>2 DEF Asks
<1> QED
  BY <1>9, <1>10, <1>11 DEF StreaksInv

LEMMA StreaksReset == ASSUME StreaksInv, ResetSignals PROVE StreaksInv'
<1>1. NoStreak \in Streaks
  BY DEF NoStreak, Streaks, Opinions
<1>2. SignalsTypeOK'
  BY <1>1 DEF ResetSignals, Broken, StreaksInv, SignalsTypeOK
<1>3. \A source \in Sources : streak'[source] = NoStreak /\ looks'[source] = looks[source]
  BY DEF ResetSignals
<1>4. Asks' = Asks /\ Asks \subseteq Sources
  BY AsksOfMode DEF ResetSignals, Asks, StreaksInv
<1>5. ASSUME NEW source \in Asks
      PROVE  Fits(streak[source], Len(looks[source]), SidesOf(looks[source]), LastOf(looks[source]))'
  <2>1. Len(looks[source]) \in Nat
    BY <1>4 DEF StreaksInv, SignalsTypeOK
  <2> QED
    BY <1>3, <1>4, <2>1 DEF Fits, NoStreak
<1> QED
  BY <1>2, <1>4, <1>5 DEF StreaksInv

LEMMA StreaksReconfigure == ASSUME StreaksInv, Reconfigure PROVE StreaksInv'
<1>1. config' \in [mode : SignalModes, logic : Logics, side : Sides] /\ config'.mode = config.mode
  BY DEF Reconfigure, StreaksInv, SignalsTypeOK
<1>2. NoSignal \in [side : Opinions, bar : 0 .. LastBar]
  BY DEF NoSignal, Opinions
<1>3. SignalsTypeOK'
  BY <1>1, <1>2 DEF Reconfigure, StreaksInv, SignalsTypeOK
<1>4. Asks' = Asks /\ streak' = streak /\ looks' = looks
  BY <1>1 DEF Reconfigure, Asks
<1> QED
  BY <1>3, <1>4 DEF StreaksInv

LEMMA StreaksRestart == ASSUME StreaksInv, Restart PROVE StreaksInv'
<1>1. NoStreak \in Streaks /\ NoSignal \in [side : Opinions, bar : 0 .. LastBar]
  BY DEF NoStreak, NoSignal, Streaks, Opinions
<1>2. SignalsTypeOK'
  <2>1. <<>> \in Seq([bar : 1 .. LastBar, side : Opinions])
    BY EmptySeq
  <2> QED
    BY <1>1, <2>1 DEF Restart, StreaksInv, SignalsTypeOK
<1>3. \A source \in Sources : streak'[source] = NoStreak /\ looks'[source] = <<>>
  BY DEF Restart
<1>4. Asks' = Asks /\ Asks \subseteq Sources
  BY AsksOfMode DEF Restart, Asks, StreaksInv
<1> QED
  BY <1>2, <1>3, <1>4 DEF StreaksInv, Fits, NoStreak, LastOf

LEMMA StreaksInvariant == SignalsSpec => []StreaksInv
<1>1. StreaksInv /\ [SignalsNext]_signalsVars => StreaksInv'
  <2> SUFFICES ASSUME StreaksInv, [SignalsNext]_signalsVars PROVE StreaksInv'
    OBVIOUS
  <2>1. CASE UNCHANGED signalsVars
    <3>1. SignalsTypeOK'
      BY <2>1 DEF signalsVars, StreaksInv, SignalsTypeOK
    <3>2. Asks' = Asks /\ streak' = streak /\ looks' = looks
      BY <2>1 DEF signalsVars, Asks
    <3> QED
      BY <3>1, <3>2 DEF StreaksInv
  <2> QED
    BY <2>1, StreaksNewBar, StreaksLook, StreaksReset, StreaksReconfigure, StreaksRestart
    DEF SignalsNext
<1> QED
  BY <1>1, SignalsStart, PTL DEF SignalsSpec

\* Every variable keeps its type.
THEOREM SignalTypes == SignalsSpec => []SignalsTypeOK
<1>1. StreaksInv => SignalsTypeOK
  BY DEF StreaksInv
<1> QED
  BY <1>1, StreaksInvariant, PTL

\* Whatever the configuration, however often a bar is looked at and whatever is closed in
\* between, a streak of the live manager is a run of the opinions it was given last.
THEOREM StreaksHold == SignalsSpec => []StreaksAreEarned
<1>1. StreaksInv => StreaksAreEarned
  <2> SUFFICES ASSUME StreaksInv, NEW source \in Asks
               PROVE  /\ streak[source].count <= Len(looks[source])
                      /\ \A k \in Len(looks[source]) - streak[source].count + 1 .. Len(looks[source]) :
                           looks[source][k].side = streak[source].side
    BY DEF StreaksAreEarned
  <2>1. Len(looks[source]) \in Nat /\ streak[source].count \in Nat
    <3>1. source \in Sources /\ streak[source] \in Streaks
      BY AsksOfMode DEF StreaksInv, SignalsTypeOK
    <3> QED
      BY <3>1 DEF StreaksInv, SignalsTypeOK, Streaks
  <2>2. Fits(streak[source], Len(looks[source]), SidesOf(looks[source]), LastOf(looks[source]))
    BY DEF StreaksInv
  <2>3. ASSUME NEW k \in Len(looks[source]) - streak[source].count + 1 .. Len(looks[source])
        PROVE  looks[source][k].side = streak[source].side
    <3>1. k \in 1 .. Len(looks[source]) /\ SidesOf(looks[source])[k] = streak[source].side
      BY <2>1, <2>2 DEF Fits
    <3> QED
      BY <3>1 DEF SidesOf
  <2> QED
    BY <2>2, <2>3 DEF Fits
<1> QED
  BY <1>1, StreaksInvariant, PTL

-----------------------------------------------------------------------------
(* Signals against the backtest.  Which function Replay is can be said     *)
(* bar by bar: every solution of its equation for the closed bars, taken   *)
(* up to the bar before, is one for the bars before.                       *)

\* f is the loop of the backtest over the closed bars.
IsReplay(f) ==
  f = [i \in 0 .. Len(closed) |-> IF i = 0 THEN ReplayStart ELSE ReplayStep(f[i - 1], closed[i])]

\* Who decides, with indicators or model alone, and its streak.
Deciding == IF config.mode = "ml" THEN "ml" ELSE "ind"
Running == streak[Deciding]

\* The streak of the backtest at a place r of the loop, as the live manager would count
\* it: it takes a side that is not allowed for none before it counts, the backtest
\* afterwards.
Shadow(r) ==
  IF config.mode = "ml"
  THEN [side |-> Allowed(r.ml.side),
        count |-> IF Allowed(r.ml.side) = r.ml.side THEN r.ml.count ELSE 0]
  ELSE r.ind

\* The live streak s counts no more bars than the streak t of the backtest, and of its side.
Trails(s, t) ==
  /\ t.count \in Nat /\ (t.side # NoSide => t.count > 0)
  /\ s.count <= t.count
  /\ s.count = 0 => s.side = NoSide
  /\ s.count > 0 => s.side = t.side

Same(s, t) == s.side = t.side /\ s.count = t.count

\* What a streak leads to.
Enters(t) ==
  IF config.mode = "ml" THEN Confirmed(t, MlNeed) ELSE Allowed(Confirmed(t, Need))

\* A function that is the loop, against the live streak s, that has come to bar at, and
\* against what the live manager went on with.
Agrees(f, s, at) ==
  /\ Trails(s, Shadow(f[at]))
  /\ breaks = {} => Same(s, Shadow(f[at]))
  /\ signal.bar > 0 => /\ signal.side \in {NoSide, f[signal.bar].enter}
                       /\ breaks = {} => signal.side = f[signal.bar].enter

\* The live manager has looked at the last bar or at the one before.
InStep ==
  /\ config.mode \in {"indicators", "ml"}
  /\ LastSeen(Deciding) \in {Len(closed) - 1, Len(closed)}
  /\ Running.bar \in {0, LastSeen(Deciding)}
  /\ Running.bar = 0 => Running.count = 0
  /\ breaks = {} => Running.bar = LastSeen(Deciding)
  /\ signal.bar \in 0 .. Len(closed)
  /\ \E f : IsReplay(f)
  /\ \A f : IsReplay(f) => Agrees(f, Running, LastSeen(Deciding))

LEMMA AllowedOrNone ==
  ASSUME NEW side
  PROVE  Allowed(side) \in {side, NoSide}
  BY DEF Allowed

\* A turn of the loop counts the opinion of who decides like the live manager does.
LEMMA LoopCounts ==
  ASSUME config.mode \in {"indicators", "ml"}, NEW r, NEW v
  PROVE  /\ Shadow(ReplayStep(r, v)).side = Opinion(Deciding, v)
         /\ Shadow(ReplayStep(r, v)).count
              = Lengthen(Shadow(r).count, Opinion(Deciding, v), Shadow(r).side)
<1>1. CASE config.mode = "indicators"
  BY <1>1 DEF Shadow, Deciding, Opinion, ReplayStep, Extend
<1>2. CASE config.mode = "ml"
  <2> DEFINE w == Allowed(v.ml)
             t == Shadow(r)
  <2>1. Opinion(Deciding, v) = w
    BY <1>2 DEF Deciding, Opinion, MlVerdict
  <2>2. /\ t.side = Allowed(r.ml.side)
        /\ t.count = IF Allowed(r.ml.side) = r.ml.side THEN r.ml.count ELSE 0
    BY <1>2 DEF Shadow
  <2>3. w \in {v.ml, NoSide} /\ Allowed(r.ml.side) \in {r.ml.side, NoSide}
    BY AllowedOrNone
  <2>4. r.ml.side = v.ml => Allowed(r.ml.side) = w
    OBVIOUS
  <2>5. /\ ReplayStep(r, v).ml.side = v.ml
        /\ ReplayStep(r, v).ml.count = Lengthen(r.ml.count, v.ml, r.ml.side)
    BY <1>2 DEF ReplayStep, Extend
  <2>6. /\ Shadow(ReplayStep(r, v)).side = w
        /\ Shadow(ReplayStep(r, v)).count
             = IF w = v.ml THEN Lengthen(r.ml.count, v.ml, r.ml.side) ELSE 0
    BY <1>2, <2>5 DEF Shadow
  <2> HIDE DEF w, t
  <2>7. Lengthen(t.count, w, t.side)
          = IF w = v.ml THEN Lengthen(r.ml.count, v.ml, r.ml.side) ELSE 0
    <3>1. CASE w = NoSide
      BY <3>1 DEF Lengthen
    <3>2. CASE w # NoSide
      <4>1. w = v.ml
        BY <2>3, <3>2
      <4>2. CASE r.ml.side = v.ml
        BY <2>2, <2>4, <3>2, <4>1, <4>2 DEF Lengthen
      <4>3. CASE r.ml.side # v.ml
        <5>1. t.side # v.ml
          BY <2>2, <2>3, <3>2, <4>1, <4>3
        <5> QED
          BY <3>2, <4>1, <4>3, <5>1 DEF Lengthen
      <4> QED
        BY <4>2, <4>3
    <3> QED
      BY <3>1, <3>2
  <2> QED
    BY <2>1, <2>6, <2>7 DEF t
<1> QED
  BY <1>1, <1>2

\* A look at a new bar, or the first one after a close, does what the loop does.
LEMMA FirstLookTrails ==
  ASSUME NEW s \in Streaks, NEW t, NEW w \in Opinions, NEW n \in 1 .. LastBar, NEW u,
         s.bar # n, Trails(s, t),
         u.side = w, u.count = Lengthen(t.count, w, t.side)
  PROVE  /\ Trails(AfterBar(s, w, n), u)
         /\ Same(s, t) => Same(AfterBar(s, w, n), u)
<1> DEFINE a == AfterBar(s, w, n)
<1>1. s.count \in Nat /\ t.count \in Nat
  BY DEF Streaks, Trails
<1>2. a.side = w /\ a.count = Lengthen(s.count, w, s.side)
  BY AfterBarIs
<1> HIDE DEF a
<1>3. CASE w = NoSide
  <2>1. a.count = 0 /\ u.count = 0
    BY <1>1, <1>2, <1>3, LengthenIsNat
  <2> QED
    BY <1>2, <1>3, <2>1 DEF Trails, Same, a
<1>4. CASE w # NoSide
  <2>1. CASE w = s.side
    <3>1. s.count > 0 /\ w = t.side
      BY <1>1, <1>4, <2>1 DEF Trails
    <3>2. a.count = s.count + 1 /\ u.count = t.count + 1
      BY <1>1, <1>2, <1>4, <2>1, <3>1, LengthenIsNat
    <3> QED
      BY <1>1, <1>2, <3>2 DEF Trails, Same, a
  <2>2. CASE w # s.side
    <3>1. a.count = 1 /\ u.count \in Nat /\ u.count >= 1
      BY <1>1, <1>2, <1>4, <2>2, LengthenIsNat
    <3>2. Same(s, t) => u.count = 1
      BY <1>1, <1>4, <2>2, LengthenIsNat DEF Same
    <3> QED
      BY <1>2, <3>1, <3>2 DEF Trails, Same, a
  <2> QED
    BY <2>1, <2>2
<1> QED
  BY <1>3, <1>4

\* Another look at a bar that the loop, at t, has been through as well.
LEMMA NextLookTrails ==
  ASSUME NEW s \in Streaks, NEW t, NEW w \in Opinions, NEW n \in 1 .. LastBar,
         s.bar = n \/ s.count = 0, Trails(s, t), t.side = w
  PROVE  /\ Trails(AfterBar(s, w, n), t)
         /\ s.bar = n /\ Same(s, t) => Same(AfterBar(s, w, n), t)
<1> DEFINE a == AfterBar(s, w, n)
<1>1. s.count \in Nat /\ t.count \in Nat
  BY DEF Streaks, Trails
<1>2. a.side = w
  BY AfterBarIs
<1>3. CASE s.bar = n /\ w = s.side
  <2>1. a = s
    BY <1>3, AfterBarIs
  <2> QED
    BY <2>1
<1>4. CASE s.bar = n /\ w # s.side
  <2>1. a.count = IF w = NoSide THEN 0 ELSE 1
    BY <1>4, AfterBarIs
  <2>2. ~Same(s, t)
    BY <1>4 DEF Same
  <2> HIDE DEF a
  <2> QED
    BY <1>1, <1>2, <2>1, <2>2 DEF Trails, a
<1>5. CASE s.bar # n
  <2>1. s.count = 0 /\ s.side = NoSide
    BY <1>5 DEF Trails
  <2>2. a.count = Lengthen(s.count, w, s.side)
    BY <1>5, AfterBarIs
  <2>3. a.count = IF w = NoSide THEN 0 ELSE 1
    BY <1>1, <2>1, <2>2, LengthenIsNat
  <2> HIDE DEF a
  <2> QED
    BY <1>1, <1>2, <1>5, <2>3 DEF Trails, a
<1> QED
  BY <1>3, <1>4, <1>5

\* The loop enters with what its streak leads to.
LEMMA LoopEnters ==
  ASSUME config.mode \in {"indicators", "ml"}, NEW r, NEW v
  PROVE  ReplayStep(r, v).enter = Enters(Shadow(ReplayStep(r, v)))
<1>1. CASE config.mode = "indicators"
  BY <1>1 DEF Enters, Shadow, ReplayStep
<1>2. CASE config.mode = "ml"
  <2> DEFINE x == ReplayStep(r, v).ml
             t == Shadow(ReplayStep(r, v))
  <2>1. ReplayStep(r, v).enter = Allowed(Confirmed(x, MlNeed))
    BY <1>2 DEF ReplayStep
  <2>2. /\ t.side = Allowed(x.side)
        /\ t.count = IF Allowed(x.side) = x.side THEN x.count ELSE 0
    BY <1>2 DEF Shadow
  <2>3. Enters(t) = Confirmed(t, MlNeed)
    BY <1>2 DEF Enters
  <2> HIDE DEF x, t
  <2>4. Allowed(x.side) \in {x.side, NoSide} /\ Allowed(NoSide) = NoSide
    BY AllowedOrNone
  <2>5. ~(0 >= MlNeed)
    OBVIOUS
  <2>6. ReplayStep(r, v).enter = Enters(t)
    BY <2>1, <2>2, <2>3, <2>4, <2>5 DEF Confirmed
  <2> QED
    BY <2>6 DEF t
<1> QED
  BY <1>1, <1>2

\* A streak that trails leads to the same side or to none.
LEMMA TrailingEnters ==
  ASSUME NEW s \in Streaks, NEW t, Trails(s, t)
  PROVE  /\ Enters(s) \in {NoSide, Enters(t)}
         /\ Same(s, t) => Enters(s) = Enters(t)
<1>1. s.count \in Nat /\ t.count \in Nat
  BY DEF Streaks, Trails
<1>2. ASSUME NEW need \in Nat \ {0}
      PROVE  /\ Confirmed(s, need) \in {NoSide, Confirmed(t, need)}
             /\ Same(s, t) => Confirmed(s, need) = Confirmed(t, need)
  BY <1>1, <1>2 DEF Confirmed, Trails, Same
<1>3. Allowed(NoSide) = NoSide
  BY DEF Allowed
<1>4. CASE config.mode = "ml"
  BY <1>2, <1>4 DEF Enters
<1>5. CASE config.mode # "ml"
  BY <1>2, <1>3, <1>5 DEF Enters
<1> QED
  BY <1>4, <1>5

\* A bar closes: the loop goes on from where it stood.
LEMMA ReplayGoesOn ==
  ASSUME SignalsTypeOK, NEW v \in Votes, closed' = Append(closed, v), config' = config,
         \E f : IsReplay(f)
  PROVE  /\ \E f : IsReplay(f)'
         /\ \A g : IsReplay(g)' => \E f : /\ IsReplay(f)
                                          /\ \A i \in 0 .. Len(closed) : g[i] = f[i]
<1> DEFINE n == Len(closed)
<1>1. /\ n \in Nat /\ Len(closed') = n + 1
      /\ \A i \in 1 .. n : closed'[i] = closed[i]
  BY DEF SignalsTypeOK
<1>2. \A b, w : ReplayStep(b, w)' = ReplayStep(b, w)
  BY DEF ReplayStep, Extend, Verdict, CombineSignals, Allowed
<1>3. \A g : IsReplay(g)' <=>
        g = [i \in 0 .. n + 1 |-> IF i = 0 THEN ReplayStart ELSE ReplayStep(g[i - 1], closed'[i])]
  BY <1>1, <1>2 DEF IsReplay, ReplayStart
<1>4. \A f : IsReplay(f) <=>
        f = [i \in 0 .. n |-> IF i = 0 THEN ReplayStart ELSE ReplayStep(f[i - 1], closed[i])]
  BY DEF IsReplay
<1> HIDE DEF n
<1>5. \A i \in 0 .. n + 1 : i # 0 => i - 1 \in 0 .. n
  BY <1>1
<1>6. \A i \in 0 .. n : i \in 0 .. n + 1 /\ (i # 0 => i \in 1 .. n /\ i - 1 \in 0 .. n)
  BY <1>1
<1>7. \E f : IsReplay(f)'
  <2>1. PICK f : IsReplay(f)
    OBVIOUS
  <2> DEFINE g == [i \in 0 .. n + 1 |-> IF i = 0 THEN ReplayStart ELSE ReplayStep(f[i - 1], closed'[i])]
  <2>2. \A i \in 0 .. n : g[i] = f[i]
    <3> SUFFICES ASSUME NEW i \in 0 .. n PROVE g[i] = f[i]
      OBVIOUS
    <3>1. f[i] = IF i = 0 THEN ReplayStart ELSE ReplayStep(f[i - 1], closed[i])
      BY <1>4, <2>1
    <3>2. g[i] = IF i = 0 THEN ReplayStart ELSE ReplayStep(f[i - 1], closed'[i])
      BY <1>6
    <3> QED
      BY <1>1, <1>6, <3>1, <3>2
  <2>3. \A i \in 0 .. n + 1 : i # 0 => g[i - 1] = f[i - 1]
    BY <1>5, <2>2
  <2>4. g = [i \in 0 .. n + 1 |-> IF i = 0 THEN ReplayStart ELSE ReplayStep(g[i - 1], closed'[i])]
    BY <2>3
  <2> HIDE DEF g
  <2>5. PICK h : h = g
    OBVIOUS
  <2>6. h = [i \in 0 .. n + 1 |-> IF i = 0 THEN ReplayStart ELSE ReplayStep(h[i - 1], closed'[i])]
    BY <2>4, <2>5
  <2>7. IsReplay(h)'
    BY <1>3, <2>6
  <2> QED
    BY <2>7, Zenon
<1>8. ASSUME NEW g, IsReplay(g)'
      PROVE  \E f : IsReplay(f) /\ \A i \in 0 .. n : g[i] = f[i]
  <2> DEFINE f == [i \in 0 .. n |-> g[i]]
  <2>1. \A i \in 0 .. n : f[i] = g[i]
    OBVIOUS
  <2>2. ASSUME NEW i \in 0 .. n
        PROVE  g[i] = IF i = 0 THEN ReplayStart ELSE ReplayStep(f[i - 1], closed[i])
    <3>1. g[i] = IF i = 0 THEN ReplayStart ELSE ReplayStep(g[i - 1], closed'[i])
      BY <1>3, <1>6, <1>8
    <3> QED
      BY <1>1, <1>6, <2>1, <3>1
  <2>3. f = [i \in 0 .. n |-> IF i = 0 THEN ReplayStart ELSE ReplayStep(f[i - 1], closed[i])]
    BY <2>2
  <2> HIDE DEF f
  <2>4. PICK h : h = f
    OBVIOUS
  <2>5. h = [i \in 0 .. n |-> IF i = 0 THEN ReplayStart ELSE ReplayStep(h[i - 1], closed[i])]
    BY <2>3, <2>4
  <2>6. IsReplay(h)
    BY <1>4, <2>5
  <2>7. \A i \in 0 .. n : g[i] = h[i]
    BY <2>1, <2>4
  <2> QED
    BY <2>6, <2>7
<1> QED
  BY <1>7, <1>8 DEF n

LEMMA StartsInStep ==
  ASSUME SignalsInit, config.mode \in {"indicators", "ml"}
  PROVE  InStep
<1>1. Len(closed) = 0 /\ Running = NoStreak /\ signal = NoSignal /\ LastSeen(Deciding) = 0
  BY DEF SignalsInit, Running, LastSeen, Deciding, Sources
<1>2. Running.bar = 0 /\ Running.count = 0 /\ signal.bar = 0
  BY <1>1 DEF NoStreak, NoSignal
<1>3. \E f : IsReplay(f)
  <2> DEFINE f == [i \in 0 .. 0 |-> ReplayStart]
  <2>1. f = [i \in 0 .. 0 |-> IF i = 0 THEN ReplayStart ELSE ReplayStep(f[i - 1], closed[i])]
    <3>1. \A i \in 0 .. 0 : i = 0
      OBVIOUS
    <3> QED
      BY <3>1
  <2> HIDE DEF f
  <2> QED
    BY <1>1, <2>1 DEF IsReplay
<1>4. ASSUME NEW f, IsReplay(f) PROVE Agrees(f, Running, 0)
  <2>1. f[0] = ReplayStart
    <3>1. f = [i \in 0 .. 0 |-> IF i = 0 THEN ReplayStart ELSE ReplayStep(f[i - 1], closed[i])]
      BY <1>1, <1>4 DEF IsReplay
    <3>2. 0 \in 0 .. 0
      OBVIOUS
    <3> QED
      BY <3>1, <3>2
  <2>2. Shadow(ReplayStart).side = NoSide /\ Shadow(ReplayStart).count = 0
    BY DEF Shadow, ReplayStart, Allowed
  <2>3. Trails(NoStreak, Shadow(ReplayStart)) /\ Same(NoStreak, Shadow(ReplayStart))
    BY <2>2 DEF Trails, Same, NoStreak
  <2> QED
    BY <1>1, <1>2, <2>1, <2>3 DEF Agrees
<1> QED
  BY <1>1, <1>2, <1>3, <1>4 DEF InStep

LEMMA NewBarInStep ==
  ASSUME SignalsTypeOK, smooth => InStep, NewBar, smooth'
  PROVE  InStep'
<1>1. smooth /\ InStep /\ LastSeen(Deciding) = Len(closed)
  <2>1. smooth /\ InStep /\ \A source \in Asks : LastSeen(source) = Len(closed)
    BY DEF NewBar, SignalsTypeOK
  <2>2. Deciding \in Asks
    BY <2>1, AsksOfMode DEF InStep, Deciding
  <2> QED
    BY <2>1, <2>2
<1>2. PICK v \in Votes : closed' = Append(closed, v)
  BY DEF NewBar, Asked
<1>3. Len(closed) \in Nat /\ Len(closed') = Len(closed) + 1
  BY <1>2 DEF SignalsTypeOK
<1>4. UNCHANGED <<config, streak, looks, signal, breaks>>
  BY <1>1 DEF NewBar
<1>5. UNCHANGED <<Deciding, Running, LastSeen(Deciding)>>
  BY <1>4 DEF Deciding, Running, LastSeen
<1>6. /\ \E f : IsReplay(f)'
      /\ \A g : IsReplay(g)' => \E f : /\ IsReplay(f)
                                       /\ \A i \in 0 .. Len(closed) : g[i] = f[i]
  BY <1>1, <1>2, <1>4, ReplayGoesOn DEF InStep
<1>7. ASSUME NEW g, IsReplay(g)' PROVE Agrees(g, Running, LastSeen(Deciding))'
  <2>1. PICK f : IsReplay(f) /\ \A i \in 0 .. Len(closed) : g[i] = f[i]
    BY <1>6, <1>7
  <2>2. Agrees(f, Running, LastSeen(Deciding))
    BY <1>1, <2>1 DEF InStep
  <2>3. g[LastSeen(Deciding)] = f[LastSeen(Deciding)] /\ g[signal.bar] = f[signal.bar]
    BY <1>1, <1>3, <2>1 DEF InStep
  <2>4. Agrees(g, Running, LastSeen(Deciding))
    BY <2>2, <2>3 DEF Agrees
  <2> QED
    BY <1>4, <1>5, <2>4 DEF Agrees, Trails, Same, Shadow, Allowed
<1>8. LastSeen(Deciding)' \in {Len(closed') - 1, Len(closed')}
  BY <1>1, <1>3, <1>5
<1>9. signal'.bar \in 0 .. Len(closed')
  BY <1>1, <1>3, <1>4 DEF InStep
<1> QED
  BY <1>1, <1>4, <1>5, <1>6, <1>7, <1>8, <1>9 DEF InStep

LEMMA ResetInStep ==
  ASSUME SignalsTypeOK, InStep, smooth, ResetSignals
  PROVE  InStep'
<1>1. UNCHANGED <<config, closed, signal, looks>> /\ streak' = [source \in Sources |-> NoStreak]
      /\ breaks' # {}
  BY DEF ResetSignals, Broken
<1>2. UNCHANGED <<Deciding, LastSeen(Deciding)>> /\ Running' = NoStreak
  BY <1>1 DEF Deciding, LastSeen, Running, Sources
<1>3. \A f : IsReplay(f)' <=> IsReplay(f)
  BY <1>1 DEF IsReplay, ReplayStart, ReplayStep, Extend, Verdict, CombineSignals, Allowed
<1>4. ASSUME NEW f, IsReplay(f) PROVE Agrees(f, Running, LastSeen(Deciding))'
  <2>1. Agrees(f, Running, LastSeen(Deciding))
    BY <1>4 DEF InStep
  <2>2. \A r : Shadow(r)' = Shadow(r)
    BY <1>1 DEF Shadow, Allowed
  <2>3. Trails(NoStreak, Shadow(f[LastSeen(Deciding)]))
    BY <2>1 DEF Agrees, Trails, NoStreak
  <2>4. Trails(Running', Shadow(f[LastSeen(Deciding)])')
    BY <1>2, <2>2, <2>3
  <2> QED
    BY <1>1, <1>2, <2>1, <2>2, <2>4 DEF Agrees, Trails
<1>5. Running'.bar = 0 /\ Running'.count = 0
  BY <1>2 DEF NoStreak
<1> QED
  BY <1>1, <1>2, <1>3, <1>4, <1>5 DEF InStep

LEMMA LookInStep ==
  ASSUME SignalsTypeOK, InStep, smooth, Look
  PROVE  InStep'
<1> DEFINE n == Len(closed)
           v == closed[n]
           w == Opinion(Deciding, v)
           at == LastSeen(Deciding)
<1>1. PICK able \in SUBSET Asks :
        /\ streak' = [source \in Sources |-> AfterLook(source, able)]
        /\ signal' = [side |-> Side([source \in Sources |-> AfterLook(source, able)], able),
                      bar |-> n]
        /\ looks' = [source \in Sources |->
                       IF source \in able
                       THEN Noted(looks[source], [bar |-> n, side |-> Opinion(source, v)])
                       ELSE looks[source]]
        /\ breaks' = IF able = Asks THEN breaks ELSE Broken("blind")
  BY DEF Look
<1>2. closed # <<>> /\ UNCHANGED <<config, closed, smooth>>
  BY DEF Look
<1>3. config.mode \in {"indicators", "ml"} /\ Asks = {Deciding} /\ Deciding \in Sources
  BY AsksOfMode DEF InStep, Deciding, Sources
<1>4. /\ n \in 1 .. LastBar /\ v \in Votes /\ w \in Opinions
      /\ Deciding' = Deciding
      /\ Running' = AfterLook(Deciding, able) /\ Running \in Streaks /\ Running' \in Streaks
  BY <1>1, <1>2, <1>3, AfterLookIs DEF Running, Deciding, SignalsTypeOK
<1>5. signal'.bar = n /\ signal'.side = IF Deciding \in able THEN Enters(Running') ELSE NoSide
  <2> DEFINE s == [source \in Sources |-> AfterLook(source, able)]
  <2>1. signal' = [side |-> Side(s, able), bar |-> n] /\ Running' = s[Deciding]
    BY <1>1, <1>3, <1>4
  <2>2. config.mode = "indicators" /\ Deciding \notin able => s["ind"].count = 0
    BY <1>2, <1>3, AfterLookIs DEF Deciding
  <2> HIDE DEF s
  <2>3. ~(0 >= Need) /\ Allowed(NoSide) = NoSide
    BY DEF Allowed
  <2>4. Side(s, able) = IF Deciding \in able THEN Enters(s[Deciding]) ELSE NoSide
    <3>1. CASE config.mode = "indicators"
      BY <2>2, <2>3, <3>1 DEF Side, Enters, Deciding, Confirmed
    <3>2. CASE config.mode = "ml"
      BY <3>2 DEF Side, Enters, Deciding
    <3> QED
      BY <1>3, <3>1, <3>2
  <2>5. Enters(s[Deciding]) = Enters(Running')
    BY <2>1
  <2> QED
    BY <2>1, <2>4, <2>5
<1>6. \A f : IsReplay(f)' <=> IsReplay(f)
  BY <1>2 DEF IsReplay, ReplayStart, ReplayStep, Extend, Verdict, CombineSignals, Allowed
<1>7. /\ \E f : IsReplay(f)
      /\ at \in {n - 1, n} /\ Running.bar \in {0, at} /\ (Running.bar = 0 => Running.count = 0)
      /\ breaks = {} => Running.bar = at
      /\ \A f : IsReplay(f) => Agrees(f, Running, at)
  BY DEF InStep
<1>8. \A f : IsReplay(f) => f[n] = ReplayStep(f[n - 1], v)
  <2> SUFFICES ASSUME NEW f, IsReplay(f) PROVE f[n] = ReplayStep(f[n - 1], v)
    OBVIOUS
  <2>1. f = [i \in 0 .. n |-> IF i = 0 THEN ReplayStart ELSE ReplayStep(f[i - 1], closed[i])]
    BY DEF IsReplay
  <2>2. n \in 0 .. n /\ n # 0
    BY <1>4
  <2>3. f[n] = IF n = 0 THEN ReplayStart ELSE ReplayStep(f[n - 1], closed[n])
    BY <2>1, <2>2
  <2> QED
    BY <2>2, <2>3
<1>9. LastSeen(Deciding)' = IF Deciding \in able THEN n ELSE at
  <2>1. CASE Deciding \in able
    <3> DEFINE e == [bar |-> n, side |-> w]
               q == looks[Deciding]
    <3>1. e \in Looked /\ q \in Seq(Looked)
      BY <1>3, <1>4 DEF Looked, SignalsTypeOK
    <3>2. looks'[Deciding] = Noted(q, e) /\ e.bar = n
      BY <1>1, <1>3, <2>1
    <3> HIDE DEF e, q, n
    <3>3. LastOf(Noted(q, e)) = n
      BY <3>1, <3>2, NotedIs
    <3>4. LastSeen(Deciding)' = LastOf(looks'[Deciding])
      BY <1>4 DEF LastSeen, LastOf
    <3> QED
      BY <2>1, <3>2, <3>3, <3>4
  <2>2. CASE Deciding \notin able
    <3>1. looks'[Deciding] = looks[Deciding]
      BY <1>1, <1>3, <2>2
    <3> QED
      BY <1>4, <2>2, <3>1 DEF LastSeen
  <2> QED
    BY <2>1, <2>2
<1>10. breaks' = {} => Deciding \in able /\ breaks = {}
  BY <1>1, <1>3 DEF Broken
<1> HIDE DEF n, v, w, at
<1>11. CASE Deciding \in able
  <2>1. Running' = AfterBar(Running, w, n) /\ breaks' = breaks
    <3>1. able = Asks
      BY <1>3, <1>11
    <3> QED
      BY <1>1, <1>2, <1>3, <1>4, <1>11, <3>1, AfterLookIs DEF Running, n, w, v
  <2>2. Running'.bar = n
    BY <1>4, <2>1, AfterBarIs
  <2>3. ASSUME NEW f, IsReplay(f)
        PROVE  /\ Trails(Running', Shadow(f[n]))
               /\ breaks = {} => Same(Running', Shadow(f[n]))
    <3> DEFINE t == Shadow(f[n])
               u == Shadow(f[n - 1])
    <3>1. t.side = w /\ t.count = Lengthen(u.count, w, u.side)
      BY <1>3, <1>8, <2>3, LoopCounts DEF w
    <3>2. Trails(Running, Shadow(f[at])) /\ (breaks = {} => Same(Running, Shadow(f[at])))
      BY <1>7, <2>3 DEF Agrees
    <3> HIDE DEF t, u
    <3>3. CASE at = n - 1
      <4>1. Trails(Running, u) /\ (breaks = {} => Same(Running, u)) /\ Running.bar # n
        BY <1>4, <1>7, <3>2, <3>3 DEF u
      <4>2. Trails(Running', t) /\ (Same(Running, u) => Same(Running', t))
        BY <1>4, <2>1, <3>1, <4>1, FirstLookTrails
      <4> QED
        BY <4>1, <4>2 DEF t
    <3>4. CASE at = n
      <4>1. Trails(Running, t) /\ (breaks = {} => Same(Running, t))
            /\ (Running.bar = n \/ Running.count = 0) /\ (breaks = {} => Running.bar = n)
        BY <1>7, <3>2, <3>4 DEF t
      <4>2. Trails(Running', t) /\ (Running.bar = n /\ Same(Running, t) => Same(Running', t))
        BY <1>4, <2>1, <3>1, <4>1, NextLookTrails
      <4> QED
        BY <4>1, <4>2 DEF t
    <3> QED
      BY <1>7, <3>3, <3>4
  <2>4. ASSUME NEW f, IsReplay(f)
        PROVE  Agrees(f, Running, LastSeen(Deciding))'
    <3>1. Trails(Running', Shadow(f[n])) /\ (breaks = {} => Same(Running', Shadow(f[n])))
      BY <2>3, <2>4
    <3>2. f[n].enter = Enters(Shadow(f[n]))
      BY <1>3, <1>8, <2>4, LoopEnters
    <3>3. /\ Enters(Running') \in {NoSide, f[n].enter}
          /\ breaks = {} => Enters(Running') = f[n].enter
      BY <1>4, <3>1, <3>2, TrailingEnters
    <3>4. LastSeen(Deciding)' = n
      BY <1>9, <1>11
    <3> QED
      BY <1>2, <1>5, <1>11, <2>1, <3>1, <3>3, <3>4 DEF Agrees, Trails, Same, Shadow, Allowed
  <2> QED
    BY <1>2, <1>3, <1>4, <1>5, <1>6, <1>7, <1>9, <1>11, <2>2, <2>4 DEF InStep, n
<1>12. CASE Deciding \notin able
  <2>1. \/ Running' = Running
        \/ Running'.side = NoSide /\ Running'.count = 0 /\ Running'.bar = Running.bar
    BY <1>2, <1>3, <1>4, <1>12, AfterLookIs DEF Running
  <2>2. breaks' # {}
    BY <1>10, <1>12
  <2>3. ASSUME NEW f, IsReplay(f) PROVE Agrees(f, Running, LastSeen(Deciding))'
    <3>1. Trails(Running, Shadow(f[at]))
      BY <1>7, <2>3 DEF Agrees
    <3>2. Trails(Running', Shadow(f[at]))
      BY <2>1, <3>1 DEF Trails
    <3>3. LastSeen(Deciding)' = at
      BY <1>9, <1>12
    <3> QED
      BY <1>2, <1>5, <1>12, <2>2, <3>2, <3>3 DEF Agrees, Trails, Shadow, Allowed
  <2>4. Running'.bar = Running.bar /\ (Running'.count = 0 \/ Running' = Running)
    BY <2>1
  <2> QED
    BY <1>2, <1>3, <1>4, <1>5, <1>6, <1>7, <1>9, <1>12, <2>2, <2>3, <2>4 DEF InStep, n
<1> QED
  BY <1>11, <1>12

SmoothInStep == smooth => InStep

LEMMA StepInStep ==
  ASSUME SignalsTypeOK, SmoothInStep, [SignalsNext]_signalsVars
  PROVE  SmoothInStep'
<1>1. CASE NewBar
  BY <1>1, NewBarInStep DEF SmoothInStep
<1>2. CASE Look
  <2>1. smooth' = smooth
    BY <1>2 DEF Look
  <2> QED
    BY <1>2, <2>1, LookInStep DEF SmoothInStep
<1>3. CASE ResetSignals
  <2>1. smooth' = smooth
    BY <1>3 DEF ResetSignals
  <2> QED
    BY <1>3, <2>1, ResetInStep DEF SmoothInStep
<1>4. CASE Reconfigure \/ Restart
  BY <1>4 DEF Reconfigure, Restart, SmoothInStep
<1>5. CASE UNCHANGED signalsVars
  <2>1. \A f : IsReplay(f)' <=> IsReplay(f)
    BY <1>5 DEF signalsVars, IsReplay, ReplayStart, ReplayStep, Extend, Verdict, CombineSignals,
                Allowed
  <2>2. UNCHANGED <<smooth, config, closed, streak, looks, signal, breaks>>
    BY <1>5 DEF signalsVars
  <2>3. UNCHANGED <<Deciding, Running, LastSeen(Deciding)>>
    BY <2>2 DEF Deciding, Running, LastSeen
  <2>4. \A f : Agrees(f, Running, LastSeen(Deciding))' <=> Agrees(f, Running, LastSeen(Deciding))
    BY <2>2, <2>3 DEF Agrees, Trails, Same, Shadow, Allowed
  <2> QED
    BY <2>1, <2>2, <2>3, <2>4 DEF SmoothInStep, InStep
<1> QED
  BY <1>1, <1>2, <1>3, <1>4, <1>5 DEF SignalsNext

\* With indicators or model alone the live manager goes on, after bars that were all
\* looked at under one configuration, with the side the backtest enters with or, after a
\* close or a look without bars, with none, for any thresholds, confirmations and number
\* of bars.
THEOREM ReplayHolds ==
  ASSUME "indicators_ml" \notin SignalModes
  PROVE  SignalsSpec => []LiveIsReplayed
<1>1. SignalsInit => SmoothInStep
  <2> SUFFICES ASSUME SignalsInit PROVE InStep
    BY DEF SmoothInStep
  <2>1. config.mode \in {"indicators", "ml"}
    BY DEF SignalsInit
  <2> QED
    BY <2>1, StartsInStep
<1>2. SignalsTypeOK /\ SmoothInStep /\ [SignalsNext]_signalsVars => SmoothInStep'
  BY StepInStep
<1>3. SmoothInStep => LiveIsReplayed
  <2> SUFFICES ASSUME InStep, signal.bar > 0, signal.bar = Len(closed)
               PROVE  /\ signal.side \in {NoSide, Replay[Len(closed)].enter}
                      /\ breaks = {} => signal.side = Replay[Len(closed)].enter
    BY DEF SmoothInStep, LiveIsReplayed, AtTheLastBar
  <2>1. \E f : IsReplay(f)
    BY DEF InStep
  <2>2. IsReplay(Replay)
    BY <2>1 DEF IsReplay, Replay
  <2> QED
    BY <2>2 DEF InStep, Agrees
<1> QED
  BY <1>1, <1>2, <1>3, SignalTypes, PTL DEF SignalsSpec
=============================================================================
