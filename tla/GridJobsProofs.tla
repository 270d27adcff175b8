--------------------------- MODULE GridJobsProofs ---------------------------
(***************************************************************************)
(* Proofs about GridJobs, for any set of jobs and of workers.  The type    *)
(* invariant needs to know that a worker with an order under way holds a   *)
(* job and the price of a tick: else a 0 could enter the prices opened.    *)
(* That a job opens no more orders than it should, each the spacing from   *)
(* the last one, needs four facts more: the lists name a job once, a job   *)
(* is nowhere before its request is over, the orders in flight fit beside  *)
(* those that remain, and the price of a job is that of its last order.    *)
(***************************************************************************)
EXTENDS GridJobs, SequenceTheorems, FiniteSetTheorems, TLAPS

USE GridJobsAssumption

\* What is under way has a job and a price.
UnderWay ==
  /\ \A w \in Workers : worker[w].pc # "idle" => worker[w].job \in Jobs /\ worker[w].price \in Prices
  /\ \A j \in Jobs : request[j].pc \in {"open", "opened"} => request[j].price \in Prices

IInv == GridTypeOK /\ UnderWay

LEMMA RestingIsAState == Resting \in Errands /\ Resting.pc = "idle"
<1>1. <<>> \in Seq(Jobs)
  BY EmptySeq
<1> QED
  BY <1>1 DEF Resting, Errands, Times

LEMMA InitHolds == GridInit => IInv
<1> SUFFICES ASSUME GridInit PROVE IInv
  OBVIOUS
<1>1. Resting \in Errands /\ Resting.pc = "idle"
  BY RestingIsAState
<1>2. jobs \in Seq(Jobs) /\ opened \in [Jobs -> Seq(Prices)]
  BY EmptySeq DEF GridInit
<1>3. now \in Times /\ job \in [Jobs -> Fields] /\ worker \in [Workers -> Errands]
      /\ spoiled \in [Jobs -> Nat]
  BY <1>1 DEF GridInit, Times, Fields
<1>4. request \in [Jobs -> [pc : {"new", "open", "opened", "over"}, price : Prices \cup {0}]]
  BY DEF GridInit
<1> QED
  BY <1>1, <1>2, <1>3, <1>4 DEF GridInit, IInv, GridTypeOK, UnderWay

LEMMA OneMoreIsANat ==
  ASSUME NEW f \in [Jobs -> Nat], NEW j \in Jobs PROVE [f EXCEPT ![j] = @ + 1] \in [Jobs -> Nat]
  OBVIOUS

\* The loop keeps the types of what it changes.
LEMMA GoOnKeeps ==
  ASSUME IInv, NEW w \in Workers, NEW todo \in Seq(Jobs), NEW price \in Prices,
         NEW time \in Times, NextDue(w, todo, price, time)
  PROVE  /\ worker' \in [Workers -> Errands]
         /\ spoiled' \in [Jobs -> Nat]
         /\ \A v \in Workers :
              worker'[v].pc # "idle" => worker'[v].job \in Jobs /\ worker'[v].price \in Prices
<1> DEFINE due == {i \in DOMAIN todo : Due(todo[i], price, time)}
           shared(j) == j \notin Registered \/ \E v \in Workers \ {w} : worker[v].job = j
<1>1. worker \in [Workers -> Errands] /\ spoiled \in [Jobs -> Nat]
  BY DEF IInv, GridTypeOK
<1>2. CASE due = {}
  BY <1>1, <1>2, RestingIsAState DEF NextDue, IInv, UnderWay
<1>3. CASE due # {}
  <2> DEFINE next(i) == [pc |-> "open", todo |-> SubSeq(todo, i + 1, Len(todo)),
                         job |-> todo[i], price |-> price, time |-> time]
  <2>1. PICK i \in due :
          /\ worker' = [worker EXCEPT ![w] = next(i)]
          /\ spoiled' = IF shared(todo[i]) THEN [spoiled EXCEPT ![todo[i]] = @ + 1] ELSE spoiled
    BY <1>3 DEF NextDue
  <2>2. i \in 1 .. Len(todo) /\ todo[i] \in Jobs
    BY <2>1, ElementOfSeq
  <2>3. SubSeq(todo, i + 1, Len(todo)) \in Seq(Jobs)
    <3>1. \A k \in i + 1 .. Len(todo) : todo[k] \in Jobs
      BY <2>2, ElementOfSeq
    <3> QED
      BY <2>2, <3>1, SubSeqProperties
  <2>4. next(i) \in Errands
    BY <2>2, <2>3 DEF Errands
  <2>5. next(i).job \in Jobs /\ next(i).price \in Prices
    BY <2>2
  <2>6. spoiled' \in [Jobs -> Nat]
    <3>1. [spoiled EXCEPT ![todo[i]] = @ + 1] \in [Jobs -> Nat]
      BY <1>1, <2>2, OneMoreIsANat
    <3>2. spoiled' = [spoiled EXCEPT ![todo[i]] = @ + 1] \/ spoiled' = spoiled
      BY <2>1
    <3> QED
      BY <1>1, <3>1, <3>2
  <2> HIDE DEF next
  <2> QED
    BY <1>1, <2>1, <2>4, <2>5, <2>6 DEF IInv, UnderWay
<1> QED
  BY <1>2, <1>3

\* So does the end of the loop.
LEMMA StopKeeps ==
  ASSUME IInv, NEW w \in Workers, worker' = [worker EXCEPT ![w] = Resting]
  PROVE  /\ worker' \in [Workers -> Errands]
         /\ \A v \in Workers :
              worker'[v].pc # "idle" => worker'[v].job \in Jobs /\ worker'[v].price \in Prices
  BY RestingIsAState DEF IInv, GridTypeOK, UnderWay

LEMMA RemovedIsASeq == ASSUME NEW list \in Seq(Jobs), NEW j PROVE Removed(list, j) \in Seq(Jobs)
<1> DEFINE i == CHOOSE k \in DOMAIN list : list[k] = j
<1>1. CASE \E k \in DOMAIN list : list[k] = j
  <2>1. i \in 1 .. Len(list)
    BY <1>1
  <2>2. \A k \in 1 .. Len(list) : list[k] \in Jobs
    BY ElementOfSeq
  <2> HIDE DEF i
  <2>3. SubSeq(list, 1, i - 1) \in Seq(Jobs)
    BY <2>1, <2>2, SubSeqProperties
  <2>4. SubSeq(list, i + 1, Len(list)) \in Seq(Jobs)
    BY <2>1, <2>2, SubSeqProperties
  <2>5. Removed(list, j) = SubSeq(list, 1, i - 1) \o SubSeq(list, i + 1, Len(list))
    BY <1>1 DEF Removed, i
  <2> QED
    BY <2>3, <2>4, <2>5
<1>2. CASE ~ \E k \in DOMAIN list : list[k] = j
  BY <1>2 DEF Removed
<1> QED
  BY <1>1, <1>2

LEMMA StateFields ==
  ASSUME IInv, NEW w \in Workers, worker[w].pc # "idle"
  PROVE  /\ worker[w].todo \in Seq(Jobs)
         /\ worker[w].job \in Jobs
         /\ worker[w].price \in Prices
         /\ worker[w].time \in Times
  BY DEF IInv, GridTypeOK, UnderWay, Errands

-----------------------------------------------------------------------------
LEMMA RequestKeeps ==
  ASSUME IInv, NEW j \in Jobs, StartJob(j) \/ FirstExecuted(j) \/ Register(j) \/ FirstFails(j)
  PROVE  IInv'
<1> DEFINE R == [pc : {"new", "open", "opened", "over"}, price : Prices \cup {0}]
<1>1. request \in [Jobs -> R]
  BY DEF IInv, GridTypeOK
<1>2. CASE StartJob(j)
  <2>1. PICK p \in Prices : request' = [request EXCEPT ![j] = [pc |-> "open", price |-> p]]
    BY <1>2 DEF StartJob
  <2>2. request' \in [Jobs -> R]
    BY <1>1, <2>1
  <2> QED
    BY <1>1, <1>2, <2>1, <2>2 DEF StartJob, IInv, GridTypeOK, UnderWay
<1>3. CASE FirstExecuted(j)
  <2>1. request[j].price \in Prices
    BY <1>3 DEF FirstExecuted, IInv, UnderWay
  <2>2. opened' \in [Jobs -> Seq(Prices)]
    BY <1>3, <2>1 DEF FirstExecuted, IInv, GridTypeOK
  <2>3. request' = [request EXCEPT ![j].pc = "opened"] /\ request' \in [Jobs -> R]
    BY <1>1, <1>3 DEF FirstExecuted
  <2> QED
    BY <1>1, <1>3, <2>1, <2>2, <2>3 DEF FirstExecuted, IInv, GridTypeOK, UnderWay
<1>4. CASE Register(j)
  <2>1. request' = [request EXCEPT ![j].pc = "over"] /\ request' \in [Jobs -> R]
    BY <1>1, <1>4 DEF Register
  <2>2. jobs' \in Seq(Jobs) /\ job' \in [Jobs -> Fields]
    <3>1. request[j].price \in Prices \cup {0} /\ now \in Times /\ Count - 1 \in Int
      BY <1>1 DEF IInv, GridTypeOK
    <3>2. CASE Count > 1
      <4>1. jobs' = Append(jobs, j)
        BY <1>4, <3>2 DEF Register
      <4>2. job' = [job EXCEPT ![j] = [remaining |-> Count - 1,
                                       price |-> request[j].price, time |-> now]]
        BY <1>4, <3>2 DEF Register
      <4> QED
        BY <3>1, <4>1, <4>2 DEF IInv, GridTypeOK, Fields
    <3>3. CASE ~(Count > 1)
      BY <1>4, <3>3 DEF Register, IInv, GridTypeOK
    <3> QED
      BY <3>2, <3>3
  <2>3. \A k \in Jobs : request'[k].price = request[k].price
                        /\ (request'[k].pc \in {"open", "opened"} => request[k].pc \in {"open", "opened"})
    BY <1>1, <2>1
  <2>4. UNCHANGED <<now, worker, opened, spoiled>>
    BY <1>4 DEF Register
  <2> QED
    BY <2>1, <2>2, <2>3, <2>4 DEF IInv, GridTypeOK, UnderWay
<1>5. CASE FirstFails(j)
  <2>1. request' = [request EXCEPT ![j].pc = "over"] /\ request' \in [Jobs -> R]
    BY <1>1, <1>5 DEF FirstFails
  <2> QED
    BY <1>1, <1>5, <2>1 DEF FirstFails, IInv, GridTypeOK, UnderWay
<1> QED
  BY <1>2, <1>3, <1>4, <1>5

LEMMA OnPriceKeeps == ASSUME IInv, NEW w \in Workers, OnPrice(w) PROVE IInv'
<1>1. PICK p \in Prices : NextDue(w, jobs, p, now)
  BY DEF OnPrice
<1>2. jobs \in Seq(Jobs) /\ now \in Times
  BY DEF IInv, GridTypeOK
<1> QED
  BY <1>1, <1>2, GoOnKeeps DEF OnPrice, IInv, GridTypeOK, UnderWay

LEMMA ExecutedKeeps == ASSUME IInv, NEW w \in Workers, Executed(w) PROVE IInv'
<1>1. worker[w].job \in Jobs /\ worker[w].price \in Prices
  BY StateFields DEF Executed
<1>2. opened' \in [Jobs -> Seq(Prices)]
  BY <1>1 DEF Executed, IInv, GridTypeOK
<1>3. worker' \in [Workers -> Errands]
  <2>1. worker \in [Workers -> Errands] /\ worker' = [worker EXCEPT ![w].pc = "opened"]
    BY DEF Executed, IInv, GridTypeOK
  <2>2. [worker[w] EXCEPT !.pc = "opened"] \in Errands
    BY <2>1 DEF Errands
  <2> QED
    BY <2>1, <2>2
<1>4. \A v \in Workers : worker'[v].job = worker[v].job /\ worker'[v].price = worker[v].price
                         /\ (worker'[v].pc # "idle" => worker[v].pc # "idle")
  BY DEF Executed, IInv, GridTypeOK, Errands
<1> QED
  BY <1>2, <1>3, <1>4 DEF Executed, IInv, GridTypeOK, UnderWay

LEMMA CountedKeeps == ASSUME IInv, NEW w \in Workers, Counted(w) PROVE IInv'
<1> DEFINE t == worker[w]
           left == job[t.job].remaining - 1
<1>1. t.todo \in Seq(Jobs) /\ t.job \in Jobs /\ t.price \in Prices /\ t.time \in Times
  BY StateFields DEF Counted
<1>2. job' \in [Jobs -> Fields]
  <2>1. job' = [job EXCEPT ![t.job] = [remaining |-> left, price |-> t.price, time |-> t.time]]
    BY DEF Counted
  <2>2. left \in Int
    BY <1>1 DEF IInv, GridTypeOK, Fields
  <2> HIDE DEF t, left
  <2> QED
    BY <1>1, <2>1, <2>2 DEF IInv, GridTypeOK, Fields
<1>3. jobs' \in Seq(Jobs)
  BY RemovedIsASeq DEF Counted, IInv, GridTypeOK
<1>4. \/ worker' = [worker EXCEPT ![w] = Resting] /\ UNCHANGED spoiled
      \/ NextDue(w, t.todo, t.price, t.time)
  BY DEF Counted
<1>5. /\ worker' \in [Workers -> Errands]
      /\ spoiled' \in [Jobs -> Nat]
      /\ \A v \in Workers :
           worker'[v].pc # "idle" => worker'[v].job \in Jobs /\ worker'[v].price \in Prices
  BY <1>1, <1>4, GoOnKeeps, StopKeeps DEF IInv, GridTypeOK
<1> QED
  BY <1>2, <1>3, <1>5 DEF Counted, IInv, GridTypeOK, UnderWay

LEMMA FailedKeeps == ASSUME IInv, NEW w \in Workers, Failed(w) PROVE IInv'
<1> DEFINE t == worker[w]
<1>1. t.todo \in Seq(Jobs) /\ t.job \in Jobs /\ t.price \in Prices /\ t.time \in Times
  BY StateFields DEF Failed
<1>2. jobs' \in Seq(Jobs)
  BY RemovedIsASeq DEF Failed, IInv, GridTypeOK
<1>3. \/ worker' = [worker EXCEPT ![w] = Resting] /\ UNCHANGED spoiled
      \/ NextDue(w, t.todo, t.price, t.time)
  BY DEF Failed
<1>4. /\ worker' \in [Workers -> Errands]
      /\ spoiled' \in [Jobs -> Nat]
      /\ \A v \in Workers :
           worker'[v].pc # "idle" => worker'[v].job \in Jobs /\ worker'[v].price \in Prices
  BY <1>1, <1>3, GoOnKeeps, StopKeeps DEF IInv, GridTypeOK
<1> QED
  BY <1>2, <1>4 DEF Failed, IInv, GridTypeOK, UnderWay

LEMMA CancelledKeeps == ASSUME IInv, NEW w \in Workers, WorkerCancelled(w) PROVE IInv'
<1>1. worker' = [worker EXCEPT ![w] = Resting]
  BY DEF WorkerCancelled
<1>2. spoiled' \in [Jobs -> Nat]
  <2>1. worker[w].pc # "idle"
    BY DEF WorkerCancelled
  <2>2. spoiled[worker[w].job] + 1 \in Nat /\ spoiled \in [Jobs -> Nat]
    BY <2>1, StateFields DEF IInv, GridTypeOK
  <2>3. spoiled' = [spoiled EXCEPT ![worker[w].job] = spoiled[worker[w].job] + 1]
    BY DEF WorkerCancelled
  <2> QED
    BY <2>2, <2>3
<1> QED
  BY <1>1, <1>2, StopKeeps DEF WorkerCancelled, IInv, GridTypeOK, UnderWay

LEMMA TickKeeps == ASSUME IInv, Tick PROVE IInv'
  BY DEF Tick, IInv, GridTypeOK, UnderWay, Times

\* Every variable keeps its type, and what is under way is an order of a job.
THEOREM TypesHold == GridSpec => []GridTypeOK
<1>1. IInv /\ [GridNext]_gridVars => IInv'
  <2> SUFFICES ASSUME IInv, [GridNext]_gridVars PROVE IInv'
    OBVIOUS
  <2>1. CASE UNCHANGED gridVars
    BY <2>1 DEF gridVars, IInv, GridTypeOK, UnderWay
  <2> QED
    BY <2>1, RequestKeeps, OnPriceKeeps, ExecutedKeeps, CountedKeeps, FailedKeeps,
       CancelledKeeps, TickKeeps DEF GridNext
<1>2. IInv => GridTypeOK
  BY DEF IInv
<1> QED
  BY <1>1, <1>2, InitHolds, PTL DEF GridSpec

-----------------------------------------------------------------------------
(***************************************************************************)
(* The orders of a job.  An order sent is open, or executed, or lost: the  *)
(* open ones are counted together with the executed ones, and as long as a *)
(* job is on the list its remaining orders fit beside them.                *)
(***************************************************************************)
Elements(list) == {list[i] : i \in DOMAIN list}
Distinct(list) == \A i, k \in 1 .. Len(list) : list[i] = list[k] => i = k

Holders(j) == {w \in Workers : worker[w].job = j}
OpenOf(j) == {w \in Holders(j) : worker[w].pc = "open"}
Sent(j) == Len(opened[j]) + Cardinality(OpenOf(j))
LastIs(j, p) == opened[j] # <<>> /\ opened[j][Len(opened[j])] = p

\* A job is on the list once, and a worker comes to it once in its copy.
ListsAreClean ==
  /\ Distinct(jobs)
  /\ \A w \in Workers :
       /\ Distinct(worker[w].todo)
       /\ worker[w].job \notin Elements(worker[w].todo)
       /\ worker[w].pc = "idle" => worker[w] = Resting

\* Until its request is over, a job is nowhere but in the request.
NotStarted ==
  \A j \in Jobs : request[j].pc # "over" =>
    /\ j \notin Registered
    /\ \A w \in Workers : worker[w].job # j /\ j \notin Elements(worker[w].todo)
    /\ opened[j] = IF request[j].pc = "opened" THEN <<request[j].price>> ELSE <<>>

SentIsBounded(j) ==
  /\ Sent(j) <= Count + spoiled[j]
  /\ j \in Registered =>
       /\ job[j].remaining >= 1
       /\ Sent(j) + job[j].remaining
            <= Count + spoiled[j] + (IF Holders(j) = {} THEN 0 ELSE 1)

\* The order an unspoiled job waits for keeps the spacing from the last one,
\* whose price is that of the job.
NextIsSpaced(j) ==
  spoiled[j] = 0 =>
    /\ \A v, w \in Holders(j) : v = w
    /\ \A w \in Holders(j) :
         IF worker[w].pc = "open"
         THEN LastIs(j, job[j].price) /\ PriceConditionMet(j, worker[w].price)
         ELSE LastIs(j, worker[w].price)
    /\ Holders(j) = {} /\ j \in Registered => LastIs(j, job[j].price)

Spaced(j) ==
  spoiled[j] = 0 =>
    \A i \in 1 .. Len(opened[j]) - 1 :
      LET move == opened[j][i + 1] - opened[j][i] IN
      IF WantsUp(j) THEN move >= Spacing ELSE -move >= Spacing

OrdersInv == \A j \in Jobs : SentIsBounded(j) /\ NextIsSpaced(j) /\ Spaced(j)
FewAtWork == IsFiniteSet({w \in Workers : worker[w].pc # "idle"})

JInv == IInv /\ ListsAreClean /\ NotStarted /\ FewAtWork /\ OrdersInv

\* r is list without its element at i.
LEMMA ShorterIsDistinct ==
  ASSUME NEW list, NEW r, NEW n \in Nat, NEW i \in 1 .. n,
         \A k, m \in 1 .. n : list[k] = list[m] => k = m,
         \A k \in 1 .. n - 1 : r[k] = IF k < i THEN list[k] ELSE list[k + 1]
  PROVE  \A k, m \in 1 .. n - 1 : r[k] = r[m] => k = m
<1> SUFFICES ASSUME NEW k \in 1 .. n - 1, NEW m \in 1 .. n - 1, r[k] = r[m] PROVE k = m
  OBVIOUS
<1>1. PICK a \in 1 .. n : r[k] = list[a] /\ a = IF k < i THEN k ELSE k + 1
  OBVIOUS
<1>2. PICK b \in 1 .. n : r[m] = list[b] /\ b = IF m < i THEN m ELSE m + 1
  OBVIOUS
<1>3. a = b
  BY <1>1, <1>2
<1> QED
  BY <1>1, <1>2, <1>3

LEMMA WithoutProperties ==
  ASSUME NEW list \in Seq(Jobs), Distinct(list), NEW j
  PROVE  /\ Distinct(Removed(list, j))
         /\ Elements(Removed(list, j)) = Elements(list) \ {j}
<1> DEFINE i == CHOOSE k \in DOMAIN list : list[k] = j
           n == Len(list)
           r == Removed(list, j)
<1>1. CASE \E k \in DOMAIN list : list[k] = j
  <2>1. i \in 1 .. n /\ list[i] = j /\ n \in Nat
    BY <1>1
  <2>2. \A k \in 1 .. n : list[k] \in Jobs
    BY ElementOfSeq
  <2>3. r = SubSeq(list, 1, i - 1) \o SubSeq(list, i + 1, n)
    BY <1>1 DEF Removed
  <2> HIDE DEF i
  <2> DEFINE front == SubSeq(list, 1, i - 1)
             back == SubSeq(list, i + 1, n)
  <2>4. /\ front \in Seq(Jobs)
        /\ Len(front) = i - 1
        /\ \A k \in 1 .. i - 1 : front[k] = list[k]
    BY <2>1, <2>2, SubSeqProperties
  <2>5. /\ back \in Seq(Jobs)
        /\ Len(back) = n - i
        /\ \A k \in 1 .. n - i : back[k] = list[i + k]
    BY <2>1, <2>2, SubSeqProperties
  <2>6. /\ r \in Seq(Jobs)
        /\ Len(r) = n - 1
        /\ \A k \in 1 .. n - 1 : r[k] = IF k < i THEN list[k] ELSE list[k + 1]
    <3>1. r = front \o back
      BY <2>3
    <3> HIDE DEF front, back, r, n
    <3>2. /\ r \in Seq(Jobs)
          /\ Len(r) = (i - 1) + (n - i)
          /\ \A k \in 1 .. (i - 1) + (n - i) :
                r[k] = IF k <= i - 1 THEN front[k] ELSE back[k - (i - 1)]
      <4>1. front \in Seq(Jobs) /\ back \in Seq(Jobs)
        BY <2>4, <2>5
      <4>2. /\ front \o back \in Seq(Jobs)
            /\ Len(front \o back) = Len(front) + Len(back)
            /\ \A k \in 1 .. Len(front) + Len(back) : (front \o back)[k] =
                  IF k <= Len(front) THEN front[k] ELSE back[k - Len(front)]
        BY <4>1, ConcatProperties
      <4> QED
        BY <2>4, <2>5, <3>1, <4>2
    <3>3. \A k \in 1 .. n - 1 : r[k] = IF k < i THEN list[k] ELSE list[k + 1]
      <4> SUFFICES ASSUME NEW k \in 1 .. n - 1
                   PROVE  r[k] = IF k < i THEN list[k] ELSE list[k + 1]
        OBVIOUS
      <4>0. i \in Int /\ n \in Int /\ k \in Int /\ (i - 1) + (n - i) = n - 1
        BY <2>1
      <4>1. CASE k < i
        <5>1. k <= i - 1 /\ k \in 1 .. i - 1
          BY <4>0, <4>1
        <5>2. r[k] = front[k]
          BY <3>2, <4>0, <5>1
        <5> QED
          BY <2>4, <4>1, <5>1, <5>2
      <4>2. CASE ~(k < i)
        <5>1. /\ k - (i - 1) \in 1 .. n - i /\ i + (k - (i - 1)) = k + 1
              /\ ~(k <= i - 1)
          BY <4>0, <4>2
        <5>2. r[k] = back[k - (i - 1)]
          BY <3>2, <4>0, <5>1
        <5> QED
          BY <2>5, <4>2, <5>1, <5>2
      <4> QED
        BY <4>1, <4>2
    <3> QED
      BY <2>1, <3>2, <3>3
  <2> HIDE DEF r
  <2>7. DOMAIN r = 1 .. n - 1 /\ DOMAIN list = 1 .. n
    BY <2>1, <2>6
  <2>8. Distinct(r)
    <3>1. \A k, m \in 1 .. n : list[k] = list[m] => k = m
      BY DEF Distinct
    <3>2. \A k, m \in 1 .. n - 1 : r[k] = r[m] => k = m
      <4> HIDE DEF n
      <4> QED
        BY <2>1, <2>6, <3>1, ShorterIsDistinct
    <3> QED
      BY <2>6, <3>2 DEF Distinct
  <2>9. \A k \in 1 .. n : k # i => list[k] \in Elements(r)
    <3> SUFFICES ASSUME NEW k \in 1 .. n, k # i PROVE list[k] \in Elements(r)
      OBVIOUS
    <3>1. CASE k < i
      <4>1. k \in 1 .. n - 1 /\ r[k] = list[k]
        BY <2>1, <2>6, <3>1
      <4> QED
        BY <4>1, <2>7 DEF Elements
    <3>2. CASE k > i
      <4>1. k - 1 \in 1 .. n - 1 /\ r[k - 1] = list[k]
        BY <2>1, <2>6, <3>2
      <4> QED
        BY <4>1, <2>7 DEF Elements
    <3> QED
      BY <2>1, <3>1, <3>2
  <2>10. Elements(r) \subseteq Elements(list) \ {j}
    <3> SUFFICES ASSUME NEW k \in 1 .. n - 1 PROVE r[k] \in Elements(list) /\ r[k] # j
      BY <2>7 DEF Elements
    <3>1. PICK m \in 1 .. n : r[k] = list[m] /\ m # i
      <4>1. k \in 1 .. n /\ k + 1 \in 1 .. n
        BY <2>1
      <4>2. CASE k < i
        BY <2>1, <2>6, <4>1, <4>2
      <4>3. CASE ~(k < i)
        <5>1. r[k] = list[k + 1] /\ k + 1 # i
          BY <2>1, <2>6, <4>3
        <5> QED
          BY <4>1, <5>1
      <4> QED
        BY <4>2, <4>3
    <3> HIDE DEF n
    <3> QED
      BY <2>1, <2>7, <3>1 DEF Elements, Distinct, n
  <2>11. Elements(list) \ {j} \subseteq Elements(r)
    BY <2>1, <2>7, <2>9 DEF Elements
  <2> QED
    BY <2>8, <2>10, <2>11 DEF r
<1>2. CASE ~ \E k \in DOMAIN list : list[k] = j
  BY <1>2 DEF Removed, Elements
<1> QED
  BY <1>1, <1>2

\* What is left of a copy behind place i.
LEMMA RestProperties ==
  ASSUME NEW list \in Seq(Jobs), Distinct(list), NEW i \in 1 .. Len(list)
  PROVE  /\ SubSeq(list, i + 1, Len(list)) \in Seq(Jobs)
         /\ Distinct(SubSeq(list, i + 1, Len(list)))
         /\ list[i] \notin Elements(SubSeq(list, i + 1, Len(list)))
         /\ Elements(SubSeq(list, i + 1, Len(list))) \subseteq Elements(list)
<1> DEFINE n == Len(list)
           r == SubSeq(list, i + 1, n)
<1>1. \A k \in 1 .. n : list[k] \in Jobs
  BY ElementOfSeq
<1>2. n \in Nat /\ DOMAIN list = 1 .. n
  OBVIOUS
<1>3. /\ r \in Seq(Jobs)
      /\ Len(r) = n - i
      /\ \A k \in 1 .. n - i : r[k] = list[i + k]
  <2>1. /\ r \in Seq(Jobs)
        /\ Len(r) = IF i + 1 <= n THEN n - (i + 1) + 1 ELSE 0
        /\ \A k \in 1 .. n - (i + 1) + 1 : r[k] = list[i + 1 + k - 1]
    BY <1>1, <1>2, SubSeqProperties
  <2> HIDE DEF r
  <2>2. Len(r) = n - i
    <3>1. i \in Int /\ n \in Int /\ i <= n
      BY <1>2
    <3> HIDE DEF n
    <3> QED
      BY <2>1, <3>1
  <2>3. \A k \in 1 .. n - i : k \in 1 .. n - (i + 1) + 1 /\ i + 1 + k - 1 = i + k
    BY <1>2
  <2> QED
    BY <2>1, <2>2, <2>3
<1> HIDE DEF r
<1>4. DOMAIN r = 1 .. n - i
  BY <1>2, <1>3
<1>5. \A k \in 1 .. n - i : i + k \in 1 .. n /\ i + k # i
  BY <1>2
<1> HIDE DEF n
<1>6. Distinct(r)
  BY <1>2, <1>3, <1>5 DEF Distinct, n
<1>7. list[i] \notin Elements(r)
  <2> SUFFICES ASSUME NEW k \in 1 .. n - i PROVE r[k] # list[i]
    BY <1>4 DEF Elements
  <2> QED
    BY <1>3, <1>5 DEF Distinct, n
<1>8. Elements(r) \subseteq Elements(list)
  BY <1>2, <1>3, <1>4, <1>5 DEF Elements
<1> QED
  BY <1>3, <1>6, <1>7, <1>8 DEF r, n

\* What a step of worker w does to the counts: its state becomes x.
LEMMA HoldersAfter ==
  ASSUME IInv, NEW w \in Workers, NEW x \in Errands, worker' = [worker EXCEPT ![w] = x],
         NEW j \in Jobs
  PROVE  /\ Holders(j)' = IF x.job = j THEN Holders(j) \cup {w} ELSE Holders(j) \ {w}
         /\ OpenOf(j)' = IF x.job = j /\ x.pc = "open" THEN OpenOf(j) \cup {w}
                         ELSE OpenOf(j) \ {w}
  BY DEF Holders, OpenOf, IInv, GridTypeOK

LEMMA OpenIsFinite ==
  ASSUME IInv, FewAtWork, NEW j \in Jobs
  PROVE  IsFiniteSet(OpenOf(j)) /\ Cardinality(OpenOf(j)) \in Nat
<1>1. OpenOf(j) \subseteq {w \in Workers : worker[w].pc # "idle"}
  BY DEF OpenOf, Holders
<1> QED
  BY <1>1, FS_Subset, FS_CardinalityType DEF FewAtWork

LEMMA OpenAfter ==
  ASSUME IInv, FewAtWork, NEW w \in Workers, NEW x \in Errands,
         worker' = [worker EXCEPT ![w] = x]
  PROVE  /\ FewAtWork'
         /\ \A j \in Jobs :
              Cardinality(OpenOf(j)') =
                Cardinality(OpenOf(j)) - (IF w \in OpenOf(j) THEN 1 ELSE 0)
                  + (IF x.job = j /\ x.pc = "open" THEN 1 ELSE 0)
<1>1. FewAtWork'
  <2> DEFINE busy == {v \in Workers : worker[v].pc # "idle"}
  <2>1. {v \in Workers : worker'[v].pc # "idle"} \in SUBSET (busy \cup {w})
    BY DEF IInv, GridTypeOK
  <2>2. IsFiniteSet(busy \cup {w})
    BY FS_AddElement DEF FewAtWork
  <2> HIDE DEF busy
  <2> QED
    BY <2>1, <2>2, FS_Subset DEF FewAtWork
<1>2. ASSUME NEW j \in Jobs
      PROVE  Cardinality(OpenOf(j)') =
               Cardinality(OpenOf(j)) - (IF w \in OpenOf(j) THEN 1 ELSE 0)
                 + (IF x.job = j /\ x.pc = "open" THEN 1 ELSE 0)
  <2> DEFINE S == OpenOf(j)
  <2>1. IsFiniteSet(S) /\ Cardinality(S) \in Nat
    BY OpenIsFinite
  <2>2. OpenOf(j)' = IF x.job = j /\ x.pc = "open" THEN S \cup {w} ELSE S \ {w}
    BY HoldersAfter
  <2> HIDE DEF S
  <2>3. /\ Cardinality(S \cup {w}) = IF w \in S THEN Cardinality(S) ELSE Cardinality(S) + 1
        /\ Cardinality(S \ {w}) = IF w \in S THEN Cardinality(S) - 1 ELSE Cardinality(S)
    BY <2>1, FS_AddElement, FS_RemoveElement
  <2> QED
    BY <2>1, <2>2, <2>3 DEF S
<1> QED
  BY <1>1, <1>2

\* How the loop ends: with nothing due, or with an order for job todo[i].
Stops(w) == worker' = [worker EXCEPT ![w] = Resting] /\ UNCHANGED spoiled
Takes(w, todo, i, price, time) ==
  /\ PriceConditionMet(todo[i], price)
  /\ worker' = [worker EXCEPT ![w] =
                 [pc |-> "open", todo |-> SubSeq(todo, i + 1, Len(todo)),
                  job |-> todo[i], price |-> price, time |-> time]]
  /\ IF todo[i] \notin Registered \/ Holders(todo[i]) \ {w} # {}
     THEN spoiled' = [spoiled EXCEPT ![todo[i]] = @ + 1]
     ELSE UNCHANGED spoiled

LEMMA GoOnShape ==
  ASSUME NEW w \in Workers, NEW todo \in Seq(Jobs), NEW price, NEW time,
         NextDue(w, todo, price, time)
  PROVE  Stops(w) \/ \E i \in 1 .. Len(todo) : Takes(w, todo, i, price, time)
<1> DEFINE due == {i \in DOMAIN todo : Due(todo[i], price, time)}
           shared(j) == j \notin Registered \/ \E v \in Workers \ {w} : worker[v].job = j
<1>1. CASE due = {}
  BY <1>1 DEF NextDue, Stops
<1>2. CASE due # {}
  <2>1. PICK i \in due :
          /\ worker' = [worker EXCEPT ![w] =
                          [pc |-> "open", todo |-> SubSeq(todo, i + 1, Len(todo)),
                           job |-> todo[i], price |-> price, time |-> time]]
          /\ spoiled' = IF shared(todo[i]) THEN [spoiled EXCEPT ![todo[i]] = @ + 1] ELSE spoiled
    BY <1>2 DEF NextDue
  <2>2. i \in 1 .. Len(todo) /\ PriceConditionMet(todo[i], price)
    BY <2>1 DEF Due
  <2>3. shared(todo[i]) <=> (todo[i] \notin Registered \/ Holders(todo[i]) \ {w} # {})
    BY DEF Holders
  <2> HIDE DEF shared
  <2>4. Takes(w, todo, i, price, time)
    BY <2>1, <2>2, <2>3 DEF Takes
  <2> QED
    BY <2>2, <2>4
<1> QED
  BY <1>1, <1>2

\* A job that w neither holds nor takes is not touched.
LEMMA UntouchedKeeps ==
  ASSUME JInv, NEW w \in Workers, NEW x \in Errands, worker' = [worker EXCEPT ![w] = x],
         NEW j \in Jobs, j # worker[w].job, j # x.job,
         opened'[j] = opened[j], spoiled'[j] = spoiled[j], job'[j] = job[j],
         j \in Registered' <=> j \in Registered
  PROVE  SentIsBounded(j)' /\ NextIsSpaced(j)' /\ Spaced(j)'
<1>1. Holders(j)' = Holders(j) /\ OpenOf(j)' = OpenOf(j) /\ w \notin Holders(j)
  BY HoldersAfter DEF JInv, Holders, OpenOf
<1>2. Sent(j)' = Sent(j)
  BY <1>1 DEF Sent
<1>3. SentIsBounded(j)' /\ Spaced(j)'
  BY <1>1, <1>2 DEF SentIsBounded, Spaced, JInv, OrdersInv
<1>4. \A v \in Holders(j) : worker'[v] = worker[v]
  BY <1>1 DEF JInv, IInv, GridTypeOK, Holders
<1>5. \A p : /\ LastIs(j, p)' <=> LastIs(j, p)
             /\ PriceConditionMet(j, p)' <=> PriceConditionMet(j, p)
  BY DEF LastIs, PriceConditionMet
<1>6. NextIsSpaced(j)
  BY DEF JInv, OrdersInv
<1>7. NextIsSpaced(j)'
  BY <1>1, <1>4, <1>6 DEF NextIsSpaced, LastIs, PriceConditionMet
<1> QED
  BY <1>3, <1>7

\* One more order is sent: it is spoiled, or fits beside the remaining ones.
LEMMA OneMoreFits ==
  ASSUME NEW j \in Jobs, SentIsBounded(j), Sent(j) \in Nat, spoiled[j] \in Nat,
         job[j].remaining \in Int, Sent(j)' = Sent(j) + 1, Holders(j)' # {},
         job'[j] = job[j], j \in Registered' <=> j \in Registered,
         spoiled'[j] = IF j \notin Registered \/ Holders(j) # {} THEN spoiled[j] + 1
                       ELSE spoiled[j]
  PROVE  SentIsBounded(j)'
  BY DEF SentIsBounded

LEMMA OneMoreOfTwo ==
  \A m, c \in Nat : m + (c + 1) = (m + c) + 1 /\ m + c \in Nat
  OBVIOUS

\* The job w takes next.
LEMMA TakenKeeps ==
  ASSUME JInv, NEW w \in Workers, NEW x \in Errands, worker' = [worker EXCEPT ![w] = x],
         NEW j \in Jobs, w \notin Holders(j), j = x.job, x.pc = "open",
         PriceConditionMet(j, x.price),
         opened'[j] = opened[j], job'[j] = job[j],
         j \in Registered' <=> j \in Registered,
         spoiled'[j] = IF j \notin Registered \/ Holders(j) # {} THEN spoiled[j] + 1
                       ELSE spoiled[j]
  PROVE  SentIsBounded(j)' /\ NextIsSpaced(j)' /\ Spaced(j)'
<1>1. /\ Holders(j)' = Holders(j) \cup {w}
      /\ Cardinality(OpenOf(j)') = Cardinality(OpenOf(j)) + 1
  <2>1. w \notin OpenOf(j) /\ IInv /\ FewAtWork
    BY DEF OpenOf, JInv
  <2>2. Holders(j)' = Holders(j) \cup {w}
    BY <2>1, HoldersAfter
  <2>3. Cardinality(OpenOf(j)) \in Nat
    BY <2>1, OpenIsFinite
  <2>4. Cardinality(OpenOf(j)') = Cardinality(OpenOf(j)) - 0 + 1
    BY <2>1, OpenAfter
  <2> QED
    BY <2>1, <2>2, <2>3, <2>4
<1>2. /\ spoiled[j] \in Nat /\ Len(opened[j]) \in Nat /\ job[j].remaining \in Int
      /\ Cardinality(OpenOf(j)) \in Nat
  BY OpenIsFinite DEF JInv, IInv, GridTypeOK, Fields
<1>3. SentIsBounded(j) /\ NextIsSpaced(j) /\ Spaced(j)
  BY DEF JInv, OrdersInv
<1>4. Sent(j)' = Sent(j) + 1 /\ Sent(j) \in Nat
  <2>1. Sent(j)' = Len(opened[j]) + (Cardinality(OpenOf(j)) + 1)
    BY <1>1 DEF Sent
  <2>2. Sent(j) = Len(opened[j]) + Cardinality(OpenOf(j))
    BY DEF Sent
  <2>3. Len(opened[j]) \in Nat /\ Cardinality(OpenOf(j)) \in Nat
    BY <1>2
  <2> QED
    BY <2>1, <2>2, <2>3, OneMoreOfTwo
<1>5. SentIsBounded(j)'
  <2>1. Holders(j)' # {}
    BY <1>1
  <2> QED
    BY <1>2, <1>3, <1>4, <2>1, OneMoreFits
<1>6. spoiled'[j] = 0 => spoiled[j] = 0 /\ Holders(j) = {} /\ j \in Registered
  BY <1>2
<1>7. NextIsSpaced(j)'
  <2> SUFFICES ASSUME spoiled'[j] = 0 PROVE NextIsSpaced(j)'
    BY DEF NextIsSpaced
  <2>1. Holders(j)' = {w} /\ worker'[w] = x
    BY <1>1, <1>6 DEF JInv, IInv, GridTypeOK
  <2>2. LastIs(j, job[j].price)
    BY <1>3, <1>6 DEF NextIsSpaced
  <2> QED
    BY <2>1, <2>2 DEF NextIsSpaced, LastIs, PriceConditionMet
<1>8. Spaced(j)'
  BY <1>3, <1>6 DEF Spaced
<1> QED
  BY <1>5, <1>7, <1>8

\* The end of a step of w: the loop goes on with todo or stops.  The other jobs
\* keep what holds of them, and the lists stay clean.
LEMMA LoopKeeps ==
  ASSUME JInv, NEW w \in Workers, NEW todo \in Seq(Jobs), NEW price \in Prices,
         NEW time \in Times,
         Distinct(todo), worker[w].job \notin Elements(todo),
         \A j \in Jobs : request[j].pc # "over" => j \notin Elements(todo),
         Stops(w) \/ NextDue(w, todo, price, time),
         UNCHANGED <<opened, request>>,
         Distinct(jobs'), Registered' \subseteq Registered,
         \A j \in Jobs \ {worker[w].job} :
           job'[j] = job[j] /\ (j \in Registered' <=> j \in Registered)
  PROVE  /\ ListsAreClean' /\ NotStarted' /\ FewAtWork'
         /\ \A j \in Jobs \ {worker[w].job} :
              SentIsBounded(j)' /\ NextIsSpaced(j)' /\ Spaced(j)'
         /\ \E x \in Errands : /\ worker' = [worker EXCEPT ![w] = x]
                               /\ x.job # worker[w].job \/ x = Resting
                               /\ \A j \in Jobs : j = worker[w].job => spoiled'[j] = spoiled[j]
<1>1. CASE Stops(w)
  <2> USE <1>1 DEF Stops
  <2>1. Resting \in Errands /\ Resting.pc = "idle" /\ Resting.job = NoJob /\ Resting.todo = <<>>
    BY RestingIsAState DEF Resting
  <2>2. ListsAreClean'
    <3>1. Distinct(<<>>) /\ Elements(<<>>) = {}
      BY DEF Distinct, Elements
    <3> QED
      BY <1>1, <2>1, <3>1 DEF JInv, IInv, GridTypeOK, ListsAreClean
  <2>3. NotStarted'
    <3>1. Elements(<<>>) = {}
      BY DEF Elements
    <3>2. \A v \in Workers : worker'[v] = worker[v] \/ worker'[v] = Resting
      BY <1>1 DEF JInv, IInv, GridTypeOK
    <3> QED
      BY <2>1, <3>1, <3>2 DEF JInv, NotStarted
  <2>4. FewAtWork'
    BY <1>1, <2>1, OpenAfter DEF JInv
  <2>5. \A j \in Jobs \ {worker[w].job} : SentIsBounded(j)' /\ NextIsSpaced(j)' /\ Spaced(j)'
    BY <1>1, <2>1, UntouchedKeeps
  <2> QED
    BY <1>1, <2>1, <2>2, <2>3, <2>4, <2>5
<1>2. CASE \E i \in 1 .. Len(todo) : Takes(w, todo, i, price, time)
  <2> DEFINE rest(i) == SubSeq(todo, i + 1, Len(todo))
             next(i) == [pc |-> "open", todo |-> rest(i),
                         job |-> todo[i], price |-> price, time |-> time]
  <2>1. PICK i \in 1 .. Len(todo) :
          /\ PriceConditionMet(todo[i], price)
          /\ worker' = [worker EXCEPT ![w] = next(i)]
          /\ IF todo[i] \notin Registered \/ Holders(todo[i]) \ {w} # {}
             THEN spoiled' = [spoiled EXCEPT ![todo[i]] = @ + 1]
             ELSE UNCHANGED spoiled
    BY <1>2 DEF Takes
  <2> DEFINE n == todo[i]
             x == next(i)
  <2>2. n \in Jobs /\ n \in Elements(todo) /\ n # worker[w].job
    BY ElementOfSeq DEF Elements
  <2>3. /\ rest(i) \in Seq(Jobs) /\ Distinct(rest(i)) /\ n \notin Elements(rest(i))
        /\ Elements(rest(i)) \subseteq Elements(todo)
    BY RestProperties
  <2>4. /\ x \in Errands /\ x.pc = "open" /\ x.job = n /\ x.price = price
        /\ x.todo = rest(i)
    BY <2>2, <2>3 DEF Errands
  <2> HIDE DEF next, rest
  <2>5. worker' = [worker EXCEPT ![w] = x]
    BY <2>1
  <2>6. worker \in [Workers -> Errands] /\ spoiled \in [Jobs -> Nat]
    BY DEF JInv, IInv, GridTypeOK
  <2>7. ListsAreClean'
    BY <2>3, <2>4, <2>5, <2>6 DEF JInv, ListsAreClean
  <2>8. NotStarted'
    <3>1. \A v \in Workers : worker'[v] = worker[v] \/ worker'[v] = x
      BY <2>5, <2>6
    <3> SUFFICES ASSUME NEW j \in Jobs, request'[j].pc # "over"
                 PROVE  /\ j \notin Registered'
                        /\ \A v \in Workers : worker'[v].job # j /\ j \notin Elements(worker'[v].todo)
                        /\ opened'[j] = IF request'[j].pc = "opened" THEN <<request'[j].price>>
                                        ELSE <<>>
      BY DEF NotStarted
    <3>2. /\ j \notin Registered /\ j \notin Elements(todo)
          /\ \A v \in Workers : worker[v].job # j /\ j \notin Elements(worker[v].todo)
          /\ opened[j] = IF request[j].pc = "opened" THEN <<request[j].price>> ELSE <<>>
      BY DEF JInv, NotStarted
    <3>3. x.job # j /\ j \notin Elements(x.todo)
      BY <2>2, <2>3, <2>4, <3>2
    <3> QED
      BY <3>1, <3>2, <3>3
  <2>9. FewAtWork'
    BY <2>4, <2>5, OpenAfter DEF JInv
  <2>10. \A j \in Jobs : j # n => spoiled'[j] = spoiled[j]
    BY <2>1, <2>6
  <2>11. ASSUME NEW j \in Jobs \ {worker[w].job}, j # n
         PROVE  SentIsBounded(j)' /\ NextIsSpaced(j)' /\ Spaced(j)'
    BY <2>4, <2>5, <2>10, <2>11, UntouchedKeeps
  <2>12. SentIsBounded(n)' /\ NextIsSpaced(n)' /\ Spaced(n)'
    <3>1. Holders(n) \ {w} = Holders(n)
      BY <2>2 DEF Holders
    <3>2. spoiled'[n] = IF n \notin Registered \/ Holders(n) # {} THEN spoiled[n] + 1
                        ELSE spoiled[n]
      BY <2>1, <2>2, <2>6, <3>1
    <3> HIDE DEF n, x
    <3>3. job'[n] = job[n] /\ (n \in Registered' <=> n \in Registered)
      BY <2>2
    <3>4. PriceConditionMet(n, x.price) /\ w \notin Holders(n)
      BY <2>1, <2>2, <2>4 DEF n, Holders
    <3> QED
      BY <2>2, <2>4, <2>5, <3>2, <3>3, <3>4, TakenKeeps
  <2> QED
    BY <2>2, <2>4, <2>5, <2>7, <2>8, <2>9, <2>10, <2>11, <2>12
<1> QED
  BY <1>1, <1>2, GoOnShape

\* A step of a request touches its own job only.
LEMMA ElsewhereKeeps ==
  ASSUME JInv, NEW j \in Jobs, UNCHANGED worker,
         opened'[j] = opened[j], spoiled'[j] = spoiled[j], job'[j] = job[j],
         j \in Registered' <=> j \in Registered
  PROVE  SentIsBounded(j)' /\ NextIsSpaced(j)' /\ Spaced(j)'
<1>1. Holders(j)' = Holders(j) /\ OpenOf(j)' = OpenOf(j)
  BY DEF Holders, OpenOf
<1>2. Sent(j)' = Sent(j)
  BY <1>1 DEF Sent
<1>3. SentIsBounded(j) /\ NextIsSpaced(j) /\ Spaced(j)
  BY DEF JInv, OrdersInv
<1>4. SentIsBounded(j)' /\ Spaced(j)'
  BY <1>1, <1>2, <1>3 DEF SentIsBounded, Spaced
<1>5. NextIsSpaced(j)'
  BY <1>1, <1>3 DEF NextIsSpaced, LastIs, PriceConditionMet
<1> QED
  BY <1>4, <1>5

LEMMA RequestKeepsOrders ==
  ASSUME JInv, NEW j \in Jobs, StartJob(j) \/ FirstExecuted(j) \/ Register(j) \/ FirstFails(j)
  PROVE  ListsAreClean' /\ NotStarted' /\ FewAtWork' /\ OrdersInv'
<1> USE DEF JInv
<1>1. UNCHANGED <<worker, spoiled>> /\ FewAtWork'
  BY DEF StartJob, FirstExecuted, Register, FirstFails, FewAtWork
<1>2. /\ request \in [Jobs -> [pc : {"new", "open", "opened", "over"}, price : Prices \cup {0}]]
      /\ opened \in [Jobs -> Seq(Prices)] /\ jobs \in Seq(Jobs) /\ job \in [Jobs -> Fields]
  BY DEF IInv, GridTypeOK
<1>3. request[j].pc # "over"
  BY DEF StartJob, FirstExecuted, Register, FirstFails
<1>4. j \notin Registered /\ Holders(j) = {} /\ OpenOf(j) = {}
  BY <1>3 DEF NotStarted, Holders, OpenOf
<1>5. Holders(j)' = {} /\ OpenOf(j)' = {}
  BY <1>1, <1>4 DEF Holders, OpenOf
<1>6. Cardinality(OpenOf(j)') = 0 /\ spoiled'[j] \in Nat
  BY <1>1, <1>5, FS_EmptySet DEF IInv, GridTypeOK
<1>7. CASE StartJob(j) \/ FirstFails(j)
  <2>1. UNCHANGED <<jobs, job, worker, opened, spoiled>>
    BY <1>7 DEF StartJob, FirstFails
  <2>2. OrdersInv'
    BY <2>1, ElsewhereKeeps DEF OrdersInv, Registered
  <2>3. \A k \in Jobs : request'[k].pc # "over" => request[k].pc # "over"
    BY <1>2, <1>3, <1>7 DEF StartJob, FirstFails
  <2>4. \A k \in Jobs : request'[k].pc # "over" => (request'[k] = request[k] \/ k = j)
    BY <1>2, <1>7 DEF StartJob, FirstFails
  <2>5. request'[j].pc # "over" => request'[j].pc = "open" /\ request[j].pc = "new"
    BY <1>2, <1>7 DEF StartJob, FirstFails
  <2>6. NotStarted'
    <3> SUFFICES ASSUME NEW k \in Jobs, request'[k].pc # "over"
                 PROVE  /\ k \notin Registered
                        /\ \A v \in Workers : worker[v].job # k /\ k \notin Elements(worker[v].todo)
                        /\ opened[k] = IF request'[k].pc = "opened" THEN <<request'[k].price>>
                                       ELSE <<>>
      BY <2>1 DEF NotStarted, Registered
    <3>1. /\ k \notin Registered
          /\ \A v \in Workers : worker[v].job # k /\ k \notin Elements(worker[v].todo)
          /\ opened[k] = IF request[k].pc = "opened" THEN <<request[k].price>> ELSE <<>>
      BY <2>3 DEF NotStarted
    <3> QED
      BY <2>4, <2>5, <3>1
  <2> QED
    BY <1>1, <2>1, <2>2, <2>6 DEF ListsAreClean
<1>8. CASE FirstExecuted(j)
  <2>1. UNCHANGED <<jobs, job, worker, spoiled>> /\ Registered' = Registered
    BY <1>8 DEF FirstExecuted, Registered
  <2>2. opened'[j] = <<request[j].price>> /\ \A k \in Jobs : k # j => opened'[k] = opened[k]
    BY <1>2, <1>8 DEF FirstExecuted
  <2>3. /\ request'[j].pc = "opened" /\ request'[j].price = request[j].price
        /\ \A k \in Jobs : k # j => request'[k] = request[k]
    BY <1>2, <1>8 DEF FirstExecuted
  <2>4. NotStarted'
    BY <1>3, <1>4, <2>1, <2>2, <2>3 DEF NotStarted
  <2>5. Len(opened'[j]) = 1
    BY <2>2
  <2>6. SentIsBounded(j)' /\ NextIsSpaced(j)' /\ Spaced(j)'
    <3>1. Sent(j)' = 1
      BY <1>6, <2>5 DEF Sent
    <3>2. SentIsBounded(j)'
      BY <1>4, <1>6, <2>1, <3>1 DEF SentIsBounded
    <3>3. NextIsSpaced(j)'
      BY <1>4, <1>5, <2>1 DEF NextIsSpaced
    <3>4. Spaced(j)'
      BY <2>5 DEF Spaced
    <3> QED
      BY <3>2, <3>3, <3>4
  <2>7. OrdersInv'
    BY <2>1, <2>2, <2>6, ElsewhereKeeps DEF OrdersInv
  <2> QED
    BY <1>1, <2>1, <2>4, <2>7 DEF ListsAreClean
<1>9. CASE Register(j)
  <2>1. UNCHANGED <<worker, opened, spoiled>>
    BY <1>9 DEF Register
  <2>2. opened[j] = <<request[j].price>> /\ Len(opened[j]) = 1
    <3>1. opened[j] = <<request[j].price>>
      BY <1>9 DEF Register, NotStarted
    <3> QED
      BY <3>1
  <2>3. \A k \in Jobs : request'[k].pc # "over" => k # j /\ request'[k] = request[k]
    BY <1>2, <1>9 DEF Register
  <2>4. Sent(j)' = 1 /\ Spaced(j)'
    BY <1>6, <2>1, <2>2 DEF Sent, Spaced
  <2>5. CASE Count > 1
    <3>1. jobs' = Append(jobs, j)
      BY <1>9, <2>5 DEF Register
    <3>2. /\ job'[j] = [remaining |-> Count - 1, price |-> request[j].price, time |-> now]
          /\ \A k \in Jobs : k # j => job'[k] = job[k]
      BY <1>2, <1>9, <2>5 DEF Register
    <3>3. Distinct(jobs') /\ Registered' = Registered \cup {j}
      <4>1. /\ Len(jobs') = Len(jobs) + 1 /\ jobs'[Len(jobs) + 1] = j
            /\ \A i \in 1 .. Len(jobs) : jobs'[i] = jobs[i]
            /\ DOMAIN jobs' = 1 .. Len(jobs) + 1
            /\ DOMAIN jobs = 1 .. Len(jobs) /\ Len(jobs) \in Nat
        BY <1>2, <3>1, AppendProperties
      <4>2. Distinct(jobs) /\ \A i \in 1 .. Len(jobs) : jobs[i] # j
        BY <1>4, <4>1 DEF ListsAreClean, Registered
      <4>3. Distinct(jobs')
        BY <4>1, <4>2 DEF Distinct
      <4>4. Registered' = Registered \cup {j}
        <5>1. 1 .. Len(jobs) + 1 = (1 .. Len(jobs)) \cup {Len(jobs) + 1}
          BY <4>1
        <5> QED
          BY <4>1, <5>1 DEF Registered
      <4> QED
        BY <4>3, <4>4
    <3>4. SentIsBounded(j)' /\ NextIsSpaced(j)'
      <4>1. job'[j].remaining = Count - 1 /\ job'[j].price = request[j].price
        BY <3>2
      <4>2. SentIsBounded(j)'
        BY <1>5, <1>6, <2>4, <2>5, <4>1 DEF SentIsBounded
      <4>3. NextIsSpaced(j)'
        BY <1>5, <2>1, <2>2, <4>1 DEF NextIsSpaced, LastIs
      <4> QED
        BY <4>2, <4>3
    <3>5. OrdersInv'
      <4> SUFFICES ASSUME NEW k \in Jobs, k # j
                   PROVE  SentIsBounded(k)' /\ NextIsSpaced(k)' /\ Spaced(k)'
        BY <2>4, <3>4 DEF OrdersInv
      <4> QED
        BY <2>1, <3>2, <3>3, ElsewhereKeeps
    <3>6. NotStarted'
      BY <2>1, <2>3, <3>3 DEF NotStarted
    <3> QED
      BY <1>1, <2>1, <3>3, <3>5, <3>6 DEF ListsAreClean
  <2>6. CASE ~(Count > 1)
    <3>1. UNCHANGED <<jobs, job>> /\ Registered' = Registered
      BY <1>9, <2>6 DEF Register, Registered
    <3>2. OrdersInv'
      BY <2>1, <3>1, ElsewhereKeeps DEF OrdersInv
    <3>3. NotStarted'
      BY <2>1, <2>3, <3>1 DEF NotStarted
    <3> QED
      BY <1>1, <2>1, <3>1, <3>2, <3>3 DEF ListsAreClean
  <2> QED
    BY <2>5, <2>6
<1> QED
  BY <1>7, <1>8, <1>9

LEMMA OnPriceKeepsOrders ==
  ASSUME JInv, NEW w \in Workers, OnPrice(w)
  PROVE  ListsAreClean' /\ NotStarted' /\ FewAtWork' /\ OrdersInv'
<1>1. PICK p \in Prices : NextDue(w, jobs, p, now)
  BY DEF OnPrice
<1>2. worker[w].job = NoJob /\ NoJob \notin Jobs
  BY DEF OnPrice, JInv, ListsAreClean, Resting
<1>3. jobs \in Seq(Jobs) /\ now \in Times /\ Distinct(jobs)
  BY DEF JInv, IInv, GridTypeOK, ListsAreClean
<1>4. Registered = Elements(jobs) /\ Elements(jobs) \subseteq Jobs
  BY <1>3, ElementOfSeq DEF Registered, Elements
<1>5. \A j \in Jobs : request[j].pc # "over" => j \notin Elements(jobs)
  BY <1>4 DEF JInv, NotStarted
<1>6. UNCHANGED <<request, jobs, job, opened>> /\ Registered' = Registered
  BY DEF OnPrice, Registered
<1>7. /\ ListsAreClean' /\ NotStarted' /\ FewAtWork'
      /\ \A j \in Jobs \ {worker[w].job} : SentIsBounded(j)' /\ NextIsSpaced(j)' /\ Spaced(j)'
  BY <1>1, <1>2, <1>3, <1>4, <1>5, <1>6, LoopKeeps
<1> QED
  BY <1>2, <1>7 DEF OrdersInv

\* The order of an unspoiled job lies where it should.
LEMMA SpacedAfter ==
  ASSUME JInv, NEW j \in Jobs, NEW p \in Prices, opened'[j] = Append(opened[j], p),
         spoiled[j] = 0 => LastIs(j, job[j].price) /\ PriceConditionMet(j, p),
         spoiled'[j] = spoiled[j]
  PROVE  Spaced(j)' /\ LastIs(j, p)'
<1> DEFINE o == opened[j]
           n == Len(o)
<1>1. o \in Seq(Prices) /\ n \in Nat /\ Spaced(j)
  BY DEF JInv, IInv, GridTypeOK, OrdersInv
<1>2. /\ opened'[j] # <<>> /\ Len(opened'[j]) = n + 1
      /\ \A i \in 1 .. n : opened'[j][i] = o[i]
      /\ opened'[j][n + 1] = p
  <2> DEFINE a == Append(o, p)
  <2>1. /\ a # <<>> /\ Len(a) = n + 1
        /\ \A i \in 1 .. n : a[i] = o[i]
        /\ a[n + 1] = p
    BY <1>1, AppendProperties
  <2>2. opened'[j] = a
    OBVIOUS
  <2> HIDE DEF a, n, o
  <2> QED
    BY <2>1, <2>2
<1>3. LastIs(j, p)'
  BY <1>2 DEF LastIs
<1>4. ASSUME spoiled[j] = 0, NEW i \in 1 .. n
      PROVE  LET move == opened'[j][i + 1] - opened'[j][i] IN
             IF WantsUp(j) THEN move >= Spacing ELSE -move >= Spacing
  <2>1. CASE i < n
    <3>1. i \in 1 .. n - 1 /\ i + 1 \in 1 .. n
      BY <1>1, <2>1
    <3> QED
      BY <1>1, <1>2, <1>4, <3>1 DEF Spaced
  <2>2. CASE i = n
    <3>1. o[n] = job[j].price
      BY <1>4, <2>2 DEF LastIs
    <3>2. o[n] \in Nat /\ p \in Nat /\ Spacing \in Nat
      BY <1>1, <2>2, ElementOfSeq
    <3>3. IF WantsUp(j) THEN p - o[n] >= Spacing ELSE o[n] - p >= Spacing
      BY <1>4, <3>1 DEF PriceConditionMet
    <3> QED
      BY <1>2, <2>2, <3>2, <3>3
  <2> QED
    BY <1>1, <2>1, <2>2
<1>5. Spaced(j)'
  <2>1. \A i \in 1 .. Len(opened'[j]) - 1 : i \in 1 .. n
    BY <1>1, <1>2
  <2> QED
    BY <1>4, <2>1 DEF Spaced, WantsUp
<1> QED
  BY <1>3, <1>5

LEMMA ExecutedKeepsOrders ==
  ASSUME JInv, NEW w \in Workers, Executed(w)
  PROVE  ListsAreClean' /\ NotStarted' /\ FewAtWork' /\ OrdersInv'
<1>0. PICK j \in Jobs : j = worker[w].job
  BY StateFields DEF Executed, JInv
<1> DEFINE x == [worker[w] EXCEPT !.pc = "opened"]
<1>1. worker[w].pc = "open" /\ worker' = [worker EXCEPT ![w] = x]
  BY DEF Executed
<1>2. j \in Jobs /\ worker[w].price \in Prices /\ worker[w] \in Errands
      /\ worker \in [Workers -> Errands]
  BY <1>1, StateFields DEF JInv, IInv, GridTypeOK
<1>3. /\ x \in Errands /\ x.pc = "opened" /\ x.job = worker[w].job /\ x.todo = worker[w].todo
      /\ x.price = worker[w].price
  BY <1>2 DEF Errands
<1>4. UNCHANGED <<request, jobs, job, spoiled>> /\ Registered' = Registered
  BY DEF Executed, Registered
<1>5. /\ opened'[j] = Append(opened[j], worker[w].price)
      /\ \A k \in Jobs : k # j => opened'[k] = opened[k]
  BY <1>0, <1>2 DEF Executed, JInv, IInv, GridTypeOK
<1> HIDE DEF x
<1>6. ListsAreClean'
  BY <1>1, <1>2, <1>3, <1>4 DEF JInv, ListsAreClean
<1>7. NotStarted'
  <2>1. \A v \in Workers : worker'[v].job = worker[v].job /\ worker'[v].todo = worker[v].todo
    BY <1>1, <1>2, <1>3
  <2> QED
    BY <1>0, <1>2, <1>4, <1>5, <2>1 DEF JInv, NotStarted
<1>8. FewAtWork' /\ Cardinality(OpenOf(j)') = Cardinality(OpenOf(j)) - 1
  <2>1. w \in OpenOf(j) /\ Cardinality(OpenOf(j)) \in Nat /\ IInv /\ FewAtWork
    BY <1>0, <1>1, <1>2, OpenIsFinite DEF JInv, OpenOf, Holders
  <2>2. FewAtWork' /\ Cardinality(OpenOf(j)') = Cardinality(OpenOf(j)) - 1 + 0
    BY <1>0, <1>1, <1>2, <1>3, <2>1, OpenAfter
  <2> QED
    BY <2>1, <2>2
<1>9. \A k \in Jobs : k # j => SentIsBounded(k)' /\ NextIsSpaced(k)' /\ Spaced(k)'
  BY <1>0, <1>1, <1>3, <1>4, <1>5, UntouchedKeeps
<1>10. Holders(j)' = Holders(j) /\ w \in Holders(j)
  BY <1>0, <1>1, <1>2, <1>3 DEF Holders
<1>11. SentIsBounded(j) /\ NextIsSpaced(j)
  BY <1>2 DEF JInv, OrdersInv
<1>12. SentIsBounded(j)'
  <2>1. Len(opened'[j]) = Len(opened[j]) + 1 /\ Len(opened[j]) \in Nat
    <3>1. opened[j] \in Seq(Prices)
      BY DEF JInv, IInv, GridTypeOK
    <3> QED
      BY <1>2, <1>5, <3>1, AppendProperties
  <2>2. Cardinality(OpenOf(j)) \in Nat
    BY OpenIsFinite DEF JInv
  <2>3. Sent(j)' = Len(opened'[j]) + Cardinality(OpenOf(j)') /\ Sent(j) = Len(opened[j]) + Cardinality(OpenOf(j))
    BY DEF Sent
  <2>4. Sent(j)' = Sent(j)
    BY <1>8, <2>1, <2>2, <2>3
  <2> QED
    BY <1>4, <1>10, <1>11, <2>4 DEF SentIsBounded
<1>13. Spaced(j)' /\ \E p : p = worker[w].price /\ LastIs(j, p)'
  <2>1. spoiled[j] = 0 => LastIs(j, job[j].price) /\ PriceConditionMet(j, worker[w].price)
    BY <1>1, <1>10, <1>11 DEF NextIsSpaced
  <2>2. PICK p \in Prices : p = worker[w].price
    BY <1>2
  <2>3. Spaced(j)' /\ LastIs(j, p)'
    BY <1>4, <1>5, <2>1, <2>2, SpacedAfter
  <2> QED
    BY <2>2, <2>3
<1>14. NextIsSpaced(j)'
  <2>1. \A v \in Holders(j) : spoiled[j] = 0 => v = w
    BY <1>10, <1>11 DEF NextIsSpaced
  <2>2. LastIs(j, worker[w].price)'
    BY <1>1, <1>2, <1>3, <1>13 DEF LastIs
  <2>3. worker'[w].pc = "opened"
    BY <1>1, <1>2, <1>3
  <2> QED
    BY <1>4, <1>10, <2>1, <2>2, <2>3 DEF NextIsSpaced
<1> QED
  BY <1>6, <1>7, <1>8, <1>9, <1>12, <1>13, <1>14 DEF OrdersInv

LEMMA OneLessToOpen ==
  ASSUME NEW j \in Jobs, SentIsBounded(j), NEW n \in Nat, NEW m \in Nat, m <= n,
         Sent(j) = n, Sent(j)' = m, Holders(j) # {},
         spoiled[j] \in Nat, spoiled'[j] = spoiled[j], job[j].remaining \in Int,
         j \in Registered' => /\ j \in Registered
                              /\ job'[j].remaining = job[j].remaining - 1
                              /\ job'[j].remaining >= 1
  PROVE  SentIsBounded(j)'
  BY DEF SentIsBounded

LEMMA SentFollowsOpen ==
  ASSUME NEW j, Len(opened[j]) \in Nat, Cardinality(OpenOf(j)) \in Nat,
         Cardinality(OpenOf(j)') \in Nat, Cardinality(OpenOf(j)') <= Cardinality(OpenOf(j)),
         opened'[j] = opened[j]
  PROVE  Sent(j) \in Nat /\ Sent(j)' \in Nat /\ Sent(j)' <= Sent(j)
<1> DEFINE m == Len(opened[j])
           c == Cardinality(OpenOf(j))
           d == Cardinality(OpenOf(j)')
<1>1. Sent(j) = m + c /\ Sent(j)' = m + d
  BY DEF Sent
<1>2. m \in Nat /\ c \in Nat /\ d \in Nat /\ d <= c
  OBVIOUS
<1> HIDE DEF m, c, d
<1> QED
  BY <1>1, <1>2

CountedOrGone(w, j) ==
  j \in Registered' => /\ worker[w].pc # "open"
                       /\ j \in Registered
                       /\ job'[j].remaining = job[j].remaining - 1
                       /\ job'[j].remaining >= 1
                       /\ job'[j].price = worker[w].price

\* The job w leaves: its order is counted, or the job goes.
LEMMA LeftKeeps ==
  ASSUME JInv, NEW w \in Workers, NEW x \in Errands, worker' = [worker EXCEPT ![w] = x],
         NEW j \in Jobs, w \in Holders(j), x.job # j,
         opened'[j] = opened[j], spoiled'[j] = spoiled[j], CountedOrGone(w, j)
  PROVE  SentIsBounded(j)' /\ NextIsSpaced(j)' /\ Spaced(j)'
<1>1. Holders(j)' = Holders(j) \ {w} /\ OpenOf(j)' = OpenOf(j) \ {w}
  <2>1. IInv
    BY DEF JInv
  <2> QED
    BY <2>1 DEF Holders, OpenOf, IInv, GridTypeOK
<1>2. SentIsBounded(j) /\ NextIsSpaced(j) /\ Spaced(j)
  BY DEF JInv, OrdersInv
<1>3. /\ spoiled[j] \in Nat /\ Len(opened[j]) \in Nat /\ job[j].remaining \in Int
      /\ Cardinality(OpenOf(j)) \in Nat /\ IsFiniteSet(OpenOf(j))
  BY OpenIsFinite DEF JInv, IInv, GridTypeOK, Fields
<1>4. /\ Cardinality(OpenOf(j)') \in Nat
      /\ Cardinality(OpenOf(j)') <= Cardinality(OpenOf(j))
  BY <1>1, <1>3, FS_Subset, FS_CardinalityType
<1>5. /\ Sent(j) \in Nat /\ Sent(j)' \in Nat /\ Sent(j)' <= Sent(j)
  BY <1>3, <1>4, SentFollowsOpen
<1>6. SentIsBounded(j)'
  <2>1. Holders(j) # {}
    OBVIOUS
  <2> QED
    BY <1>2, <1>3, <1>5, <2>1, OneLessToOpen DEF CountedOrGone
<1>7. NextIsSpaced(j)'
  <2> SUFFICES ASSUME spoiled[j] = 0 PROVE NextIsSpaced(j)'
    BY DEF NextIsSpaced
  <2>1. Holders(j)' = {}
    BY <1>1, <1>2 DEF NextIsSpaced
  <2>2. j \in Registered' => LastIs(j, worker[w].price)
    BY <1>2 DEF NextIsSpaced, CountedOrGone
  <2> QED
    BY <2>1, <2>2 DEF NextIsSpaced, LastIs, CountedOrGone
<1>8. Spaced(j)'
  BY <1>2 DEF Spaced
<1> QED
  BY <1>6, <1>7, <1>8

LEMMA CountedKeepsOrders ==
  ASSUME JInv, NEW w \in Workers, Counted(w)
  PROVE  ListsAreClean' /\ NotStarted' /\ FewAtWork' /\ OrdersInv'
<1>1. PICK j \in Jobs : j = worker[w].job
  BY StateFields DEF Counted, JInv
<1>2. PICK left : left = job[j].remaining - 1
  OBVIOUS
<1>3. /\ worker[w].pc = "opened" /\ worker[w].todo \in Seq(Jobs)
      /\ worker[w].price \in Prices /\ worker[w].time \in Times
  BY StateFields DEF Counted, JInv
<1>4. left \in Int
  BY <1>2 DEF JInv, IInv, GridTypeOK, Fields
<1>5. /\ UNCHANGED <<request, opened>>
      /\ job' = [job EXCEPT ![j] = [remaining |-> left, price |-> worker[w].price,
                                    time |-> worker[w].time]]
      /\ jobs' = IF left <= 0 THEN Removed(jobs, j) ELSE jobs
      /\ Stops(w) \/ NextDue(w, worker[w].todo, worker[w].price, worker[w].time)
  BY <1>1, <1>2 DEF Counted, Stops
<1>6. /\ Distinct(jobs')
      /\ Registered' = IF left <= 0 THEN Registered \ {j} ELSE Registered
  <2>1. jobs \in Seq(Jobs) /\ Distinct(jobs)
    BY DEF JInv, IInv, GridTypeOK, ListsAreClean
  <2>2. /\ Distinct(Removed(jobs, j))
        /\ Elements(Removed(jobs, j)) = Elements(jobs) \ {j}
    BY <2>1, WithoutProperties
  <2> QED
    BY <1>5, <2>1, <2>2 DEF Registered, Elements
<1>7. \A k \in Jobs \ {j} : job'[k] = job[k] /\ (k \in Registered' <=> k \in Registered)
  BY <1>5, <1>6 DEF JInv, IInv, GridTypeOK
<1>8. /\ Distinct(worker[w].todo) /\ j \notin Elements(worker[w].todo)
      /\ \A k \in Jobs : request[k].pc # "over" => k \notin Elements(worker[w].todo)
  BY <1>1 DEF JInv, ListsAreClean, NotStarted
<1>9. /\ ListsAreClean' /\ NotStarted' /\ FewAtWork'
      /\ \A k \in Jobs \ {j} : SentIsBounded(k)' /\ NextIsSpaced(k)' /\ Spaced(k)'
      /\ \E x \in Errands : /\ worker' = [worker EXCEPT ![w] = x]
                            /\ x.job # j \/ x = Resting
                            /\ spoiled'[j] = spoiled[j]
  <2>1. Registered' \subseteq Registered
    BY <1>6
  <2> QED
    BY <1>1, <1>3, <1>5, <1>6, <1>7, <1>8, <2>1, LoopKeeps
<1>10. PICK x \in Errands : /\ worker' = [worker EXCEPT ![w] = x]
                            /\ x.job # j
                            /\ spoiled'[j] = spoiled[j]
  <2>1. Resting.job = NoJob /\ NoJob \notin Jobs
    BY DEF Resting
  <2> QED
    BY <1>9, <2>1
<1>11. SentIsBounded(j)' /\ NextIsSpaced(j)' /\ Spaced(j)'
  <2>1. w \in Holders(j)
    BY <1>1 DEF Holders
  <2>2. job'[j].remaining = left /\ job'[j].price = worker[w].price
    BY <1>5 DEF JInv, IInv, GridTypeOK
  <2>3. j \in Registered' => j \in Registered /\ left >= 1
    BY <1>4, <1>6
  <2> QED
    BY <1>2, <1>3, <1>5, <1>10, <2>1, <2>2, <2>3, LeftKeeps DEF CountedOrGone
<1> QED
  BY <1>9, <1>11 DEF OrdersInv

LEMMA FailedKeepsOrders ==
  ASSUME JInv, NEW w \in Workers, Failed(w)
  PROVE  ListsAreClean' /\ NotStarted' /\ FewAtWork' /\ OrdersInv'
<1>1. PICK j \in Jobs : j = worker[w].job
  BY StateFields DEF Failed, JInv
<1>2. /\ worker[w].todo \in Seq(Jobs) /\ worker[w].price \in Prices /\ worker[w].time \in Times
  BY StateFields DEF Failed, JInv
<1>3. /\ UNCHANGED <<request, opened, job>>
      /\ jobs' = Removed(jobs, j)
      /\ Stops(w) \/ NextDue(w, worker[w].todo, worker[w].price, worker[w].time)
  BY <1>1 DEF Failed, Stops
<1>4. Distinct(jobs') /\ Registered' = Registered \ {j}
  <2>1. jobs \in Seq(Jobs) /\ Distinct(jobs)
    BY DEF JInv, IInv, GridTypeOK, ListsAreClean
  <2>2. /\ Distinct(Removed(jobs, j))
        /\ Elements(Removed(jobs, j)) = Elements(jobs) \ {j}
    BY <2>1, WithoutProperties
  <2> QED
    BY <1>3, <2>2 DEF Registered, Elements
<1>5. \A k \in Jobs \ {j} : job'[k] = job[k] /\ (k \in Registered' <=> k \in Registered)
  BY <1>3, <1>4
<1>6. /\ Distinct(worker[w].todo) /\ j \notin Elements(worker[w].todo)
      /\ \A k \in Jobs : request[k].pc # "over" => k \notin Elements(worker[w].todo)
  BY <1>1 DEF JInv, ListsAreClean, NotStarted
<1>7. /\ ListsAreClean' /\ NotStarted' /\ FewAtWork'
      /\ \A k \in Jobs \ {j} : SentIsBounded(k)' /\ NextIsSpaced(k)' /\ Spaced(k)'
      /\ \E x \in Errands : /\ worker' = [worker EXCEPT ![w] = x]
                            /\ x.job # j \/ x = Resting
                            /\ spoiled'[j] = spoiled[j]
  <2>1. Registered' \subseteq Registered
    BY <1>4
  <2> QED
    BY <1>1, <1>2, <1>3, <1>4, <1>5, <1>6, <2>1, LoopKeeps
<1>8. PICK x \in Errands : /\ worker' = [worker EXCEPT ![w] = x]
                           /\ x.job # j
                           /\ spoiled'[j] = spoiled[j]
  <2>1. Resting.job = NoJob /\ NoJob \notin Jobs
    BY DEF Resting
  <2> QED
    BY <1>7, <2>1
<1>9. SentIsBounded(j)' /\ NextIsSpaced(j)' /\ Spaced(j)'
  <2>1. w \in Holders(j) /\ j \notin Registered'
    BY <1>1, <1>4 DEF Holders
  <2> QED
    BY <1>3, <1>8, <2>1, LeftKeeps DEF CountedOrGone
<1> QED
  BY <1>7, <1>9 DEF OrdersInv

\* The order of a cancelled worker may still be executed, and it spoils the job.
LEMMA SpoiledFits ==
  ASSUME NEW j \in Jobs, SentIsBounded(j), NEW n \in Nat, NEW m \in Nat, m <= n,
         Sent(j) = n, Sent(j)' = m, spoiled[j] \in Nat, spoiled'[j] = spoiled[j] + 1,
         job'[j] = job[j], job[j].remaining \in Int, j \in Registered' <=> j \in Registered
  PROVE  SentIsBounded(j)' /\ NextIsSpaced(j)' /\ Spaced(j)'
<1>1. SentIsBounded(j)'
  BY DEF SentIsBounded
<1>2. spoiled'[j] # 0
  OBVIOUS
<1> QED
  BY <1>1, <1>2 DEF NextIsSpaced, Spaced

LEMMA CancelledKeepsOrders ==
  ASSUME JInv, NEW w \in Workers, WorkerCancelled(w)
  PROVE  ListsAreClean' /\ NotStarted' /\ FewAtWork' /\ OrdersInv'
<1>1. PICK j \in Jobs : j = worker[w].job
  BY StateFields DEF WorkerCancelled, JInv
<1>2. Resting \in Errands /\ Resting.pc = "idle" /\ Resting.job = NoJob /\ Resting.todo = <<>>
  BY RestingIsAState DEF Resting
<1>3. /\ UNCHANGED <<request, jobs, job, opened>> /\ Registered' = Registered
      /\ worker' = [worker EXCEPT ![w] = Resting]
      /\ spoiled' = [spoiled EXCEPT ![j] = @ + 1]
  BY <1>1 DEF WorkerCancelled, Registered
<1>4. \A v \in Workers : worker'[v] = worker[v] \/ worker'[v] = Resting
  BY <1>3 DEF JInv, IInv, GridTypeOK
<1>5. Distinct(<<>>) /\ Elements(<<>>) = {}
  BY DEF Distinct, Elements
<1>6. ListsAreClean'
  BY <1>2, <1>3, <1>4, <1>5 DEF JInv, ListsAreClean
<1>7. NotStarted'
  BY <1>2, <1>3, <1>4, <1>5 DEF JInv, NotStarted
<1>8. FewAtWork'
  BY <1>2, <1>3, OpenAfter DEF JInv
<1>9. \A k \in Jobs : k # j => SentIsBounded(k)' /\ NextIsSpaced(k)' /\ Spaced(k)'
  <2>1. \A k \in Jobs : k # j => spoiled'[k] = spoiled[k]
    BY <1>3 DEF JInv, IInv, GridTypeOK
  <2> QED
    BY <1>1, <1>2, <1>3, <2>1, UntouchedKeeps
<1>10. SentIsBounded(j)' /\ NextIsSpaced(j)' /\ Spaced(j)'
  <2>1. OpenOf(j)' = OpenOf(j) \ {w}
    BY <1>2, <1>3, HoldersAfter DEF JInv
  <2>2. /\ spoiled[j] \in Nat /\ Len(opened[j]) \in Nat /\ job[j].remaining \in Int
        /\ Cardinality(OpenOf(j)) \in Nat /\ IsFiniteSet(OpenOf(j))
        /\ spoiled'[j] = spoiled[j] + 1
    BY <1>3, OpenIsFinite DEF JInv, IInv, GridTypeOK, Fields
  <2>3. /\ Cardinality(OpenOf(j)') \in Nat
        /\ Cardinality(OpenOf(j)') <= Cardinality(OpenOf(j))
    BY <2>1, <2>2, FS_Subset, FS_CardinalityType
  <2>4. Sent(j) \in Nat /\ Sent(j)' \in Nat /\ Sent(j)' <= Sent(j)
    BY <1>3, <2>2, <2>3, SentFollowsOpen
  <2>5. SentIsBounded(j)
    BY DEF JInv, OrdersInv
  <2> QED
    BY <1>3, <2>2, <2>4, <2>5, SpoiledFits
<1> QED
  BY <1>6, <1>7, <1>8, <1>9, <1>10 DEF OrdersInv

LEMMA TickKeepsOrders ==
  ASSUME JInv, UNCHANGED <<request, jobs, job, worker, opened, spoiled>>
  PROVE  ListsAreClean' /\ NotStarted' /\ FewAtWork' /\ OrdersInv'
<1>1. Registered' = Registered
  BY DEF Registered
<1>2. OrdersInv'
  BY <1>1, ElsewhereKeeps DEF OrdersInv
<1> QED
  BY <1>1, <1>2 DEF JInv, ListsAreClean, NotStarted, FewAtWork

LEMMA InitHoldsOrders == GridInit => JInv
<1> SUFFICES ASSUME GridInit PROVE JInv
  OBVIOUS
<1>1. IInv
  BY InitHolds
<1>2. /\ jobs = <<>> /\ \A w \in Workers : worker[w] = Resting
      /\ \A j \in Jobs : opened[j] = <<>> /\ spoiled[j] = 0 /\ request[j].pc = "new"
  BY DEF GridInit
<1>3. Resting.pc = "idle" /\ Resting.job = NoJob /\ Resting.todo = <<>>
  BY DEF Resting
<1>4. Distinct(<<>>) /\ Elements(<<>>) = {} /\ Registered = {}
  BY <1>2 DEF Distinct, Elements, Registered
<1>5. ListsAreClean /\ NotStarted
  BY <1>2, <1>3, <1>4 DEF ListsAreClean, NotStarted
<1>6. FewAtWork
  <2>1. {w \in Workers : worker[w].pc # "idle"} = {}
    BY <1>2, <1>3
  <2> QED
    BY <2>1, FS_EmptySet DEF FewAtWork
<1>7. OrdersInv
  <2> SUFFICES ASSUME NEW j \in Jobs PROVE SentIsBounded(j) /\ NextIsSpaced(j) /\ Spaced(j)
    BY DEF OrdersInv
  <2>1. Holders(j) = {} /\ OpenOf(j) = {}
    BY <1>2, <1>3 DEF Holders, OpenOf
  <2>2. Len(opened[j]) = 0
    BY <1>2
  <2>3. Sent(j) = 0
    BY <2>1, <2>2, FS_EmptySet DEF Sent
  <2> QED
    BY <1>2, <1>4, <2>1, <2>2, <2>3 DEF SentIsBounded, NextIsSpaced, Spaced
<1> QED
  BY <1>1, <1>5, <1>6, <1>7 DEF JInv

LEMMA OrdersAreKept == GridSpec => []JInv
<1>1. JInv /\ [GridNext]_gridVars => JInv'
  <2> SUFFICES ASSUME JInv, [GridNext]_gridVars PROVE JInv'
    OBVIOUS
  <2>1. IInv
    BY DEF JInv
  <2>2. CASE UNCHANGED gridVars
    <3>1. IInv'
      BY <2>1, <2>2 DEF gridVars, IInv, GridTypeOK, UnderWay
    <3> QED
      BY <2>2, <3>1, TickKeepsOrders DEF gridVars, JInv
  <2>3. CASE Tick
    BY <2>1, <2>3, TickKeeps, TickKeepsOrders DEF Tick, JInv
  <2>4. ASSUME NEW j \in Jobs, StartJob(j) \/ FirstExecuted(j) \/ Register(j) \/ FirstFails(j)
        PROVE  JInv'
    BY <2>1, <2>4, RequestKeeps, RequestKeepsOrders DEF JInv
  <2>5. ASSUME NEW w \in Workers,
               OnPrice(w) \/ Executed(w) \/ Counted(w) \/ Failed(w) \/ WorkerCancelled(w)
        PROVE  JInv'
    <3>1. IInv'
      BY <2>1, <2>5, OnPriceKeeps, ExecutedKeeps, CountedKeeps, FailedKeeps, CancelledKeeps
    <3>2. ListsAreClean' /\ NotStarted' /\ FewAtWork' /\ OrdersInv'
      BY <2>5, OnPriceKeepsOrders, ExecutedKeepsOrders, CountedKeepsOrders,
         FailedKeepsOrders, CancelledKeepsOrders
    <3> QED
      BY <3>1, <3>2 DEF JInv
  <2> QED
    BY <2>2, <2>3, <2>4, <2>5 DEF GridNext
<1> QED
  BY <1>1, InitHoldsOrders, PTL DEF GridSpec

\* A job opens at most the orders asked for and one more for each that was spoiled:
\* what on_price counts down covers the order in flight as well.
THEOREM CountHolds == GridSpec => []CountIsKept
<1>1. JInv => CountIsKept
  <2> SUFFICES ASSUME JInv, NEW j \in Jobs PROVE Len(opened[j]) <= Count + spoiled[j]
    BY DEF CountIsKept
  <2>1. /\ Len(opened[j]) \in Nat /\ Cardinality(OpenOf(j)) \in Nat /\ spoiled[j] \in Nat
    BY OpenIsFinite DEF JInv, IInv, GridTypeOK
  <2>2. Sent(j) <= Count + spoiled[j] /\ Sent(j) = Len(opened[j]) + Cardinality(OpenOf(j))
    BY DEF JInv, OrdersInv, SentIsBounded, Sent
  <2> QED
    BY <2>1, <2>2
<1> QED
  BY <1>1, OrdersAreKept, PTL

\* The orders of a job nothing spoiled lie in its direction, the spacing apart:
\* the price that _price_condition_met compares with is that of the last order.
THEOREM SpacingHolds == GridSpec => []SpacingIsKept
<1>1. JInv => SpacingIsKept
  BY DEF JInv, OrdersInv, Spaced, SpacingIsKept
<1> QED
  BY <1>1, OrdersAreKept, PTL
=============================================================================
