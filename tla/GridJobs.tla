------------------------------ MODULE GridJobs ------------------------------
(***************************************************************************)
(* The GridJobManager of one account (src/python/grid_jobs.py), for jobs   *)
(* on one symbol.  The order handler of the dashboard opens order 1 of a   *)
(* job and registers the rest; the tick handler of a connection's worker   *)
(* then opens one order at a time, when the price has moved by the spacing *)
(* and the delay has passed.  It goes through a copy of the job list and   *)
(* waits for the terminal at every order.  A new connection has a worker   *)
(* of its own, which starts before the old one is cancelled; a cancelled   *)
(* worker drops its wait and leaves the job as it was.                     *)
(***************************************************************************)
EXTENDS Integers, Sequences, FiniteSets

CONSTANTS
  Jobs,     \* a job is named by the request that starts it
  Workers,  \* workers of connections of the account
  SideOf, Direction, \* BUY or SELL, with or against, by job
  Count,    \* orders of a job
  Spacing,  \* spacing_points, as a price
  Delay,    \* delay_seconds
  Prices,   \* bound: prices of ticks
  LastTime, \* bound: the clock
  MaxSpoiled, \* bound: when a job has spoiled as many orders, no worker is cancelled
  NoJob

ASSUME GridJobsAssumption ==
  /\ SideOf \in [Jobs -> {"BUY", "SELL"}]
  /\ Direction \in [Jobs -> {"with", "against"}]
  /\ Count \in Nat \ {0}
  /\ {Spacing, Delay, LastTime, MaxSpoiled} \subseteq Nat
  /\ Prices \subseteq Nat
  /\ NoJob \notin Jobs

VARIABLES
  now,      \* time.monotonic()
  request,  \* the request of each job: new, waiting for order 1, over
  jobs,     \* _jobs, in the order they were registered
  job,      \* the fields of each GridJob
  worker,   \* the local state of each worker
  opened,   \* history: per executed order of a job the price of the tick it was
            \* decided on, which is not the price it was filled at
  spoiled   \* history: orders of a job that a cancelled worker was waiting for,
            \* that a worker sent while another one waited for one, or after
            \* another one had taken the job off the list

gridVars == <<now, request, jobs, job, worker, opened, spoiled>>

Times == 0 .. LastTime
Fields == [remaining : Int, price : Prices \cup {0}, time : Times]

\* todo: jobs of the copy not looked at yet; job: the one being ordered; pc:
\* "open" when the order is sent, "opened" when the terminal has executed it.
Errands == [pc : {"idle", "open", "opened"}, todo : Seq(Jobs), job : Jobs \cup {NoJob},
           price : Prices \cup {0}, time : Times]
Resting == [pc |-> "idle", todo |-> <<>>, job |-> NoJob, price |-> 0, time |-> 0]

GridInit ==
  /\ now = 0
  /\ request = [j \in Jobs |-> [pc |-> "new", price |-> 0]]
  /\ jobs = <<>>
  /\ job = [j \in Jobs |-> [remaining |-> 0, price |-> 0, time |-> 0]]
  /\ worker = [w \in Workers |-> Resting]
  /\ opened = [j \in Jobs |-> <<>>]
  /\ spoiled = [j \in Jobs |-> 0]

Registered == {jobs[i] : i \in DOMAIN jobs}

\* list.remove; a job is in the list once.
Removed(list, j) ==
  LET i == CHOOSE k \in DOMAIN list : list[k] = j
  IN IF \E k \in DOMAIN list : list[k] = j
     THEN SubSeq(list, 1, i - 1) \o SubSeq(list, i + 1, Len(list))
     ELSE list

-----------------------------------------------------------------------------
(* start_job *)

\* The price is the one in the cache when the request comes.
StartJob(j) ==
  /\ request[j].pc = "new"
  /\ \E p \in Prices : request' = [request EXCEPT ![j] = [pc |-> "open", price |-> p]]
  /\ UNCHANGED <<now, jobs, job, worker, opened, spoiled>>

FirstExecuted(j) ==
  /\ request[j].pc = "open"
  /\ request' = [request EXCEPT ![j].pc = "opened"]
  /\ opened' = [opened EXCEPT ![j] = <<request[j].price>>]
  /\ UNCHANGED <<now, jobs, job, worker, spoiled>>

\* mutant: order 1 is not among the orders asked for.
RegisterAll(j) ==
  /\ request[j].pc = "opened"
  /\ request' = [request EXCEPT ![j].pc = "over"]
  /\ jobs' = Append(jobs, j)
  /\ job' = [job EXCEPT ![j] = [remaining |-> Count, price |-> request[j].price, time |-> now]]
  /\ UNCHANGED <<now, worker, opened, spoiled>>

\* Order 1 is answered: the other orders become a job, if there are any.
Register(j) ==
  /\ request[j].pc = "opened"
  /\ request' = [request EXCEPT ![j].pc = "over"]
  /\ IF Count > 1
     THEN /\ jobs' = Append(jobs, j)
          /\ job' = [job EXCEPT ![j] = [remaining |-> Count - 1,
                                        price |-> request[j].price, time |-> now]]
     ELSE UNCHANGED <<jobs, job>>
  /\ UNCHANGED <<now, worker, opened, spoiled>>

\* It is refused, or its answer is late.
FirstFails(j) ==
  /\ request[j].pc \in {"open", "opened"}
  /\ request' = [request EXCEPT ![j].pc = "over"]
  /\ UNCHANGED <<now, jobs, job, worker, opened, spoiled>>

-----------------------------------------------------------------------------
(* on_price *)

WantsUp(j) == (SideOf[j] = "BUY") = (Direction[j] = "with")

\* mutant: the spacing is taken in either direction.
PriceConditionMetEither(j, price) ==
  price - job[j].price >= Spacing \/ job[j].price - price >= Spacing

\* _price_condition_met
PriceConditionMet(j, price) ==
  IF WantsUp(j) THEN price - job[j].price >= Spacing ELSE job[j].price - price >= Spacing

Due(j, price, time) == time - job[j].time >= Delay /\ PriceConditionMet(j, price)

\* The loop up to its next await: the jobs that are not due are passed by.  A job
\* that has left the list meanwhile is looked at all the same.
NextDue(w, todo, price, time) ==
  LET due == {i \in DOMAIN todo : Due(todo[i], price, time)}
      shared(j) == j \notin Registered \/ \E v \in Workers \ {w} : worker[v].job = j
  IN IF due = {} THEN worker' = [worker EXCEPT ![w] = Resting] /\ UNCHANGED spoiled
     ELSE \E i \in due :
            /\ \A k \in due : i <= k
            /\ worker' = [worker EXCEPT ![w] =
                           [pc |-> "open", todo |-> SubSeq(todo, i + 1, Len(todo)),
                            job |-> todo[i], price |-> price, time |-> time]]
            /\ spoiled' = IF shared(todo[i]) THEN [spoiled EXCEPT ![todo[i]] = @ + 1]
                          ELSE spoiled

\* A tick.
OnPrice(w) ==
  /\ worker[w].pc = "idle"
  /\ jobs # <<>>
  /\ \E p \in Prices : NextDue(w, jobs, p, now)
  /\ UNCHANGED <<now, request, jobs, job, opened>>

\* The terminal executes the order the worker waits for.
Executed(w) ==
  LET j == worker[w].job IN
  /\ worker[w].pc = "open"
  /\ worker' = [worker EXCEPT ![w].pc = "opened"]
  /\ opened' = [opened EXCEPT ![j] = Append(@, worker[w].price)]
  /\ UNCHANGED <<now, request, jobs, job, spoiled>>

\* The order is answered.  The time kept is that of the tick.  A job that has no
\* order left goes; when another worker has removed it already, remove raises an
\* error and the rest of the copy is not looked at.
Counted(w) ==
  LET t == worker[w]
      j == t.job
      left == job[j].remaining - 1
      gone == left <= 0 /\ j \notin Registered
  IN /\ t.pc = "opened"
     /\ job' = [job EXCEPT ![j] = [remaining |-> left, price |-> t.price, time |-> t.time]]
     /\ jobs' = IF left <= 0 THEN Removed(jobs, j) ELSE jobs
     /\ IF gone THEN worker' = [worker EXCEPT ![w] = Resting] /\ UNCHANGED spoiled
        ELSE NextDue(w, t.todo, t.price, t.time)
     /\ UNCHANGED <<now, request, opened>>

\* It is refused, or its answer is late: the job goes, executed or not.
Failed(w) ==
  LET t == worker[w] IN
  /\ t.pc \in {"open", "opened"}
  /\ jobs' = Removed(jobs, t.job)
  /\ IF t.job \in Registered THEN NextDue(w, t.todo, t.price, t.time)
     ELSE worker' = [worker EXCEPT ![w] = Resting] /\ UNCHANGED spoiled
  /\ UNCHANGED <<now, request, job, opened>>

\* The connection ends and its worker is cancelled.
WorkerCancelled(w) ==
  LET t == worker[w] IN
  /\ t.pc # "idle"
  /\ spoiled[t.job] < MaxSpoiled
  /\ worker' = [worker EXCEPT ![w] = Resting]
  /\ spoiled' = [spoiled EXCEPT ![t.job] = @ + 1]
  /\ UNCHANGED <<now, request, jobs, job, opened>>

Tick ==
  /\ now < LastTime
  /\ now' = now + 1
  /\ UNCHANGED <<request, jobs, job, worker, opened, spoiled>>

GridNext ==
  \/ \E j \in Jobs : StartJob(j) \/ FirstExecuted(j) \/ Register(j) \/ FirstFails(j)
  \/ \E w \in Workers :
       OnPrice(w) \/ Executed(w) \/ Counted(w) \/ Failed(w) \/ WorkerCancelled(w)
  \/ Tick

GridSpec == GridInit /\ [][GridNext]_gridVars

-----------------------------------------------------------------------------
GridTypeOK ==
  /\ now \in Times
  /\ request \in [Jobs -> [pc : {"new", "open", "opened", "over"}, price : Prices \cup {0}]]
  /\ jobs \in Seq(Jobs)
  /\ job \in [Jobs -> Fields]
  /\ worker \in [Workers -> Errands]
  /\ opened \in [Jobs -> Seq(Prices)]
  /\ spoiled \in [Jobs -> Nat]

\* A job opens no more orders than were asked for, but for one for each order whose
\* worker was cancelled (it may have been executed, and the job sends it again), and
\* one for each order that a second worker sent from its copy of the list, while the
\* first one waited for its own or after it had taken the job off the list.
CountIsKept == \A j \in Jobs : Len(opened[j]) <= Count + spoiled[j]

\* While no order of a job was cancelled or sent twice, its orders lie in its
\* direction, each at least the spacing from the one before.
SpacingIsKept ==
  \A j \in Jobs : spoiled[j] = 0 =>
    \A i \in 1 .. Len(opened[j]) - 1 :
      LET move == opened[j][i + 1] - opened[j][i] IN
      IF WantsUp(j) THEN move >= Spacing ELSE -move >= Spacing
=============================================================================
