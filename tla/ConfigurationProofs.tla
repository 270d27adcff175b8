------------------------- MODULE ConfigurationProofs -------------------------
(***************************************************************************)
(* Proofs about Configuration, for any users, pages and loaders.  What a   *)
(* manager obeys is the stored row unless some task is still to bring it   *)
(* the row as it is now: a handler whose write was executed, or a reload   *)
(* that reads or has read the row.                                         *)
(***************************************************************************)
EXTENDS Configuration, TLAPS

USE ConfigurationAssumption

\* The task r brings, or will bring, the row as it is now.
Fresh(r) == r.pc \in {"wrote", "get"} \/ (r.pc = "got" /\ r.seen.writes = row.writes)

\* It brings an older row, which the manager would take without a note.
Lags(r) == r.pc = "got" /\ manager.writes <= r.seen.writes /\ r.seen.writes # row.writes

Behind == (loaded /\ manager.writes # row.writes) \/ \E t \in Tasks : Lags(task[t])

Follows == Behind => missed \/ \E t \in Tasks : Fresh(task[t])

Stored(rules) == IF rules = None THEN Default ELSE rules

\* What holds of task t in the state r.
HasRead(r) == r.pc = "got" \/ (r.pc \in {"train", "write"} /\ r.op = "train")
TaskIsRight(t, r) ==
  /\ r.pc \in {"bars", "train"} => r.op = "train"
  /\ r.pc = "write" => /\ r.op = "save" => r.rules \in Rules
                       /\ r.op = "clear" => r.rules = None
                       /\ r.op = "train" => r.rules = Stored(r.seen.rules)
  /\ HasRead(r) => /\ r.seen.writes <= row.writes
                   /\ r.seen.writes = row.writes => r.seen = row
  /\ r.pc \in {"get", "got"} => session
  /\ t \in Pages /\ r.pc \in {"bars", "train", "write"} => owner = Author[t] \/ r.orphan

ConfInv ==
  /\ TypeOK
  /\ \A t \in Tasks : TaskIsRight(t, task[t])
  /\ loaded => session
  /\ Follows
  /\ TrainingKeepsRules

LEMMA IdleIsRight ==
  /\ Idle \in States /\ Idle.pc = "idle"
  /\ \A t : TaskIsRight(t, Idle)
  /\ Empty \in Rows
  BY DEF Idle, States, Empty, Rows, TaskIsRight, HasRead

LEMMA InitHolds == Init => ConfInv
<1> SUFFICES ASSUME Init PROVE ConfInv
  OBVIOUS
<1>1. TypeOK
  BY IdleIsRight DEF Init, TypeOK
<1>2. \A t \in Tasks : task[t] = Idle
  BY DEF Init
<1>3. Follows
  BY <1>2, IdleIsRight DEF Init, Follows, Behind, Lags
<1>4. TrainingKeepsRules
  BY DEF Init, TrainingKeepsRules, Empty
<1> QED
  BY <1>1, <1>2, <1>3, <1>4, IdleIsRight DEF ConfInv, Init

\* A step of one task that leaves the rest alone.
LEMMA TaskStepKeeps ==
  ASSUME ConfInv, NEW t \in Tasks, NEW x \in States, task' = [task EXCEPT ![t] = x],
         UNCHANGED <<env, row, manager, loaded, history>>,
         TaskIsRight(t, x), Fresh(task[t]) => Fresh(x), Lags(x) => Lags(task[t])
  PROVE  ConfInv'
<1> USE DEF env, history
<1>1. task \in [Tasks -> States]
  BY DEF ConfInv, TypeOK
<1>2. TypeOK'
  BY <1>1 DEF ConfInv, TypeOK
<1>3. ASSUME NEW s \in Tasks PROVE TaskIsRight(s, task[s])'
  <2>1. PICK y : y = task'[s]
    OBVIOUS
  <2>2. TaskIsRight(s, y)
    BY <1>1, <2>1 DEF ConfInv
  <2>3. TaskIsRight(s, y)'
    BY <2>2 DEF TaskIsRight, HasRead
  <2> QED
    BY <2>1, <2>3
<1>4. Follows'
  <2>1. \A y : /\ Fresh(y)' <=> Fresh(y)
               /\ Lags(y)' <=> Lags(y)
    BY DEF Fresh, Lags
  <2>2. \A s \in Tasks : (Fresh(task[s]) => Fresh(task'[s])) /\ (Lags(task'[s]) => Lags(task[s]))
    BY <1>1
  <2>3. \A s \in Tasks : (Fresh(task[s]) => Fresh(task[s])') /\ (Lags(task[s])' => Lags(task[s]))
    BY <2>2 DEF Fresh, Lags
  <2> QED
    BY <2>3 DEF Follows, Behind, ConfInv
<1>5. TrainingKeepsRules' /\ (loaded' => session')
  BY DEF ConfInv, TrainingKeepsRules
<1> QED
  BY <1>2, <1>3, <1>4, <1>5 DEF ConfInv

LEMMA DoneIsAStep ==
  ASSUME ConfInv, NEW t \in Tasks, Done(t), ~Fresh(task[t]),
         UNCHANGED <<env, row, manager, loaded, history>>
  PROVE  ConfInv'
<1>1. Idle \in States /\ TaskIsRight(t, Idle) /\ ~Lags(Idle)
  BY IdleIsRight DEF Lags
<1> QED
  BY <1>1, TaskStepKeeps DEF Done

LEMMA AwaitFields ==
  ASSUME NEW pc \in {"bars", "wrote", "get"}, NEW op \in {"save", "clear", "train", "load"}, NEW x,
         x = [Idle EXCEPT !.pc = pc, !.op = op]
  PROVE  x \in States /\ x.pc = pc /\ x.op = op /\ x.rules = None /\ x.seen = Empty /\ x.orphan = FALSE
  BY IdleIsRight DEF Idle, States

LEMMA GetEntryKeeps == ASSUME ConfInv, NEW p \in Pages, GetEntry(p) PROVE ConfInv'
<1>1. /\ page' \in [Pages -> BOOLEAN]
      /\ UNCHANGED <<kind, owner, session, row, manager, loaded, task, missed, saved, overlap>>
  BY DEF GetEntry, history, ConfInv, TypeOK, Rows
<1> QED
  BY <1>1 DEF ConfInv, TypeOK, TaskIsRight, HasRead, Follows, Behind, Fresh, Lags, TrainingKeepsRules

LEMMA SendKeeps ==
  ASSUME ConfInv, NEW p \in Pages, NEW op \in {"save", "clear"}, NEW rules \in Rules \cup {None},
         NEW model \in BOOLEAN, op = "save" => rules \in Rules, op = "clear" => rules = None,
         Send(p, op, rules, model)
  PROVE  ConfInv'
<1>1. PICK x : x = [Idle EXCEPT !.pc = "write", !.op = op, !.rules = rules, !.model = model]
  OBVIOUS
<1>2. /\ x \in States /\ x.pc = "write" /\ x.op = op /\ x.rules = rules
  BY <1>1, IdleIsRight DEF Idle, States
<1>3. /\ task' = [task EXCEPT ![p] = x]
      /\ UNCHANGED <<env, row, manager, loaded, history>>
      /\ task[p].pc = "idle" /\ owner = Author[p]
  BY <1>1 DEF Send, Access
<1>4. TaskIsRight(p, x)
  BY <1>2, <1>3 DEF TaskIsRight, HasRead
<1>5. ~Fresh(task[p]) /\ ~Lags(x) /\ p \in Tasks
  BY <1>2, <1>3 DEF Fresh, Lags, Tasks
<1> QED
  BY <1>2, <1>3, <1>4, <1>5, TaskStepKeeps

LEMMA SendsKeep ==
  ASSUME ConfInv, NEW p \in Pages,
         \/ SetRisk(p) \/ SetEntry(p) \/ SetManage(p)
         \/ DeleteRisk(p) \/ DeleteEntry(p) \/ DeleteManage(p)
  PROVE  ConfInv'
<1>1. page[p] \in BOOLEAN
  BY DEF ConfInv, TypeOK
<1> QED
  BY <1>1, SendKeeps DEF SetRisk, SetEntry, SetManage, DeleteRisk, DeleteEntry, DeleteManage

LEMMA TrainEntryKeeps == ASSUME ConfInv, NEW p \in Pages, TrainEntry(p) PROVE ConfInv'
<1>1. PICK x : x = [Idle EXCEPT !.pc = "bars", !.op = "train"]
  OBVIOUS
<1>2. x \in States /\ x.pc = "bars" /\ x.op = "train"
  BY <1>1, IdleIsRight DEF Idle, States
<1>3. /\ task' = [task EXCEPT ![p] = x]
      /\ UNCHANGED <<env, row, manager, loaded, history>>
      /\ task[p].pc = "idle" /\ owner = Author[p]
  BY <1>1 DEF TrainEntry, Await, Access
<1>4. TaskIsRight(p, x)
  BY <1>2, <1>3 DEF TaskIsRight, HasRead
<1>5. ~Fresh(task[p]) /\ ~Lags(x) /\ p \in Tasks
  BY <1>2, <1>3 DEF Fresh, Lags, Tasks
<1> QED
  BY <1>2, <1>3, <1>4, <1>5, TaskStepKeeps

LEMMA FailuresKeep ==
  ASSUME ConfInv, NEW p \in Pages, TrainFails(p) \/ WriteFails(p) PROVE ConfInv'
<1>1. p \in Tasks /\ ~Fresh(task[p])
  BY DEF TrainFails, WriteFails, Fresh, Tasks
<1> QED
  BY <1>1, DoneIsAStep DEF TrainFails, WriteFails

LEMMA TrainReadsKeeps == ASSUME ConfInv, NEW p \in Pages, TrainReads(p) PROVE ConfInv'
<1>1. PICK r : r = task[p]
  OBVIOUS
<1>2. PICK x : x = [r EXCEPT !.pc = "train", !.seen = row]
  OBVIOUS
<1>3. p \in Tasks /\ r \in States /\ TaskIsRight(p, r) /\ r.pc = "bars" /\ row \in Rows
  BY <1>1 DEF TrainReads, ConfInv, TypeOK, Tasks
<1>4. /\ x \in States /\ x.pc = "train" /\ x.op = "train" /\ x.seen = row /\ x.orphan = r.orphan
  BY <1>2, <1>3 DEF States, TaskIsRight
<1>5. /\ task' = [task EXCEPT ![p] = x]
      /\ UNCHANGED <<env, row, manager, loaded, history>>
  BY <1>1, <1>2 DEF TrainReads
<1>6. TaskIsRight(p, x)
  BY <1>3, <1>4 DEF TaskIsRight, HasRead, Rows
<1>7. ~Fresh(task[p]) /\ ~Lags(x)
  BY <1>1, <1>3, <1>4 DEF Fresh, Lags
<1> QED
  BY <1>3, <1>4, <1>5, <1>6, <1>7, TaskStepKeeps

LEMMA TrainedKeeps == ASSUME ConfInv, NEW p \in Pages, Trained(p) PROVE ConfInv'
<1>1. PICK r : r = task[p]
  OBVIOUS
<1>2. PICK x : x = [r EXCEPT !.pc = "write", !.rules = Stored(r.seen.rules), !.model = TRUE]
  OBVIOUS
<1>3. p \in Tasks /\ r \in States /\ TaskIsRight(p, r) /\ r.pc = "train"
  BY <1>1 DEF Trained, ConfInv, TypeOK, Tasks
<1>4. Stored(r.seen.rules) \in Rules \cup {Default, None}
  BY <1>3 DEF States, Rows, Stored
<1>5. /\ x \in States /\ x.pc = "write" /\ x.op = "train" /\ x.seen = r.seen
      /\ x.rules = Stored(r.seen.rules) /\ x.orphan = r.orphan
  BY <1>2, <1>3, <1>4 DEF States, TaskIsRight
<1>6. /\ task' = [task EXCEPT ![p] = x]
      /\ UNCHANGED <<env, row, manager, loaded, history>>
  BY <1>1, <1>2 DEF Trained, Stored
<1>7. TaskIsRight(p, x)
  BY <1>3, <1>5 DEF TaskIsRight, HasRead
<1>8. ~Fresh(task[p]) /\ ~Lags(x)
  BY <1>1, <1>3, <1>5 DEF Fresh, Lags
<1> QED
  BY <1>3, <1>5, <1>6, <1>7, <1>8, TaskStepKeeps

LEMMA GetKeeps == ASSUME ConfInv, NEW t \in Tasks, Get(t) PROVE ConfInv'
<1>1. PICK r : r = task[t]
  OBVIOUS
<1>2. PICK x : x = [r EXCEPT !.pc = "got", !.seen = row]
  OBVIOUS
<1>3. r \in States /\ TaskIsRight(t, r) /\ r.pc = "get" /\ row \in Rows
  BY <1>1 DEF Get, ConfInv, TypeOK
<1>4. x \in States /\ x.pc = "got" /\ x.seen = row
  BY <1>2, <1>3 DEF States
<1>5. /\ task' = [task EXCEPT ![t] = x]
      /\ UNCHANGED <<env, row, manager, loaded, history>>
  BY <1>1, <1>2 DEF Get
<1>6. TaskIsRight(t, x)
  BY <1>3, <1>4 DEF TaskIsRight, HasRead, Rows
<1>7. Fresh(x) /\ ~Lags(x)
  BY <1>4 DEF Fresh, Lags
<1> QED
  BY <1>4, <1>5, <1>6, <1>7, TaskStepKeeps

LEMMA LoadKeeps == ASSUME ConfInv, NEW t \in Loaders, Load(t) PROVE ConfInv'
<1>1. PICK x : x = [Idle EXCEPT !.pc = "get", !.op = "load"]
  OBVIOUS
<1>2. x \in States /\ x.pc = "get"
  BY <1>1, AwaitFields
<1>3. /\ task' = [task EXCEPT ![t] = x] /\ t \in Tasks /\ session
      /\ UNCHANGED <<env, row, manager, loaded, history>>
  BY <1>1 DEF Load, Await, Tasks
<1>4. TaskIsRight(t, x)
  BY <1>2, <1>3 DEF TaskIsRight, HasRead
<1>5. Fresh(x) /\ ~Lags(x)
  <2>1. x.pc # "got"
    BY <1>2
  <2> QED
    BY <1>2, <2>1 DEF Fresh, Lags
<1> QED
  BY <1>2, <1>3, <1>4, <1>5, TaskStepKeeps

LEMMA WroteKeeps == ASSUME ConfInv, NEW p \in Pages, Wrote(p) PROVE ConfInv'
<1>1. p \in Tasks /\ task[p].pc = "wrote" /\ UNCHANGED <<env, row, manager, loaded, history>>
  BY DEF Wrote, Tasks
<1>2. CASE session
  <2>1. PICK x : x = [Idle EXCEPT !.pc = "get", !.op = "load"]
    OBVIOUS
  <2>2. x \in States /\ x.pc = "get"
    BY <2>1, AwaitFields
  <2>3. task' = [task EXCEPT ![p] = x]
    BY <1>2, <2>1 DEF Wrote, Await
  <2>4. TaskIsRight(p, x)
    BY <1>2, <2>2 DEF TaskIsRight, HasRead
  <2>5. Fresh(x) /\ ~Lags(x)
    <3>1. x.pc # "got"
      BY <2>2
    <3> QED
      BY <2>2, <3>1 DEF Fresh, Lags
  <2> QED
    BY <1>1, <2>2, <2>3, <2>4, <2>5, TaskStepKeeps
<1>3. CASE ~session
  <2>1. task' = [task EXCEPT ![p] = Idle]
    BY <1>3 DEF Wrote, Done
  <2>2. TypeOK'
    BY <1>1, <2>1, IdleIsRight DEF env, history, ConfInv, TypeOK
  <2>3. \A t \in Tasks : task'[t] = task[t] \/ task'[t] = Idle
    BY <2>1 DEF ConfInv, TypeOK
  <2>4. ASSUME NEW t \in Tasks PROVE TaskIsRight(t, task[t])'
    <3>1. PICK y : y = task'[t]
      OBVIOUS
    <3>2. TaskIsRight(t, y)
      BY <2>3, <3>1, IdleIsRight DEF ConfInv
    <3>3. TaskIsRight(t, y)'
      BY <1>1, <3>2 DEF TaskIsRight, HasRead, env
    <3> QED
      BY <3>1, <3>3
  <2>5. ~Behind'
    <3>1. ~loaded'
      BY <1>1, <1>3 DEF ConfInv
    <3>2. \A t \in Tasks : task'[t].pc # "got"
      BY <1>3, <2>3, IdleIsRight DEF ConfInv, TaskIsRight
    <3> QED
      BY <3>1, <3>2 DEF Behind, Lags
  <2>6. TrainingKeepsRules' /\ (loaded' => session')
    BY <1>1 DEF ConfInv, TrainingKeepsRules, env, history
  <2> QED
    BY <2>2, <2>4, <2>5, <2>6 DEF ConfInv, Follows
<1> QED
  BY <1>2, <1>3

\* A failure after which the manager may be behind is noted.
LEMMA MissedKeeps ==
  ASSUME ConfInv, NEW t \in Tasks, Done(t), missed' = TRUE,
         UNCHANGED <<env, row, manager, loaded, saved, overlap>>
  PROVE  ConfInv'
<1>1. task' = [task EXCEPT ![t] = Idle] /\ \A s \in Tasks : task'[s] = task[s] \/ task'[s] = Idle
  BY DEF Done, ConfInv, TypeOK
<1>2. TypeOK'
  BY <1>1, IdleIsRight DEF env, ConfInv, TypeOK
<1>3. ASSUME NEW s \in Tasks PROVE TaskIsRight(s, task[s])'
  <2>1. PICK y : y = task'[s]
    OBVIOUS
  <2>2. TaskIsRight(s, y)
    BY <1>1, <2>1, IdleIsRight DEF ConfInv
  <2>3. TaskIsRight(s, y)'
    BY <2>2 DEF TaskIsRight, HasRead, env
  <2> QED
    BY <2>1, <2>3
<1>4. TrainingKeepsRules' /\ (loaded' => session') /\ Follows'
  BY DEF ConfInv, TrainingKeepsRules, env, Follows
<1> QED
  BY <1>2, <1>3, <1>4 DEF ConfInv

LEMMA AnswerLostKeeps == ASSUME ConfInv, NEW p \in Pages, AnswerLost(p) PROVE ConfInv'
  BY MissedKeeps DEF AnswerLost, Tasks

LEMMA GetFailsKeeps == ASSUME ConfInv, NEW t \in Tasks, GetFails(t) PROVE ConfInv'
  BY MissedKeeps DEF GetFails

\* A write: the handler is to bring the new row, and no read is as new as it.
LEMMA WriteKeeps ==
  ASSUME ConfInv, NEW p \in Pages, Write(p), task[p].op \in {"save", "clear", "train"}
  PROVE  ConfInv'
<1>1. PICK w : w = task[p]
  OBVIOUS
<1>2. /\ p \in Tasks /\ w \in States /\ TaskIsRight(p, w) /\ w.pc = "write"
      /\ w.op \in {"save", "clear", "train"} /\ row \in Rows /\ row.writes < MaxWrites
  BY <1>1 DEF Write, ConfInv, TypeOK, Tasks
<1>3. PICK x : x = [Idle EXCEPT !.pc = "wrote", !.op = w.op]
  OBVIOUS
<1>4. x \in States /\ x.pc = "wrote"
  BY <1>2, <1>3, IdleIsRight DEF Idle, States
<1>5. /\ task' = [task EXCEPT ![p] = x]
      /\ row' = [writes |-> row.writes + 1, rules |-> w.rules, model |-> w.model]
      /\ missed' = FALSE
      /\ saved' = IF w.op = "train" THEN saved ELSE w.rules
      /\ overlap' = IF w.op = "train" THEN overlap \/ w.seen.writes # row.writes ELSE FALSE
      /\ UNCHANGED <<kind, owner, session, page, manager, loaded>>
  BY <1>1, <1>3 DEF Write, Await, env
<1>6. row' \in Rows /\ row'.writes = row.writes + 1 /\ row'.rules = w.rules /\ row.writes \in Nat
  BY <1>2, <1>5 DEF Rows, States
<1>7. \A t \in Tasks : t # p => task'[t] = task[t]
  BY <1>5 DEF ConfInv, TypeOK
<1>8. task'[p] = x /\ task' \in [Tasks -> States]
  BY <1>2, <1>4, <1>5 DEF ConfInv, TypeOK
<1>9. saved' \in Rules \cup {None} /\ overlap' \in BOOLEAN
  BY <1>2, <1>5 DEF TaskIsRight, ConfInv, TypeOK
<1>10. TypeOK'
  BY <1>5, <1>6, <1>8, <1>9 DEF ConfInv, TypeOK
<1>11. ASSUME NEW t \in Tasks PROVE TaskIsRight(t, task[t])'
  <2>1. CASE t = p
    <3>1. TaskIsRight(t, x)'
      BY <1>4, <2>1 DEF TaskIsRight, HasRead
    <3> QED
      BY <1>8, <2>1, <3>1
  <2>2. CASE t # p
    <3>1. PICK y : y = task[t]
      OBVIOUS
    <3>2. y \in States /\ TaskIsRight(t, y) /\ task'[t] = y
      BY <1>7, <2>2, <3>1 DEF ConfInv, TypeOK
    <3>3. HasRead(y) => y.seen.writes <= row'.writes /\ y.seen.writes # row'.writes
      <4>1. y.seen.writes \in Nat
        BY <3>2 DEF States, Rows
      <4> QED
        BY <1>6, <3>2, <4>1 DEF TaskIsRight
    <3>4. TaskIsRight(t, y)'
      BY <1>5, <3>2, <3>3 DEF TaskIsRight, HasRead
    <3> QED
      BY <3>2, <3>4
  <2> QED
    BY <2>1, <2>2
<1>12. Follows'
  BY <1>2, <1>4, <1>8 DEF Follows, Fresh
<1>13. TrainingKeepsRules'
  <2>1. CASE w.op # "train"
    BY <1>5, <1>6, <2>1 DEF TrainingKeepsRules
  <2>2. CASE w.op = "train"
    <3> SUFFICES ASSUME ~overlap' PROVE row'.rules = saved \/ (saved = None /\ row'.rules = Default)
      BY <1>5, <2>2 DEF TrainingKeepsRules
    <3>1. ~overlap /\ w.seen.writes = row.writes
      BY <1>5, <2>2
    <3>2. w.seen = row
      BY <1>2, <2>2, <3>1 DEF TaskIsRight, HasRead
    <3>3. row'.rules = Stored(row.rules)
      BY <1>2, <1>6, <2>2, <3>2 DEF TaskIsRight
    <3>4. row.rules = saved \/ (saved = None /\ row.rules = Default)
      BY <3>1 DEF ConfInv, TrainingKeepsRules
    <3> QED
      BY <3>3, <3>4 DEF Stored
  <2> QED
    BY <2>1, <2>2
<1> QED
  BY <1>5, <1>10, <1>11, <1>12, <1>13 DEF ConfInv

\* What was read is applied: it is the row as it is now, or some other task brings
\* that, or the manager had a newer one and this is noted.
LEMMA AppliedKeeps == ASSUME ConfInv, NEW t \in Tasks, Applied(t) PROVE ConfInv'
<1>1. PICK seen : seen = task[t].seen
  OBVIOUS
<1>2. /\ task[t].pc = "got" /\ task[t] \in States /\ seen \in Rows /\ TaskIsRight(t, task[t])
      /\ row \in Rows /\ manager \in Rows
  BY <1>1 DEF Applied, ConfInv, TypeOK, States
<1>3. /\ task' = [task EXCEPT ![t] = Idle]
      /\ manager' = [seen EXCEPT !.rules = IF @ = None THEN Default ELSE @]
      /\ loaded' = TRUE
      /\ missed' = (missed \/ seen.writes < manager.writes)
      /\ UNCHANGED <<kind, owner, session, page, row, saved, overlap>>
  BY <1>1 DEF Applied, Done, env
<1>4. manager' \in Rows /\ manager'.writes = seen.writes /\ manager'.rules # None
  BY <1>2, <1>3 DEF Rows
<1>5. \A s \in Tasks : task'[s] = IF s = t THEN Idle ELSE task[s]
  BY <1>3 DEF ConfInv, TypeOK
<1>6. TypeOK'
  BY <1>3, <1>4, IdleIsRight DEF ConfInv, TypeOK
<1>7. ASSUME NEW s \in Tasks PROVE TaskIsRight(s, task[s])'
  <2>1. PICK y : y = task'[s]
    OBVIOUS
  <2>2. TaskIsRight(s, y)
    BY <1>5, <2>1, IdleIsRight DEF ConfInv
  <2>3. TaskIsRight(s, y)'
    BY <1>3, <2>2 DEF TaskIsRight, HasRead
  <2> QED
    BY <2>1, <2>3
<1>8. session
  BY <1>2 DEF TaskIsRight
<1>9. Follows'
  <2>0. /\ seen.writes \in Nat /\ row.writes \in Nat /\ manager.writes \in Nat
        /\ seen.writes <= row.writes
    BY <1>1, <1>2 DEF Rows, TaskIsRight, HasRead
  <2>1. CASE seen.writes = row.writes
    <3>1. ASSUME NEW s \in Tasks PROVE ~Lags(task[s])'
      <4>1. PICK y : y = task'[s]
        OBVIOUS
      <4>2. y.pc = "got" => y \in States /\ TaskIsRight(s, y)
        BY <1>5, <4>1, IdleIsRight DEF ConfInv, TypeOK
      <4>3. y.pc = "got" => y.seen.writes \in Nat /\ y.seen.writes <= row.writes
        BY <4>2 DEF TaskIsRight, HasRead, States, Rows
      <4>4. ~Lags(y)'
        BY <1>3, <1>4, <2>0, <2>1, <4>3 DEF Lags
      <4> QED
        BY <4>1, <4>4 DEF Lags
    <3> QED
      BY <1>3, <1>4, <2>1, <3>1 DEF Follows, Behind
  <2>2. CASE seen.writes < manager.writes
    BY <1>3, <2>2 DEF Follows
  <2>3. CASE seen.writes # row.writes /\ manager.writes <= seen.writes
    <3>1. Lags(task[t]) /\ ~Fresh(task[t])
      BY <1>1, <1>2, <2>3 DEF Lags, Fresh
    <3>2. missed \/ \E s \in Tasks : Fresh(task[s])
      BY <3>1 DEF ConfInv, Follows, Behind
    <3>3. \A s \in Tasks : Fresh(task[s]) => Fresh(task[s])'
      BY <1>3, <1>5, <3>1 DEF Fresh
    <3> QED
      BY <1>3, <3>2, <3>3 DEF Follows
  <2> QED
    BY <2>0, <2>1, <2>2, <2>3
<1>10. TrainingKeepsRules' /\ (loaded' => session')
  BY <1>3, <1>8 DEF ConfInv, TrainingKeepsRules
<1> QED
  BY <1>6, <1>7, <1>9, <1>10 DEF ConfInv

-----------------------------------------------------------------------------
LEMMA BindKeeps == ASSUME ConfInv, Bind PROVE ConfInv'
<1>1. /\ session' = TRUE
      /\ UNCHANGED <<kind, owner, page, row, manager, loaded, task, missed, saved, overlap>>
  BY DEF Bind, history
<1> QED
  BY <1>1 DEF ConfInv, TypeOK, TaskIsRight, HasRead, Follows, Behind, Fresh, Lags, TrainingKeepsRules

LEMMA RestartKeeps == ASSUME ConfInv, Restart PROVE ConfInv'
<1>1. /\ session' = FALSE /\ loaded' = FALSE /\ manager' = Empty /\ missed' = FALSE
      /\ task' = [t \in Tasks |-> Idle]
      /\ UNCHANGED <<kind, owner, page, row, saved, overlap>>
  BY DEF Restart
<1>2. \A t \in Tasks : task'[t] = Idle
  BY <1>1
<1>3. TypeOK'
  BY <1>1, IdleIsRight DEF ConfInv, TypeOK
<1>4. ASSUME NEW t \in Tasks PROVE TaskIsRight(t, task[t])'
  <2>1. TaskIsRight(t, Idle)'
    BY IdleIsRight DEF TaskIsRight, HasRead
  <2> QED
    BY <1>2, <2>1
<1>5. Follows'
  BY <1>1, <1>2, IdleIsRight DEF Follows, Behind, Lags
<1>6. TrainingKeepsRules'
  BY <1>1 DEF ConfInv, TrainingKeepsRules
<1> QED
  BY <1>1, <1>3, <1>4, <1>5, <1>6 DEF ConfInv

LEMMA LinkKeeps == ASSUME ConfInv, NEW u \in Users, Link(u) PROVE ConfInv'
<1>1. /\ owner = None /\ owner' = u
      /\ UNCHANGED <<kind, session, page, row, manager, loaded, task, missed, saved, overlap>>
  BY DEF Link, LinkAccount, history
<1>2. ASSUME NEW t \in Tasks PROVE TaskIsRight(t, task[t])'
  <2>1. PICK y : y = task[t]
    OBVIOUS
  <2>2. TaskIsRight(t, y)
    BY <2>1 DEF ConfInv
  <2>3. t \in Pages => Author[t] # None
    OBVIOUS
  <2>4. TaskIsRight(t, y)'
    BY <1>1, <2>2, <2>3 DEF TaskIsRight, HasRead
  <2> QED
    BY <1>1, <2>1, <2>4
<1>3. TypeOK' /\ Follows' /\ TrainingKeepsRules'
  BY <1>1 DEF ConfInv, TypeOK, Follows, Behind, Fresh, Lags, TrainingKeepsRules
<1> QED
  BY <1>1, <1>2, <1>3 DEF ConfInv

LEMMA UnlinkKeeps == ASSUME ConfInv, NEW u \in Users, Unlink(u) PROVE ConfInv'
<1>1. /\ owner = u /\ owner' = None
      /\ UNCHANGED <<kind, session, page, row, manager, loaded, missed, saved, overlap>>
  BY DEF Unlink, UnlinkAccount, history
<1>2. ASSUME NEW t \in Tasks
      PROVE  /\ task'[t] \in States
             /\ task'[t].pc = task[t].pc /\ task'[t].op = task[t].op
             /\ task'[t].rules = task[t].rules /\ task'[t].seen = task[t].seen
             /\ task'[t].orphan = (task[t].orphan \/ t \in Asking(u))
  <2>1. task[t] \in States
    BY DEF ConfInv, TypeOK
  <2>2. PICK b \in BOOLEAN : b = (task[t].orphan \/ t \in Asking(u))
    OBVIOUS
  <2>3. task'[t] = [task[t] EXCEPT !.orphan = b]
    BY <2>2 DEF Unlink
  <2> QED
    BY <2>1, <2>2, <2>3 DEF States
<1>3. TypeOK'
  <2>1. task' \in [Tasks -> States]
    <3>1. PICK f : f = [t \in Tasks |-> [task[t] EXCEPT !.orphan = @ \/ t \in Asking(u)]]
      OBVIOUS
    <3>2. task' = f /\ \A t \in Tasks : f[t] \in States
      BY <1>2, <3>1 DEF Unlink
    <3> QED
      BY <3>1, <3>2
  <2> QED
    BY <1>1, <2>1 DEF ConfInv, TypeOK
<1>4. ASSUME NEW t \in Tasks PROVE TaskIsRight(t, task[t])'
  <2>1. PICK y : y = task'[t]
    OBVIOUS
  <2>2. PICK r : r = task[t]
    OBVIOUS
  <2>3. /\ y.pc = r.pc /\ y.op = r.op /\ y.rules = r.rules /\ y.seen = r.seen
        /\ y.orphan = (r.orphan \/ t \in Asking(u))
    BY <1>2, <2>1, <2>2
  <2>4. TaskIsRight(t, r)
    BY <2>2 DEF ConfInv
  <2>5. t \in Pages /\ y.pc \in {"bars", "train", "write"} => y.orphan
    <3>1. t \in Pages /\ r.pc \in {"bars", "train", "write"} /\ ~r.orphan => t \in Asking(u)
      BY <1>1, <2>2, <2>4 DEF TaskIsRight, Asking
    <3> QED
      BY <2>3, <3>1
  <2>6. TaskIsRight(t, y)'
    <3>1. HasRead(y) <=> HasRead(r)
      BY <2>3 DEF HasRead
    <3> QED
      BY <1>1, <2>3, <2>4, <2>5, <3>1 DEF TaskIsRight, HasRead
  <2> QED
    BY <2>1, <2>6
<1>5. Follows'
  <2>1. \A t \in Tasks : (Fresh(task[t])' <=> Fresh(task[t])) /\ (Lags(task[t])' <=> Lags(task[t]))
    BY <1>1, <1>2 DEF Fresh, Lags
  <2> QED
    BY <1>1, <2>1 DEF ConfInv, Follows, Behind
<1>6. TrainingKeepsRules'
  BY <1>1 DEF ConfInv, TrainingKeepsRules
<1> QED
  BY <1>1, <1>3, <1>4, <1>5, <1>6 DEF ConfInv

-----------------------------------------------------------------------------
LEMMA HandlerKeeps == ASSUME ConfInv, NEW p \in Pages, Handler(p) PROVE ConfInv'
<1>1. CASE \/ SetRiskConfig(p) \/ SetEntryConfig(p) \/ SetManageConfig(p)
           \/ ClearRiskConfig(p) \/ ClearEntryConfig(p) \/ ClearManageConfig(p)
  BY <1>1, WriteKeeps DEF SetRiskConfig, SetEntryConfig, SetManageConfig,
     ClearRiskConfig, ClearEntryConfig, ClearManageConfig
<1> QED
  BY <1>1, GetEntryKeeps, SendsKeep, TrainEntryKeeps, TrainReadsKeeps, TrainedKeeps,
     FailuresKeep, AnswerLostKeeps, WroteKeeps DEF Handler

LEMMA ReaderKeeps == ASSUME ConfInv, NEW t \in Tasks, Reader(t) PROVE ConfInv'
  BY GetKeeps, GetFailsKeeps, AppliedKeeps
  DEF Reader, GetRiskConfig, GetEntryConfig, GetManageConfig, ReloadRisk, ReloadEntry, ReloadManage

LEMMA NextKeeps == ConfInv /\ [Next]_vars => ConfInv'
<1> SUFFICES ASSUME ConfInv, [Next]_vars PROVE ConfInv'
  OBVIOUS
<1>1. CASE UNCHANGED vars
  <2>1. UNCHANGED <<kind, owner, session, page, row, manager, loaded, task, missed, saved, overlap>>
    BY <1>1 DEF vars, env, history
  <2> QED
    BY <2>1 DEF ConfInv, TypeOK, TaskIsRight, HasRead, Follows, Behind, Fresh, Lags, TrainingKeepsRules
<1> QED
  BY <1>1, LinkKeeps, UnlinkKeeps, HandlerKeeps, ReaderKeeps, LoadKeeps, BindKeeps, RestartKeeps
  DEF Next

LEMMA InvariantHolds == Spec => []ConfInv
  BY InitHolds, NextKeeps, PTL DEF Spec

\* Every variable keeps its type, and the rules of a loaded manager are never absent:
\* reload_config puts the default in their place.
THEOREM TypesHold == Spec => []TypeOK
  BY InvariantHolds, PTL DEF ConfInv

\* With no request under way, the manager obeys the row as it is stored, unless a
\* reload failed or was overtaken: every write is followed by a reload of its own.
THEOREM ManagerIsCurrent == Spec => []ManagerFollowsRow
<1>1. ConfInv => ManagerFollowsRow
  <2> SUFFICES ASSUME ConfInv, loaded, \A t \in Tasks : task[t].pc = "idle", ~missed
               PROVE  manager.writes = row.writes
    BY DEF ManagerFollowsRow
  <2>1. \A t \in Tasks : ~Fresh(task[t])
    BY DEF Fresh
  <2> QED
    BY <2>1 DEF ConfInv, Follows, Behind
<1> QED
  BY <1>1, InvariantHolds, PTL

\* A training writes back the rules it read, so it changes none of the last save,
\* but for a training that was overtaken.
THEOREM RulesSurviveTraining == Spec => []TrainingKeepsRules
  BY InvariantHolds, PTL DEF ConfInv

\* What require_account_access checked when the request came still holds when the
\* database executes the write, or the user has let the account go.
THEOREM WritesAreAllowed == Spec => WritesAreTheOwners
<1> DEFINE OK == \A p \in Pages : task[p].pc = "write" /\ task'[p].pc = "wrote"
                   => owner = Author[p] \/ task[p].orphan
<1>1. ConfInv => OK
  BY DEF ConfInv, TaskIsRight, Tasks
<1> QED
  BY <1>1, InvariantHolds, PTL DEF WritesAreTheOwners
=============================================================================
