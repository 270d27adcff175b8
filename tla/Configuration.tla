---------------------------- MODULE Configuration ----------------------------
(***************************************************************************)
(* One configuration of one account (its risk, entry or manage rules) on   *)
(* the way from the dashboard to the manager that obeys it.  The row is in *)
(* the database (src/python/account_*.py, supabase_schema.sql).  A web     *)
(* handler of src/python/web.py checks that its user has the account       *)
(* linked, changes the row on a thread, and lets the manager read the row  *)
(* again on another thread.  The connection handler and the supervisor     *)
(* read it while the manager has none.  Every thread call is two steps:    *)
(* the database executes it, and the handler resumes.                      *)
(*                                                                         *)
(* The permission check and the link routes call the database on the event *)
(* loop itself, so each is one step.                                       *)
(***************************************************************************)
EXTENDS Integers, FiniteSets

CONSTANTS
  Users,
  Pages,      \* browser tabs; each has at most one request under way
  Author,     \* the user who is logged in in each of them
  Loaders,    \* session_manager.bind and the supervisor, one of them being
  Supervisor,
  Rules,      \* contents of a configuration, its enabled flag included
  Default,    \* no rules, not enabled
  MaxWrites,  \* bound: writes of the row
  None

ASSUME ConfigurationAssumption ==
  /\ Pages \cap Loaders = {}
  /\ Supervisor \in Loaders
  /\ Author \in [Pages -> Users]
  /\ Default \notin Rules
  /\ None \notin Users \cup Rules \cup {Default}
  /\ MaxWrites \in Nat

VARIABLES
  kind,     \* which of the three configurations this is
  owner,    \* the user who has the account linked
  row,      \* the row: how many writes made it, its rules, has it a model
  session,  \* the account has a session
  manager,  \* the row the manager's config comes from
  loaded,   \* _loaded
  page,     \* the page holds a trained model (entryMlModel of index.html)
  task,     \* the local state of each page's request and of both loaders
  missed,   \* history: since the last write the manager missed a row
  saved,    \* history: rules of the last save, None after a clear
  overlap   \* history: a training wrote over a change it had not read

env == <<kind, owner, session, page>>
history == <<missed, saved, overlap>>
vars == <<env, row, manager, loaded, task, history>>

Tasks == Pages \cup Loaders
Rows == [writes : 0 .. MaxWrites, rules : Rules \cup {Default, None}, model : BOOLEAN]
Empty == [writes |-> 0, rules |-> None, model |-> FALSE]

\* pc: the call a task waits for.  write, get: sent to the thread; wrote, got:
\* executed by the database, not yet seen by the handler.
States == [pc : {"idle", "bars", "train", "write", "wrote", "get", "got"},
           op : {"none", "save", "clear", "train", "load"},
           rules : Rules \cup {Default, None}, model : BOOLEAN,
           seen : Rows, orphan : BOOLEAN]
Idle == [pc |-> "idle", op |-> "none", rules |-> None, model |-> FALSE,
         seen |-> Empty, orphan |-> FALSE]

Init ==
  /\ kind \in {"risk", "entry", "manage"}
  /\ owner = None
  /\ row = Empty
  /\ session = FALSE
  /\ manager = Empty
  /\ loaded = FALSE
  /\ page = [p \in Pages |-> FALSE]
  /\ task = [t \in Tasks |-> Idle]
  /\ missed = FALSE
  /\ saved = None
  /\ overlap = FALSE

Become(t, pc) == task' = [task EXCEPT ![t].pc = pc]
Await(t, pc, op) == task' = [task EXCEPT ![t] = [Idle EXCEPT !.pc = pc, !.op = op]]
Done(t) == task' = [task EXCEPT ![t] = Idle]

-----------------------------------------------------------------------------
(* Links *)

\* mutant: the account column has no unique index.
LinkTakesOver(u) == owner' = u

\* An account that any user has linked is refused, to that user as well.
LinkAccount(u) == owner = None /\ owner' = u

\* The routes /link: a refusal changes nothing.
Link(u) ==
  /\ LinkAccount(u)
  /\ UNCHANGED <<kind, session, page, row, manager, loaded, task, history>>

\* The pages of u whose request has not changed the row yet.
Asking(u) == {p \in Pages : Author[p] = u /\ task[p].pc \in {"bars", "train", "write"}}

UnlinkAccount(u) == owner = u /\ owner' = None

\* Only the link goes: the rows of the account stay, and so do requests.
Unlink(u) ==
  /\ UnlinkAccount(u)
  /\ task' = [t \in Tasks |-> [task[t] EXCEPT !.orphan = @ \/ t \in Asking(u)]]
  /\ UNCHANGED <<kind, session, page, row, manager, loaded, history>>

\* require_account_access
Access(p) == task[p].pc = "idle" /\ owner = Author[p]

-----------------------------------------------------------------------------
(* The handlers of the dashboard, up to their first await *)

\* The page shows the stored configuration and keeps its model.
GetEntry(p) ==
  /\ kind = "entry"
  /\ Access(p)
  /\ page' = [page EXCEPT ![p] = row.model]
  /\ UNCHANGED <<kind, owner, session, row, manager, loaded, task, history>>

Send(p, op, rules, model) ==
  /\ row.writes < MaxWrites
  /\ Access(p)
  /\ task' = [task EXCEPT ![p] = [Idle EXCEPT !.pc = "write", !.op = op,
                                              !.rules = rules, !.model = model]]
  /\ UNCHANGED <<env, row, manager, loaded, history>>

SetRisk(p) == kind = "risk" /\ \E r \in Rules : Send(p, "save", r, FALSE)
SetManage(p) == kind = "manage" /\ \E r \in Rules : Send(p, "save", r, FALSE)
\* The page sends its model along with the rules.
SetEntry(p) == kind = "entry" /\ \E r \in Rules : Send(p, "save", r, page[p])

DeleteRisk(p) == kind = "risk" /\ Send(p, "clear", None, FALSE)
DeleteEntry(p) == kind = "entry" /\ Send(p, "clear", None, FALSE)
DeleteManage(p) == kind = "manage" /\ Send(p, "clear", None, FALSE)

\* Training first fetches bars, and only then the row it will write back.
TrainEntry(p) ==
  /\ kind = "entry"
  /\ session
  /\ row.writes < MaxWrites
  /\ Access(p)
  /\ Await(p, "bars", "train")
  /\ UNCHANGED <<env, row, manager, loaded, history>>

\* No bars, no row or no model: the request fails.
TrainFails(p) ==
  /\ task[p].pc \in {"bars", "train"}
  /\ Done(p)
  /\ UNCHANGED <<env, row, manager, loaded, history>>

\* The bars are there, and the database answers with the row.
TrainReads(p) ==
  /\ task[p].pc = "bars"
  /\ task' = [task EXCEPT ![p].pc = "train", ![p].seen = row]
  /\ UNCHANGED <<env, row, manager, loaded, history>>

\* mutant: the configuration becomes its ml block alone.
TrainedAlone(p) ==
  /\ task[p].pc = "train"
  /\ task' = [task EXCEPT ![p].pc = "write", ![p].rules = Default, ![p].model = TRUE]
  /\ UNCHANGED <<env, row, manager, loaded, history>>

\* The whole row goes back, with the rules it was read with.
Trained(p) ==
  /\ task[p].pc = "train"
  /\ LET rules == IF task[p].seen.rules = None THEN Default ELSE task[p].seen.rules IN
       task' = [task EXCEPT ![p].pc = "write", ![p].rules = rules, ![p].model = TRUE]
  /\ UNCHANGED <<env, row, manager, loaded, history>>

-----------------------------------------------------------------------------
(* The writes *)

\* The database executes an upsert or a delete.
Write(p) ==
  LET w == task[p] IN
  /\ w.pc = "write"
  /\ row.writes < MaxWrites
  /\ row' = [writes |-> row.writes + 1, rules |-> w.rules, model |-> w.model]
  /\ Await(p, "wrote", w.op)
  /\ missed' = FALSE
  /\ saved' = IF w.op = "train" THEN saved ELSE w.rules
  /\ overlap' = IF w.op = "train" THEN overlap \/ w.seen.writes # row.writes
                ELSE FALSE
  /\ UNCHANGED <<env, manager, loaded>>

\* A failure before the write: the handler answers with an error.
WriteFails(p) ==
  /\ task[p].pc = "write"
  /\ Done(p)
  /\ UNCHANGED <<env, row, manager, loaded, history>>

\* The write was executed and its answer is lost: the handler reports an error
\* and does not let the manager reload.
AnswerLost(p) ==
  /\ task[p].pc = "wrote"
  /\ Done(p)
  /\ missed' = TRUE
  /\ UNCHANGED <<env, row, manager, loaded, saved, overlap>>

\* mutant: a clear does not reload.
WroteNoReload(p) ==
  /\ task[p].pc = "wrote"
  /\ IF session /\ task[p].op # "clear" THEN Await(p, "get", "load") ELSE Done(p)
  /\ UNCHANGED <<env, row, manager, loaded, history>>

\* The handler resumes; the manager of an account with a session reloads.
Wrote(p) ==
  /\ task[p].pc = "wrote"
  /\ IF session THEN Await(p, "get", "load") ELSE Done(p)
  /\ UNCHANGED <<env, row, manager, loaded, history>>

SetRiskConfig(p) == kind = "risk" /\ task[p].op = "save" /\ Write(p)
SetEntryConfig(p) == kind = "entry" /\ task[p].op \in {"save", "train"} /\ Write(p)
SetManageConfig(p) == kind = "manage" /\ task[p].op = "save" /\ Write(p)
ClearRiskConfig(p) == kind = "risk" /\ task[p].op = "clear" /\ Write(p)
ClearEntryConfig(p) == kind = "entry" /\ task[p].op = "clear" /\ Write(p)
ClearManageConfig(p) == kind = "manage" /\ task[p].op = "clear" /\ Write(p)

-----------------------------------------------------------------------------
(* reload_config *)

\* The first hello creates the session.
Bind ==
  /\ ~session
  /\ session' = TRUE
  /\ UNCHANGED <<kind, owner, page, row, manager, loaded, task, history>>

\* bind and the supervisor load a manager that has never been loaded.
Load(t) ==
  /\ session
  /\ ~loaded
  /\ task[t].pc = "idle"
  /\ Await(t, "get", "load")
  /\ UNCHANGED <<env, row, manager, loaded, history>>

\* The database answers.
Get(t) ==
  /\ task[t].pc = "get"
  /\ task' = [task EXCEPT ![t].pc = "got", ![t].seen = row]
  /\ UNCHANGED <<env, row, manager, loaded, history>>

\* It does not, or its answer is lost: the manager keeps what it has.
GetFails(t) ==
  /\ task[t].pc \in {"get", "got"}
  /\ Done(t)
  /\ missed' = TRUE
  /\ UNCHANGED <<env, row, manager, loaded, saved, overlap>>

\* mutant: no row is taken for a reason to keep the default.
AppliedUnlessMissing(t) ==
  /\ task[t].pc = "got"
  /\ Done(t)
  /\ IF task[t].seen.rules = None THEN UNCHANGED <<manager, loaded>>
     ELSE manager' = task[t].seen /\ loaded' = TRUE
  /\ UNCHANGED <<env, row, history>>

\* Whatever was read is applied, even when a later row was applied before.
Applied(t) ==
  LET seen == task[t].seen IN
  /\ task[t].pc = "got"
  /\ Done(t)
  /\ manager' = [seen EXCEPT !.rules = IF @ = None THEN Default ELSE @]
  /\ loaded' = TRUE
  /\ missed' = (missed \/ seen.writes < manager.writes)
  /\ UNCHANGED <<env, row, saved, overlap>>

GetRiskConfig(t) == kind = "risk" /\ Get(t)
GetEntryConfig(t) == kind = "entry" /\ Get(t)
GetManageConfig(t) == kind = "manage" /\ Get(t)
ReloadRisk(t) == kind = "risk" /\ Applied(t)
ReloadEntry(t) == kind = "entry" /\ Applied(t)
ReloadManage(t) == kind = "manage" /\ Applied(t)

-----------------------------------------------------------------------------
\* The server restarts: only the database keeps its state.
Restart ==
  /\ session
  /\ session' = FALSE
  /\ loaded' = FALSE
  /\ manager' = Empty
  /\ task' = [t \in Tasks |-> Idle]
  /\ missed' = FALSE
  /\ UNCHANGED <<kind, owner, page, row, saved, overlap>>

Handler(p) ==
  \/ GetEntry(p)
  \/ SetRisk(p) \/ SetEntry(p) \/ SetManage(p)
  \/ DeleteRisk(p) \/ DeleteEntry(p) \/ DeleteManage(p)
  \/ TrainEntry(p) \/ TrainReads(p) \/ Trained(p) \/ TrainFails(p)
  \/ SetRiskConfig(p) \/ SetEntryConfig(p) \/ SetManageConfig(p)
  \/ ClearRiskConfig(p) \/ ClearEntryConfig(p) \/ ClearManageConfig(p)
  \/ WriteFails(p) \/ AnswerLost(p) \/ Wrote(p)

Reader(t) ==
  \/ GetRiskConfig(t) \/ GetEntryConfig(t) \/ GetManageConfig(t)
  \/ GetFails(t)
  \/ ReloadRisk(t) \/ ReloadEntry(t) \/ ReloadManage(t)

Next ==
  \/ \E u \in Users : Link(u) \/ Unlink(u)
  \/ \E p \in Pages : Handler(p)
  \/ \E t \in Tasks : Reader(t)
  \/ \E t \in Loaders : Load(t)
  \/ Bind \/ Restart

\* The supervisor comes round again and again, and the database is not down
\* for ever.
Fairness ==
  /\ WF_vars(Load(Supervisor))
  /\ SF_vars(Get(Supervisor))
  /\ SF_vars(Applied(Supervisor))

Spec == Init /\ [][Next]_vars /\ Fairness

-----------------------------------------------------------------------------
TypeOK ==
  /\ kind \in {"risk", "entry", "manage"}
  /\ owner \in Users \cup {None}
  /\ row \in Rows
  /\ session \in BOOLEAN
  /\ manager \in Rows
  /\ loaded \in BOOLEAN
  /\ loaded => manager.rules # None
  /\ page \in [Pages -> BOOLEAN]
  /\ task \in [Tasks -> States]
  /\ missed \in BOOLEAN
  /\ saved \in Rules \cup {None}
  /\ overlap \in BOOLEAN

\* Once no request is under way, a loaded manager obeys the stored row.  It is
\* behind only if, since the last write, an answer was lost, a reload failed, or
\* a reload that had read an older row was applied after a newer one.
ManagerFollowsRow ==
  (loaded /\ \A t \in Tasks : task[t].pc = "idle")
     => manager.writes = row.writes \/ missed

\* Training never changes the rules a user saved: they are those of the last save
\* or clear, unless a training read the row before that and wrote it after.  (A
\* training of an account without rules stores the default ones.)
TrainingKeepsRules ==
  \/ overlap
  \/ row.rules = saved
  \/ saved = None /\ row.rules = Default

\* A row is written only on behalf of the user who has the account, whoever else
\* links it in between, unless that user let it go while the request was under way.
WritesAreTheOwners ==
  [][\A p \in Pages : task[p].pc = "write" /\ task'[p].pc = "wrote"
        => owner = Author[p] \/ task[p].orphan]_vars

\* A manager that has a session is loaded at last, however often the database fails,
\* unless the server restarts: the supervisor tries again until a read succeeds.
LoadedAtLast == session ~> loaded \/ ~session

\* "so saving other settings never wipes the weights" (index.html:2920-2921): a
\* save never takes a trained model out of the row.  It does not hold: a page that
\* was opened before the training sends the configuration without the model.
WeightsAreKept ==
  [][\A p \in Pages : task[p].op = "save" /\ task[p].pc = "write" /\ task'[p].pc = "wrote"
        => ~row.model \/ row'.model]_vars
=============================================================================
