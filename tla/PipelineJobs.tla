---------------------------- MODULE PipelineJobs ----------------------------
(***************************************************************************)
(* The asynchronous job worker of adv-lens: the pipeline_runs table, the   *)
(* three endpoints that insert a row and schedule a background task        *)
(* (app/main.py, app/web/routes.py), the task that walks the row through   *)
(* its lifecycle (app/jobs/runner.py), the reaper that sweeps stuck rows   *)
(* from another process (app/jobs/reaper.py), the operator who deletes     *)
(* rows, and crashes of the web process.                                   *)
(*                                                                         *)
(* Every database transaction is a read step followed by a commit step;    *)
(* what the ORM loaded in the read step decides which columns the commit   *)
(* writes.  Statements that run on the event loop of the web process       *)
(* exclude each other; the thread pool and the other processes do not      *)
(* take part in that exclusion.                                            *)
(***************************************************************************)
EXTENDS Naturals, FiniteSets

CONSTANTS
    RunIds,       \* primary keys; one insertion uses one, never again
    Traces,       \* trace ids (unique index of the table)
    Crds,         \* firms a run may be about
    DraftCrd,     \* the synthetic CRD of an uploaded draft, by its trace
    Endpoints,    \* the endpoints clients use, a subset of AllEndpoints
    Threshold,    \* the reaper's threshold, in clock units
    Timely,       \* TRUE: every run ends within Threshold (environment)
    Deletable,    \* statuses an operator deletes rows in
    NULL          \* SQL NULL, Python None

AllEndpoints == {"api", "ui", "upload"}

\* schedule_run_from_upload is "async def": its body runs on the event loop.
\* pipeline_run and schedule_run_from_ui are "def": FastAPI runs them in a
\* worker thread.
OnLoop == {"upload"}

RowStatuses == {"queued", "running", "complete", "failed"}

Errors == {"raised", "reaped"}

ASSUME ThresholdAssumption == Threshold \in Nat
ASSUME DraftCrdAssumption == DraftCrd \in [Traces -> Crds]
ASSUME EndpointsAssumption == Endpoints \subseteq AllEndpoints
ASSUME TimelyAssumption == Timely \in BOOLEAN
ASSUME DeletableAssumption == Deletable \subseteq RowStatuses
ASSUME NullAssumption ==
    NULL \notin Nat \cup Crds \cup Traces \cup RunIds \cup Errors

VARIABLES
    rows,      \* the pipeline_runs table
    request,   \* what the client that caused each insertion was told
    task,      \* the background task each insertion created, if it did
    reaper     \* the sweep in progress: picked row -> the error it loaded

vars == <<rows, request, task, reaper>>

-----------------------------------------------------------------------------
(* The table. *)

\* started_at is kept as the time since it, cut off one past the threshold.
Ages == 0 .. Threshold + 1

Row == [status    : RowStatuses \cup {"absent", "deleted"},
        trace     : Traces \cup {NULL},
        crd       : Crds \cup {NULL},
        age       : Ages \cup {NULL},
        result    : Crds \cup {NULL},    \* the CRD the stored state is about
        error     : Errors \cup {NULL},
        completed : BOOLEAN]             \* completed_at is set

NoRow == [status |-> "absent", trace |-> NULL, crd |-> NULL, age |-> NULL,
          result |-> NULL, error |-> NULL, completed |-> FALSE]

Live(r) == rows[r].status \in RowStatuses

RowsWith(t) == {r \in RunIds : Live(r) /\ rows[r].trace = t}

\* The columns of a loaded row that a later flush compares.
Columns(row) == [status |-> row.status, result |-> row.result,
                 error |-> row.error]

LoadedColumns == [status : RowStatuses, result : Crds \cup {NULL},
                  error : Errors \cup {NULL}]

\* The unit of work emits a column only when its value differs from the
\* loaded one; every other column keeps what the table holds by then.
Dirty(cur, old, new) == IF new = old THEN cur ELSE new

Flush(cur, old, new) ==
    [cur EXCEPT !.status = Dirty(@, old.status, new.status),
                !.result = Dirty(@, old.result, new.result),
                !.error  = Dirty(@, old.error, new.error)]

-----------------------------------------------------------------------------
(* The background tasks. *)

Busy == {"starting", "running", "finishing"}

Alive == {"scheduled"} \cup Busy

TaskFields ==
        [pc      : Alive \cup {"none", "done"},
         row     : RunIds \cup {NULL},       \* row of the open transaction
         old     : LoadedColumns \cup {NULL},
         crd     : Crds \cup {NULL},         \* argument of the pipeline
         outcome : {"ok", "raised", NULL},
         clock   : Ages \cup {NULL}]         \* time since started_at was read

\* A task holds a row exactly while its transaction is open.
Task == {t \in TaskFields : t.pc \in {"starting", "finishing"} =>
                              t.row \in RunIds /\ t.old \in LoadedColumns}

NoTask == [pc |-> "none", row |-> NULL, old |-> NULL, crd |-> NULL,
           outcome |-> NULL, clock |-> NULL]

DoneTask == [NoTask EXCEPT !.pc = "done"]

Request == [via : Endpoints \cup {NULL},
            reply : {"none", "pending", "accepted", "error", "lost"}]

\* No synchronous segment of the event loop is under way.
LoopFree ==
    /\ \A r \in RunIds : task[r].pc \notin {"starting", "finishing"}
    /\ \A r \in RunIds : request[r].reply = "pending" => request[r].via \notin OnLoop

TypeOK ==
    /\ rows \in [RunIds -> Row]
    /\ request \in [RunIds -> Request]
    /\ task \in [RunIds -> Task]
    /\ DOMAIN reaper \subseteq RunIds
    /\ reaper \in [DOMAIN reaper -> Errors \cup {NULL}]

Init ==
    /\ rows = [r \in RunIds |-> NoRow]
    /\ request = [r \in RunIds |-> [via |-> NULL, reply |-> "none"]]
    /\ task = [r \in RunIds |-> NoTask]
    /\ reaper = [r \in {} |-> NULL]

-----------------------------------------------------------------------------
(* The endpoints. *)

\* A trace id new_trace_id() can return: no row ever had it.
FreshTrace(t) == \A r \in RunIds : rows[r].trace # t

\* The unique index on trace_id.
DuplicateAllowed(t) == TRUE     \* mutant: the index is not unique

TraceFree(t) == RowsWith(t) = {}

\* Insert the row and commit.  A second row with the trace id of a live one
\* breaks the unique index: the handler raises and nothing is stored.
Submit(r, e, t, c) ==
    /\ rows[r].status = "absent"
    /\ e \in OnLoop => LoopFree
    /\ TraceFree(t)
    /\ e = "ui" => FreshTrace(t)
    /\ e = "upload" => c = DraftCrd[t]
    /\ rows' = [rows EXCEPT ![r] = [NoRow EXCEPT !.status = "queued",
                                                 !.trace = t, !.crd = c]]
    /\ request' = [request EXCEPT ![r] = [via |-> e, reply |-> "pending"]]
    /\ UNCHANGED <<task, reaper>>

\* asyncio.create_task on the loop's own thread: the task is created and the
\* client gets its 202 or 303.
Schedule(r) ==
    /\ request[r].reply = "pending"
    /\ request[r].via \in OnLoop
    /\ task' = [task EXCEPT ![r] = [NoTask EXCEPT !.pc = "scheduled"]]
    /\ request' = [request EXCEPT ![r].reply = "accepted"]
    /\ UNCHANGED <<rows, reaper>>

\* asyncio.create_task in a worker thread raises "no running event loop":
\* the row stays committed, there is no task, and the client gets a 500.
ScheduleOffLoop(r) ==
    /\ request[r].reply = "pending"
    /\ request[r].via \notin OnLoop
    /\ request' = [request EXCEPT ![r].reply = "error"]
    /\ UNCHANGED <<rows, task, reaper>>

-----------------------------------------------------------------------------
(* run_pipeline_job. *)

EndTask(r) == task' = [task EXCEPT ![r] = DoneTask]

\* First transaction, read half: fetch by trace id, not by primary key, and
\* without looking at the status.
StartRead(r) ==
    /\ task[r].pc = "scheduled"
    /\ LoopFree
    /\ \E q \in RowsWith(rows[r].trace) :
          task' = [task EXCEPT ![r].pc = "starting", ![r].row = q,
                               ![r].old = Columns(rows[q]), ![r].clock = 0]
    /\ UNCHANGED <<rows, request, reaper>>

\* Commit half.  The brochure columns are read back after the commit.
StartCommit(r) ==
    LET q == task[r].row IN
    /\ task[r].pc = "starting"
    /\ Live(q)
    /\ rows' = [rows EXCEPT ![q].status = Dirty(@, task[r].old.status, "running"),
                            ![q].age = task[r].clock]
    /\ \/ task' = [task EXCEPT ![r].pc = "running", ![r].row = NULL,
                               ![r].old = NULL, ![r].crd = rows[q].crd]
       \/ EndTask(r)          \* the read back fails
    /\ UNCHANGED <<request, reaper>>

\* The row is gone at the read or at the commit, or the database fails in
\* this transaction: the task logs and returns.
StartFails(r) ==
    /\ \/ task[r].pc = "scheduled" /\ LoopFree
       \/ task[r].pc = "starting"
    /\ EndTask(r)
    /\ UNCHANGED <<rows, request, reaper>>

\* The pipeline returned a state or raised; read half of the last
\* transaction.
FinishRead(r) ==
    /\ task[r].pc = "running"
    /\ LoopFree
    /\ \E q \in RowsWith(rows[r].trace), o \in {"ok", "raised"} :
          task' = [task EXCEPT ![r].pc = "finishing", ![r].row = q,
                               ![r].old = Columns(rows[q]), ![r].outcome = o]
    /\ UNCHANGED <<rows, request, reaper>>

FinalWithoutError(t) ==    \* mutant: the exception text is dropped
    IF t.outcome = "ok"
    THEN [status |-> "complete", result |-> t.crd, error |-> NULL]
    ELSE [status |-> "failed", result |-> NULL, error |-> NULL]

FinalAsError(t) ==         \* mutant: a status that is none; the column is a string
    IF t.outcome = "ok"
    THEN [status |-> "complete", result |-> t.crd, error |-> NULL]
    ELSE [status |-> "error", result |-> NULL, error |-> "raised"]

FinalWithPartial(t) ==     \* mutant: a failed run stores what it has
    IF t.outcome = "ok"
    THEN [status |-> "complete", result |-> t.crd, error |-> NULL]
    ELSE [status |-> "failed", result |-> t.crd, error |-> "raised"]

Final(t) ==
    IF t.outcome = "ok"
    THEN [status |-> "complete", result |-> t.crd, error |-> NULL]
    ELSE [status |-> "failed", result |-> NULL, error |-> "raised"]

FinishCommit(r) ==
    LET q == task[r].row IN
    /\ task[r].pc = "finishing"
    /\ Live(q)
    /\ rows' = [rows EXCEPT ![q] = [Flush(@, task[r].old, Final(task[r]))
                                       EXCEPT !.completed = TRUE]]
    /\ EndTask(r)
    /\ UNCHANGED <<request, reaper>>

\* "If even the terminal write fails the row is stuck running."
FinishFails(r) ==
    /\ \/ task[r].pc = "running" /\ LoopFree
       \/ task[r].pc = "finishing"
    /\ EndTask(r)
    /\ UNCHANGED <<rows, request, reaper>>

-----------------------------------------------------------------------------
(* The reaper, in a process of its own. *)

StuckAtThreshold(row) ==   \* mutant: the cutoff is not strict
    row.status = "running" /\ row.age # NULL /\ row.age >= Threshold

StuckWhateverStatus(row) ==   \* mutant: the status is not looked at
    row.age # NULL /\ row.age > Threshold

StuckInQueue(row) ==       \* mutant: the sweep is of queued rows
    row.status = "queued" /\ row.age # NULL /\ row.age > Threshold

Stuck(row) ==
    /\ row.status = "running"
    /\ row.age # NULL
    /\ row.age > Threshold

ReapRead ==
    LET candidates == {r \in RunIds : Stuck(rows[r])} IN
    /\ DOMAIN reaper = {}
    /\ candidates # {}
    /\ reaper' = [r \in candidates |-> rows[r].error]
    /\ UNCHANGED <<rows, request, task>>

\* One UPDATE by primary key per picked row, in one transaction.  A single
\* UPDATE that matches no row always raises; when a batch matches fewer rows
\* than it has, that depends on the driver.
ReapCommit ==
    LET gone == {r \in DOMAIN reaper : ~Live(r)} IN
    /\ DOMAIN reaper # {}
    /\ gone = {} \/ Cardinality(DOMAIN reaper) > 1
    /\ rows' = [r \in RunIds |->
                  IF r \in DOMAIN reaper \ gone
                  THEN [rows[r] EXCEPT !.status = "failed",
                                       !.error = Dirty(@, reaper[r], "reaped"),
                                       !.completed = TRUE]
                  ELSE rows[r]]
    /\ reaper' = [r \in {} |-> NULL]
    /\ UNCHANGED <<request, task>>

\* The whole sweep rolls back, or the process is killed.
ReapFail ==
    /\ DOMAIN reaper # {}
    /\ reaper' = [r \in {} |-> NULL]
    /\ UNCHANGED <<rows, request, task>>

-----------------------------------------------------------------------------
(* The environment. *)

OperatorDelete(r) ==
    /\ rows[r].status \in Deletable
    /\ rows' = [rows EXCEPT ![r] = [NoRow EXCEPT !.status = "deleted",
                                                 !.trace = rows[r].trace]]
    /\ UNCHANGED <<request, task, reaper>>

\* The web process dies: its tasks and its open requests with it.
Crash ==
    /\ \E r \in RunIds : task[r].pc \in Alive \/ request[r].reply = "pending"
    /\ task' = [r \in RunIds |->
                  IF task[r].pc \in Alive THEN DoneTask ELSE task[r]]
    /\ request' = [r \in RunIds |->
                  IF request[r].reply = "pending"
                  THEN [request[r] EXCEPT !.reply = "lost"] ELSE request[r]]
    /\ UNCHANGED <<rows, reaper>>

Older(n) == IF n \in 0 .. Threshold THEN n + 1 ELSE n

\* Time passes.  Under Timely no run is ever older than the threshold.
Tick ==
    /\ Timely => \A r \in RunIds : task[r].pc \in Busy => task[r].clock < Threshold
    /\ rows' = [r \in RunIds |-> [rows[r] EXCEPT !.age = Older(@)]]
    /\ task' = [r \in RunIds |-> [task[r] EXCEPT !.clock = Older(@)]]
    /\ UNCHANGED <<request, reaper>>

-----------------------------------------------------------------------------
RunnerStep(r) ==
    \/ StartRead(r) \/ StartCommit(r) \/ StartFails(r)
    \/ FinishRead(r) \/ FinishCommit(r) \/ FinishFails(r)

Reap == ReapRead \/ ReapCommit \/ ReapFail

Next ==
    \/ \E r \in RunIds :
          \/ \E e \in Endpoints, t \in Traces, c \in Crds : Submit(r, e, t, c)
          \/ Schedule(r)
          \/ ScheduleOffLoop(r)
          \/ RunnerStep(r)
          \/ OperatorDelete(r)
    \/ Reap
    \/ Crash
    \/ Tick

Spec == Init /\ [][Next]_vars

\* The clock advances and the operator's cron job keeps running the reaper,
\* whose sweep does not fail for ever (ADR 0011, section 6).
ReaperFairness ==
    /\ WF_vars(Tick)
    /\ WF_vars(Reap)
    /\ SF_vars(ReapCommit)

\* The event loop runs every ready task, and pipelines return or raise.
RunnerFairness ==
    /\ \A r \in RunIds : WF_vars(Schedule(r) \/ ScheduleOffLoop(r))
    /\ \A r \in RunIds : SF_vars(RunnerStep(r))

ReapedSpec == Spec /\ ReaperFairness

FairSpec == Spec /\ ReaperFairness /\ RunnerFairness

-----------------------------------------------------------------------------
(* Properties. *)

Terminal == {"complete", "failed"}

(***************************************************************************)
(* A caller that polls a terminal row can tell what happened, even if runs *)
(* outlive the threshold and rows are deleted under a run: a complete row  *)
(* has a result, a failed row an error or, when the sweep overtook a run   *)
(* that finished, that run's result, and completed_at is set.  Runner and  *)
(* reaper write these columns from different processes, and each writes    *)
(* only the columns that differ from what it loaded.                       *)
(***************************************************************************)
ReadableOutcome ==
    \A r \in RunIds :
        /\ rows[r].status = "complete" => rows[r].result # NULL
        /\ rows[r].status = "failed" => rows[r].error # NULL \/ rows[r].result # NULL
        /\ rows[r].status \in Terminal => rows[r].completed

(***************************************************************************)
(* The exact form, when no run outlives the threshold: the columns and the *)
(* status determine each other, so no complete row carries the error of a  *)
(* sweep and no failed row a result the review pages would show.           *)
(***************************************************************************)
OutcomeMatchesStatus ==
    \A r \in RunIds : Live(r) =>
        /\ rows[r].status = "complete" <=> rows[r].result # NULL
        /\ rows[r].status = "failed" <=> rows[r].error # NULL
        /\ rows[r].status \in Terminal <=> rows[r].completed
        /\ rows[r].status = "queued" <=> rows[r].age = NULL

(***************************************************************************)
(* The stored state is about the firm the row names.  The runner finds its *)
(* row by trace id, and clients may choose and reuse trace ids once a row  *)
(* was deleted, so this is not evident.                                    *)
(***************************************************************************)
ResultMatchesRow ==
    \A r \in RunIds :
        Live(r) /\ rows[r].result # NULL => rows[r].result = rows[r].crd

(***************************************************************************)
(* The sweep never holds the row of a run that is still going: a row is    *)
(* picked only when its worker is gone (reaper.py: "worker died").         *)
(***************************************************************************)
ReaperSparesLiveRuns ==
    \A r \in DOMAIN reaper : task[r].pc \notin Alive

(***************************************************************************)
(* What a poller reads is final once nobody is left who could change it: a *)
(* terminal row that no sweep holds, and whose trace id no live task and   *)
(* no request under way has, keeps its columns until it is purged.  Runs   *)
(* may outlive the threshold, sweeps overtake them, trace ids be reused.   *)
(***************************************************************************)
Unattended(r) ==
    /\ r \notin DOMAIN reaper
    /\ \A q \in RunIds : rows[q].trace = rows[r].trace =>
          task[q].pc \notin Alive /\ request[q].reply # "pending"

Settled(r) == rows[r].status \in Terminal /\ Unattended(r)

VerdictIsFinal ==
    [][\A r \in RunIds : Settled(r) =>
          \/ Settled(r)' /\ Columns(rows[r])' = Columns(rows[r])
          \/ rows'[r].status = "deleted"]_vars

(***************************************************************************)
(* The table implements the documented lifecycle of every row.             *)
(***************************************************************************)
Lifecycle == INSTANCE JobLifecycle WITH status <- [r \in RunIds |-> rows[r].status]

LifecycleSpec == Lifecycle!Spec

(***************************************************************************)
(* To those who read the table, its rows are those of JobTable: the trace  *)
(* id names one row, and the result of a row comes with "complete" and     *)
(* stays.  This is all ReviewGate knows of workers and reaper.             *)
(***************************************************************************)
Visible(r) ==
    IF Live(r) THEN [trace |-> rows[r].trace, crd |-> rows[r].crd, result |-> rows[r].result]
    ELSE [trace |-> NULL, crd |-> NULL, result |-> NULL]

Table == INSTANCE JobTable WITH status <- [r \in RunIds |-> rows[r].status],
                                row <- [r \in RunIds |-> Visible(r)],
                                Stores <- {<<c, c>> : c \in Crds}

ReadersSee == Table!TableSpec

(***************************************************************************)
(* No row stays "running" for ever, whatever its worker does: it is left   *)
(* to the reaper (ADR 0011, section 6).                                    *)
(***************************************************************************)
RunningIsLeft ==
    \A r \in RunIds : rows[r].status = "running" ~> rows[r].status # "running"

\* A queued row whose task is gone.  Nothing in the code ever moves it.
QueuedOrphan(r) == rows[r].status = "queued" /\ task[r].pc = "done"

(***************************************************************************)
(* Every accepted run comes to rest: terminal, purged, or a queued orphan. *)
(* There is no other way for an accepted run to be forgotten.              *)
(***************************************************************************)
AcceptedSettles ==
    \A r \in RunIds : request[r].reply = "accepted" ~>
        rows[r].status \in Terminal \cup {"deleted"} \/ QueuedOrphan(r)

(***************************************************************************)
(* tests/test_pipeline_reaper.py: "Reaper only touches `running`. Complete *)
(* and failed rows are immutable."  Does not hold when a run outlives the  *)
(* threshold: the sweep commits over a row that its worker completed after *)
(* the sweep picked it.                                                    *)
(***************************************************************************)
ReaperOnlyTouchesRunning ==
    [][ReapCommit => \A r \in RunIds :
          rows'[r] # rows[r] => rows[r].status = "running"]_vars

(***************************************************************************)
(* runner.py: the caller polling the run "always sees a terminal state".   *)
(* Does not hold: a queued orphan is never reaped.                         *)
(***************************************************************************)
AcceptedReachesTerminal ==
    \A r \in RunIds : request[r].reply = "accepted" ~>
        rows[r].status \in Terminal \cup {"deleted"}

(***************************************************************************)
(* main.py, pipeline_run: "inserts a PipelineRun row with status=queued,   *)
(* schedules the runner, and returns the trace_id".  Does not hold for the *)
(* endpoints that run in a worker thread: the row is there, the client was *)
(* told of an error, and no task exists.                                   *)
(***************************************************************************)
EnqueuedIsScheduled ==
    \A r \in RunIds : Live(r) => request[r].reply # "error"
=============================================================================
