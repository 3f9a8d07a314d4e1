------------------------- MODULE PipelineJobsProofs -------------------------
(* Proofs about PipelineJobs, for every value of its constants. *)
EXTENDS PipelineJobs, TLAPS

LEMMA OlderType == \A n \in Ages \cup {NULL} : Older(n) \in Ages \cup {NULL}
  BY ThresholdAssumption, NullAssumption DEF Older, Ages

LEMMA InitType == Init => TypeOK
  <1>. SUFFICES ASSUME Init PROVE TypeOK
    OBVIOUS
  <1>1. NoRow \in Row
    BY DEF NoRow, Row
  <1>2. NoTask \in Task
    BY DEF NoTask, Task, TaskFields, Alive, Busy
  <1>3. [via |-> NULL, reply |-> "none"] \in Request
    BY DEF Request
  <1>4. reaper \in [{} -> Errors \cup {NULL}]
    BY DEF Init
  <1>. QED
    BY <1>1, <1>2, <1>3, <1>4 DEF Init, TypeOK

LEMMA DoneType == DoneTask \in Task
  BY DEF DoneTask, NoTask, Task, TaskFields, Alive, Busy

LEMMA ColumnsType ==
  ASSUME TypeOK, NEW r \in RunIds, Live(r)
  PROVE  Columns(rows[r]) \in LoadedColumns
  BY DEF TypeOK, Row, Live, Columns, LoadedColumns

LEMMA FinalType ==
  ASSUME NEW t \in Task
  PROVE  Final(t) \in [status : Terminal, result : Crds \cup {NULL},
                       error : Errors \cup {NULL}]
  BY DEF Task, TaskFields, Final, Terminal, Errors

\* Updating one task or one row keeps the table of them in its type.
LEMMA EndTaskType ==
  ASSUME TypeOK, NEW r \in RunIds, EndTask(r)
  PROVE  task' \in [RunIds -> Task]
  BY DoneType DEF EndTask, TypeOK

LEMMA SubmitType ==
  ASSUME TypeOK, NEW r \in RunIds, NEW e \in Endpoints, NEW t \in Traces,
         NEW c \in Crds, Submit(r, e, t, c)
  PROVE  TypeOK'
  <1>1. [NoRow EXCEPT !.status = "queued", !.trace = t, !.crd = c] \in Row
    BY DEF NoRow, Row, RowStatuses
  <1>2. [via |-> e, reply |-> "pending"] \in Request
    BY DEF Request
  <1>. QED
    BY <1>1, <1>2 DEF Submit, TypeOK

LEMMA ScheduleType ==
  ASSUME TypeOK, NEW r \in RunIds, Schedule(r) \/ ScheduleOffLoop(r)
  PROVE  TypeOK'
  <1>1. [NoTask EXCEPT !.pc = "scheduled"] \in Task
    BY DEF NoTask, Task, TaskFields, Alive, Busy
  <1>2. \A s \in {"accepted", "error"} : [request[r] EXCEPT !.reply = s] \in Request
    BY DEF TypeOK, Request
  <1>3. CASE Schedule(r)
    BY <1>3, <1>1, <1>2 DEF Schedule, TypeOK
  <1>4. CASE ScheduleOffLoop(r)
    BY <1>4, <1>2 DEF ScheduleOffLoop, TypeOK
  <1>. QED
    BY <1>3, <1>4

LEMMA StartReadType ==
  ASSUME TypeOK, NEW r \in RunIds, StartRead(r)
  PROVE  TypeOK'
  <1>1. PICK q \in RowsWith(rows[r].trace) :
           task' = [task EXCEPT ![r].pc = "starting", ![r].row = q,
                      ![r].old = Columns(rows[q]), ![r].clock = 0]
    BY DEF StartRead
  <1>2. q \in RunIds /\ Columns(rows[q]) \in LoadedColumns
    BY ColumnsType DEF RowsWith
  <1>3. 0 \in Ages
    BY ThresholdAssumption DEF Ages
  <1>4. [task[r] EXCEPT !.pc = "starting", !.row = q,
                        !.old = Columns(rows[q]), !.clock = 0] \in Task
    <2>. DEFINE old == Columns(rows[q])
    <2>1. task[r] \in Task
      BY DEF TypeOK
    <2>2. old \in LoadedColumns
      BY <1>2
    <2>. HIDE DEF old
    <2>3. [task[r] EXCEPT !.pc = "starting", !.row = q, !.old = old,
                          !.clock = 0] \in Task
      BY <1>2, <1>3, <2>1, <2>2 DEF Task, TaskFields, Alive, Busy
    <2>. QED
      BY <2>3 DEF old
  <1>5. task' = [task EXCEPT ![r] = [task[r] EXCEPT !.pc = "starting", !.row = q,
                        !.old = Columns(rows[q]), !.clock = 0]]
    BY <1>1
  <1>6. task' \in [RunIds -> Task]
    BY <1>4, <1>5 DEF TypeOK
  <1>. QED
    BY <1>6 DEF StartRead, TypeOK

LEMMA StartCommitType ==
  ASSUME TypeOK, NEW r \in RunIds, StartCommit(r)
  PROVE  TypeOK'
  <1>. DEFINE q == task[r].row
  <1>1. q \in RunIds /\ task[r] \in Task /\ rows[q] \in Row
    BY DEF StartCommit, TypeOK, Task
  <1>2. [rows[q] EXCEPT !.status = Dirty(@, task[r].old.status, "running"),
                        !.age = task[r].clock] \in Row
    BY <1>1 DEF Row, Task, TaskFields, Dirty, RowStatuses
  <1>3. rows' = [rows EXCEPT ![q] =
          [rows[q] EXCEPT !.status = Dirty(@, task[r].old.status, "running"),
                          !.age = task[r].clock]]
    BY DEF StartCommit
  <1>4. rows' \in [RunIds -> Row]
    BY <1>1, <1>2, <1>3 DEF TypeOK
  <1>5. [task[r] EXCEPT !.pc = "running", !.row = NULL, !.old = NULL,
                        !.crd = rows[q].crd] \in Task
    BY <1>1 DEF Row, Task, TaskFields, Alive, Busy
  <1>6. task' \in [RunIds -> Task]
    BY <1>1, <1>5, EndTaskType DEF StartCommit, TypeOK
  <1>. QED
    BY <1>4, <1>6 DEF StartCommit, TypeOK

LEMMA StartFailsType ==
  ASSUME TypeOK, NEW r \in RunIds, StartFails(r) \/ FinishFails(r)
  PROVE  TypeOK'
  BY EndTaskType DEF StartFails, FinishFails, TypeOK

LEMMA FinishReadType ==
  ASSUME TypeOK, NEW r \in RunIds, FinishRead(r)
  PROVE  TypeOK'
  <1>1. PICK q \in RowsWith(rows[r].trace), o \in {"ok", "raised"} :
           task' = [task EXCEPT ![r].pc = "finishing", ![r].row = q,
                      ![r].old = Columns(rows[q]), ![r].outcome = o]
    BY DEF FinishRead
  <1>. DEFINE old == Columns(rows[q])
  <1>2. q \in RunIds /\ old \in LoadedColumns
    BY ColumnsType DEF RowsWith
  <1>3. task[r] \in Task
    BY DEF TypeOK
  <1>. HIDE DEF old
  <1>4. [task[r] EXCEPT !.pc = "finishing", !.row = q, !.old = old,
                        !.outcome = o] \in Task
    BY <1>2, <1>3 DEF Task, TaskFields, Alive, Busy
  <1>5. task' = [task EXCEPT ![r] = [task[r] EXCEPT !.pc = "finishing", !.row = q,
                        !.old = old, !.outcome = o]]
    BY <1>1 DEF old
  <1>6. task' \in [RunIds -> Task]
    BY <1>4, <1>5 DEF TypeOK
  <1>. QED
    BY <1>6 DEF FinishRead, TypeOK

LEMMA FinishCommitType ==
  ASSUME TypeOK, NEW r \in RunIds, FinishCommit(r)
  PROVE  TypeOK'
  <1>. DEFINE q == task[r].row
              new == Final(task[r])
  <1>1. q \in RunIds /\ rows[q] \in Row
    BY DEF FinishCommit, TypeOK, Task
  <1>2. new \in [status : Terminal, result : Crds \cup {NULL},
                 error : Errors \cup {NULL}]
    BY FinalType DEF TypeOK
  <1>. HIDE DEF new
  <1>3. [Flush(rows[q], task[r].old, new) EXCEPT !.completed = TRUE] \in Row
    <2>1. Dirty(rows[q].status, task[r].old.status, new.status)
            \in RowStatuses \cup {"absent", "deleted"}
      BY <1>1, <1>2 DEF Dirty, Row, RowStatuses, Terminal
    <2>2. Dirty(rows[q].result, task[r].old.result, new.result) \in Crds \cup {NULL}
      BY <1>1, <1>2 DEF Dirty, Row
    <2>3. Dirty(rows[q].error, task[r].old.error, new.error) \in Errors \cup {NULL}
      BY <1>1, <1>2 DEF Dirty, Row
    <2>. QED
      BY <1>1, <2>1, <2>2, <2>3 DEF Flush, Row
  <1>4. rows' \in [RunIds -> Row]
    BY <1>1, <1>3 DEF FinishCommit, TypeOK, new
  <1>. QED
    BY <1>4, EndTaskType DEF FinishCommit, TypeOK

LEMMA ReapType ==
  ASSUME TypeOK, Reap
  PROVE  TypeOK'
  <1>1. CASE ReapRead
    <2>1. \A r \in RunIds : Stuck(rows[r]) => rows[r].error \in Errors \cup {NULL}
      BY DEF TypeOK, Row
    <2>. QED
      BY <1>1, <2>1 DEF ReapRead, TypeOK
  <1>2. CASE ReapFail
    BY <1>2 DEF ReapFail, TypeOK
  <1>3. CASE ReapCommit
    <2>1. ASSUME NEW r \in RunIds, NEW old
          PROVE  [rows[r] EXCEPT !.status = "failed", !.error = Dirty(@, old, "reaped"),
                                 !.completed = TRUE] \in Row
      <3>1. rows[r] \in Row
        BY DEF TypeOK
      <3>. QED
        BY <3>1 DEF Row, RowStatuses, Dirty, Errors
    <2>2. rows' \in [RunIds -> Row]
      BY <1>3, <2>1 DEF ReapCommit, TypeOK
    <2>. QED
      BY <1>3, <2>2 DEF ReapCommit, TypeOK
  <1>. QED
    BY <1>1, <1>2, <1>3 DEF Reap

LEMMA EnvironmentType ==
  ASSUME TypeOK,
         (\E r \in RunIds : OperatorDelete(r)) \/ Crash \/ Tick
  PROVE  TypeOK'
  <1>1. ASSUME NEW r \in RunIds, OperatorDelete(r) PROVE TypeOK'
    <2>1. rows[r] \in Row
      BY DEF TypeOK
    <2>2. [NoRow EXCEPT !.status = "deleted", !.trace = rows[r].trace] \in Row
      BY <2>1 DEF NoRow, Row
    <2>. QED
      BY <1>1, <2>2 DEF OperatorDelete, TypeOK
  <1>2. CASE Crash
    <2>1. \A r \in RunIds : [request[r] EXCEPT !.reply = "lost"] \in Request
      BY DEF TypeOK, Request
    <2>. QED
      BY <1>2, <2>1, DoneType DEF Crash, TypeOK
  <1>3. CASE Tick
    <2>1. ASSUME NEW r \in RunIds PROVE [rows[r] EXCEPT !.age = Older(@)] \in Row
      <3>1. rows[r] \in Row
        BY DEF TypeOK
      <3>2. Older(rows[r].age) \in Ages \cup {NULL}
        BY <3>1, OlderType DEF Row
      <3>. QED
        BY <3>1, <3>2 DEF Row
    <2>2. ASSUME NEW r \in RunIds PROVE [task[r] EXCEPT !.clock = Older(@)] \in Task
      <3>1. task[r] \in Task
        BY DEF TypeOK
      <3>2. Older(task[r].clock) \in Ages \cup {NULL}
        BY <3>1, OlderType DEF Task, TaskFields
      <3>. QED
        BY <3>1, <3>2 DEF Task, TaskFields
    <2>. QED
      BY <1>3, <2>1, <2>2 DEF Tick, TypeOK
  <1>. QED
    BY <1>1, <1>2, <1>3

\* Every step keeps every variable in its type.
LEMMA TypeStep == TypeOK /\ [Next]_vars => TypeOK'
  <1>. SUFFICES ASSUME TypeOK, [Next]_vars PROVE TypeOK'
    OBVIOUS
  <1>1. CASE UNCHANGED vars
    BY <1>1 DEF vars, TypeOK
  <1>2. CASE \E r \in RunIds, e \in Endpoints, t \in Traces, c \in Crds :
                Submit(r, e, t, c)
    BY <1>2, SubmitType
  <1>3. CASE \E r \in RunIds : Schedule(r) \/ ScheduleOffLoop(r)
    BY <1>3, ScheduleType
  <1>4. CASE \E r \in RunIds : RunnerStep(r)
    BY <1>4, StartReadType, StartCommitType, StartFailsType, FinishReadType,
       FinishCommitType DEF RunnerStep
  <1>5. CASE Reap
    BY <1>5, ReapType
  <1>6. CASE (\E r \in RunIds : OperatorDelete(r)) \/ Crash \/ Tick
    BY <1>6, EnvironmentType
  <1>. QED
    BY <1>1, <1>2, <1>3, <1>4, <1>5, <1>6 DEF Next

(***************************************************************************)
(* Every variable keeps its type, for any assumption about the             *)
(* environment: in particular a started run's age is never lost and an     *)
(* open transaction always holds a row with the columns it loaded.         *)
(***************************************************************************)
THEOREM TypeCorrect == Spec => []TypeOK
  BY InitType, TypeStep, PTL DEF Spec

-----------------------------------------------------------------------------
(***************************************************************************)
(* The environment under which a task keeps its own row.  Rows are deleted *)
(* only in a status that no row with a live task can have: terminal ones   *)
(* if runs are timely, else only "complete", because the reaper may have   *)
(* failed the row of a run that still goes on.  ADR 0011 suggests deleting *)
(* complete rows.                                                          *)
(***************************************************************************)
SafeDeletion == Deletable \subseteq IF Timely THEN Terminal ELSE {"complete"}

\* The statuses of a row whose task is between its two transactions.
Held == IF Timely THEN {"running"} ELSE {"running", "failed"}

UniqueTraces ==
    \A r, q \in RunIds :
        Live(r) /\ Live(q) /\ rows[r].trace = rows[q].trace => r = q

PendingIsQueued(r) ==
    /\ rows[r].status = "absent" => task[r].pc = "none"
    /\ request[r].reply = "pending" => rows[r].status = "queued" /\ task[r].pc = "none"

\* A live task's row is there, in the status the task left it in; the
\* transaction it has open is on that row.
OwnRow(r) ==
    /\ task[r].pc \in {"scheduled", "starting"} => rows[r].status = "queued"
    /\ task[r].pc \in {"running", "finishing"} =>
          rows[r].status \in Held /\ task[r].crd = rows[r].crd
    /\ task[r].pc \in {"starting", "finishing"} => task[r].row = r
    /\ task[r].pc = "starting" => task[r].old.status = "queued"

IdentityInv ==
    /\ TypeOK
    /\ UniqueTraces
    /\ \A r \in RunIds : PendingIsQueued(r) /\ OwnRow(r)
    /\ \A r \in DOMAIN reaper : rows[r].status \notin {"absent", "queued"}
    /\ ResultMatchesRow

\* What timely runs add: the age of a live run's row is the run's own clock,
\* the columns it loaded are still the table's, and a picked row is still
\* running, without an error and without a task.
TimelyRun(r) ==
    /\ task[r].pc \in Busy => task[r].clock \in 0 .. Threshold
    /\ task[r].pc \in {"running", "finishing"} => rows[r].age = task[r].clock
    /\ task[r].pc \in {"starting", "finishing"} => task[r].old = Columns(rows[r])

TimelyRow(r) ==
    Live(r) =>
        /\ rows[r].status = "complete" <=> rows[r].result # NULL
        /\ rows[r].status = "failed" <=> rows[r].error # NULL
        /\ rows[r].status \in Terminal <=> rows[r].completed
        /\ rows[r].status = "queued" <=> rows[r].age = NULL
        /\ rows[r].crd # NULL

TimelyPick(r) ==
    rows[r].status = "running" /\ reaper[r] = NULL /\ task[r].pc \notin Alive

TimelyInv ==
    /\ \A r \in RunIds : TimelyRun(r) /\ TimelyRow(r)
    /\ \A r \in DOMAIN reaper : TimelyPick(r)

-----------------------------------------------------------------------------
\* Fetching by trace id finds the task's own row and nothing else.
LEMMA OwnFetch ==
  ASSUME IdentityInv, NEW r \in RunIds, task[r].pc \in Alive
  PROVE  /\ Live(r)
         /\ RowsWith(rows[r].trace) = {r}
  <1>1. Live(r)
    BY DEF IdentityInv, OwnRow, Held, Live, RowStatuses, Alive, Busy
  <1>. QED
    BY <1>1 DEF IdentityInv, UniqueTraces, RowsWith

LEMMA SubmitIdentity ==
  ASSUME IdentityInv, TypeOK', NEW r \in RunIds, NEW e \in Endpoints,
         NEW t \in Traces, NEW c \in Crds, Submit(r, e, t, c)
  PROVE  IdentityInv'
  <1>1. /\ rows[r].status = "absent" /\ task[r].pc = "none"
        /\ rows' = [rows EXCEPT ![r] = [NoRow EXCEPT !.status = "queued",
                                                    !.trace = t, !.crd = c]]
        /\ request' = [request EXCEPT ![r] = [via |-> e, reply |-> "pending"]]
        /\ task' = task /\ reaper' = reaper
        /\ RowsWith(t) = {}
    BY DEF Submit, TraceFree, IdentityInv, PendingIsQueued
  <1>2. /\ rows'[r].status = "queued" /\ rows'[r].trace = t
        /\ rows'[r].crd = c /\ rows'[r].result = NULL
        /\ \A q \in RunIds \ {r} : rows'[q] = rows[q] /\ request'[q] = request[q]
    BY <1>1 DEF IdentityInv, TypeOK, NoRow
  <1>frame. rows[r].status = "absent" /\ task[r].pc = "none" /\ task' = task /\ reaper' = reaper
    BY <1>1
  <1>3. UniqueTraces'
    BY <1>1, <1>2 DEF IdentityInv, UniqueTraces, RowsWith, Live
  <1>4. ASSUME NEW q \in RunIds PROVE PendingIsQueued(q)' /\ OwnRow(q)'
    <2>1. CASE q = r
      BY <1>frame, <1>2, <2>1 DEF PendingIsQueued, OwnRow
    <2>2. CASE q # r
      BY <1>frame, <1>2, <2>2 DEF IdentityInv, PendingIsQueued, OwnRow, Held
    <2>. QED
      BY <2>1, <2>2
  <1>5. (\A q \in DOMAIN reaper : rows[q].status \notin {"absent", "queued"})'
    BY <1>frame, <1>2 DEF IdentityInv, TypeOK
  <1>6. ResultMatchesRow'
    BY <1>frame, <1>2 DEF IdentityInv, ResultMatchesRow, Live
  <1>. QED
    BY <1>3, <1>4, <1>5, <1>6 DEF IdentityInv

LEMMA ScheduleIdentity ==
  ASSUME IdentityInv, TypeOK', NEW r \in RunIds, Schedule(r) \/ ScheduleOffLoop(r)
  PROVE  IdentityInv'
  <1>1. /\ rows' = rows /\ reaper' = reaper
        /\ request[r].reply = "pending"
        /\ request'[r].reply # "pending"
        /\ task'[r].pc \in {"scheduled", "none"}
        /\ \A q \in RunIds \ {r} : request'[q] = request[q] /\ task'[q] = task[q]
    <2>1. request[r].reply = "pending" /\ task[r].pc = "none"
      BY DEF Schedule, ScheduleOffLoop, IdentityInv, PendingIsQueued
    <2>2. CASE Schedule(r)
      BY <2>1, <2>2 DEF Schedule, IdentityInv, TypeOK, Request, NoTask
    <2>3. CASE ScheduleOffLoop(r)
      BY <2>1, <2>3 DEF ScheduleOffLoop, IdentityInv, TypeOK, Request
    <2>. QED
      BY <2>2, <2>3
  <1>2. ASSUME NEW q \in RunIds PROVE PendingIsQueued(q)' /\ OwnRow(q)'
    BY <1>1 DEF IdentityInv, PendingIsQueued, OwnRow, Held
  <1>. QED
    BY <1>1, <1>2 DEF IdentityInv, UniqueTraces, RowsWith, Live, ResultMatchesRow

LEMMA StartReadIdentity ==
  ASSUME IdentityInv, TypeOK', NEW r \in RunIds, StartRead(r)
  PROVE  IdentityInv'
  <1>1. RowsWith(rows[r].trace) = {r}
    BY OwnFetch DEF StartRead, Alive
  <1>2. /\ UNCHANGED <<rows, request, reaper>>
        /\ task[r].pc = "scheduled"
        /\ task' = [task EXCEPT ![r].pc = "starting", ![r].row = r,
                               ![r].old = Columns(rows[r]), ![r].clock = 0]
    BY <1>1 DEF StartRead
  <1>3. /\ task'[r].pc = "starting" /\ task'[r].row = r
        /\ task'[r].old.status = rows[r].status
        /\ \A q \in RunIds \ {r} : task'[q] = task[q]
    <2>1. task \in [RunIds -> Task]
      BY DEF IdentityInv, TypeOK
    <2>2. task'[r].old = Columns(rows[r]) /\ task'[r].pc = "starting" /\ task'[r].row = r
      BY <1>2, <2>1 DEF Task, TaskFields
    <2>3. \A q \in RunIds \ {r} : task'[q] = task[q]
      BY <1>2, <2>1
    <2>. QED
      BY <2>2, <2>3 DEF Columns
  <1>frame. UNCHANGED <<rows, request, reaper>> /\ task[r].pc = "scheduled"
    BY <1>2
  <1>4. ASSUME NEW q \in RunIds PROVE PendingIsQueued(q)' /\ OwnRow(q)'
    BY <1>frame, <1>3 DEF IdentityInv, PendingIsQueued, OwnRow, Held
  <1>. QED
    BY <1>2, <1>4 DEF IdentityInv, UniqueTraces, Live, ResultMatchesRow

LEMMA StartCommitIdentity ==
  ASSUME IdentityInv, TypeOK', NEW r \in RunIds, StartCommit(r)
  PROVE  IdentityInv'
  <1>1. /\ task[r].pc = "starting" /\ task[r].row = r
        /\ rows[r].status = "queued" /\ task[r].old.status = "queued"
    BY DEF StartCommit, IdentityInv, OwnRow
  <1>2. /\ rows' = [rows EXCEPT ![r].status = "running", ![r].age = task[r].clock]
        /\ UNCHANGED <<request, reaper>>
    BY <1>1 DEF StartCommit, Dirty
  <1>3. /\ rows'[r] = [rows[r] EXCEPT !.status = "running", !.age = task[r].clock]
        /\ \A q \in RunIds \ {r} : rows'[q] = rows[q]
    BY <1>2 DEF IdentityInv, TypeOK
  <1>4. /\ rows'[r].status = "running"
        /\ rows'[r].trace = rows[r].trace /\ rows'[r].crd = rows[r].crd
        /\ rows'[r].result = rows[r].result
        /\ \A q \in RunIds \ {r} : rows'[q] = rows[q]
        /\ UNCHANGED <<request, reaper>>
    BY <1>2, <1>3 DEF IdentityInv, TypeOK, Row
  <1>5. /\ \/ task'[r].pc = "running" /\ task'[r].crd = rows[r].crd
           \/ task'[r].pc = "done"
        /\ \A q \in RunIds \ {r} : task'[q] = task[q]
    <2>1. task \in [RunIds -> Task]
      BY DEF IdentityInv, TypeOK
    <2>2. CASE EndTask(r)
      BY <2>1, <2>2 DEF EndTask, DoneTask, NoTask
    <2>3. CASE task' = [task EXCEPT ![r].pc = "running", ![r].row = NULL,
                          ![r].old = NULL, ![r].crd = rows[r].crd]
      BY <2>1, <2>3 DEF Task, TaskFields
    <2>. QED
      BY <1>1, <2>2, <2>3 DEF StartCommit
  <1>6. UniqueTraces'
    BY <1>1, <1>4 DEF IdentityInv, UniqueTraces, Live, RowStatuses
  <1>7. ASSUME NEW q \in RunIds PROVE PendingIsQueued(q)' /\ OwnRow(q)'
    BY <1>1, <1>4, <1>5 DEF IdentityInv, PendingIsQueued, OwnRow, Held
  <1>8. (\A q \in DOMAIN reaper : rows[q].status \notin {"absent", "queued"})'
    BY <1>4 DEF IdentityInv, TypeOK
  <1>9. ResultMatchesRow'
    BY <1>1, <1>4 DEF IdentityInv, ResultMatchesRow, Live, RowStatuses
  <1>. QED
    BY <1>6, <1>7, <1>8, <1>9 DEF IdentityInv

\* A task that ends without writing leaves everything else alone.
LEMMA EndTaskIdentity ==
  ASSUME IdentityInv, TypeOK', NEW r \in RunIds, EndTask(r),
         task[r].pc \in Alive, UNCHANGED <<rows, request, reaper>>
  PROVE  IdentityInv'
  <1>1. /\ task'[r].pc = "done"
        /\ \A q \in RunIds \ {r} : task'[q] = task[q]
    BY DEF EndTask, DoneTask, NoTask, IdentityInv, TypeOK
  <1>2. ASSUME NEW q \in RunIds PROVE PendingIsQueued(q)' /\ OwnRow(q)'
    <2>1. task[r].pc # "none"
      BY DEF Alive, Busy
    <2>. QED
      BY <1>1, <2>1 DEF IdentityInv, PendingIsQueued, OwnRow, Held
  <1>. QED
    BY <1>2 DEF IdentityInv, UniqueTraces, Live, ResultMatchesRow

LEMMA FinishReadIdentity ==
  ASSUME IdentityInv, TypeOK', NEW r \in RunIds, FinishRead(r)
  PROVE  IdentityInv'
  <1>1. RowsWith(rows[r].trace) = {r}
    BY OwnFetch DEF FinishRead, Alive, Busy
  <1>2. PICK o \in {"ok", "raised"} :
          task' = [task EXCEPT ![r].pc = "finishing", ![r].row = r,
                     ![r].old = Columns(rows[r]), ![r].outcome = o]
    BY <1>1 DEF FinishRead
  <1>3. /\ UNCHANGED <<rows, request, reaper>>
        /\ task[r].pc = "running"
    BY DEF FinishRead
  <1>4. /\ task'[r].pc = "finishing" /\ task'[r].row = r
        /\ task'[r].crd = task[r].crd
        /\ \A q \in RunIds \ {r} : task'[q] = task[q]
    <2>1. task \in [RunIds -> Task]
      BY DEF IdentityInv, TypeOK
    <2>. QED
      BY <1>2, <2>1 DEF Task, TaskFields
  <1>5. ASSUME NEW q \in RunIds PROVE PendingIsQueued(q)' /\ OwnRow(q)'
    BY <1>3, <1>4 DEF IdentityInv, PendingIsQueued, OwnRow, Held
  <1>. QED
    BY <1>3, <1>5 DEF IdentityInv, UniqueTraces, Live, ResultMatchesRow

\* What the terminal write does to its row.
LEMMA FinishCommitRow ==
  ASSUME IdentityInv, NEW r \in RunIds, FinishCommit(r)
  PROVE  /\ task[r].row = r /\ rows[r].status \in Held
         /\ rows'[r].trace = rows[r].trace /\ rows'[r].crd = rows[r].crd
         /\ rows'[r].status \in Held \cup Terminal
         /\ rows'[r].result \in {rows[r].result, rows[r].crd, NULL}
         /\ \A q \in RunIds \ {r} : rows'[q] = rows[q] /\ task'[q] = task[q]
         /\ task'[r].pc = "done"
         /\ UNCHANGED <<request, reaper>>
  <1>. DEFINE t == task[r]
  <1>1. t.pc = "finishing" /\ t.row = r /\ rows[r].status \in Held /\ t.crd = rows[r].crd
    BY DEF FinishCommit, IdentityInv, OwnRow
  <1>2. rows' = [rows EXCEPT ![r] = [Flush(rows[r], t.old, Final(t))
                                       EXCEPT !.completed = TRUE]]
    BY <1>1 DEF FinishCommit
  <1>3. /\ rows'[r] = [Flush(rows[r], t.old, Final(t)) EXCEPT !.completed = TRUE]
        /\ \A q \in RunIds \ {r} : rows'[q] = rows[q]
    BY <1>2 DEF IdentityInv, TypeOK
  <1>4. /\ Final(t).status \in Terminal
        /\ Final(t).result \in {rows[r].crd, NULL}
    BY <1>1 DEF Final, Terminal
  <1>5. rows[r] \in Row
    BY DEF IdentityInv, TypeOK
  <1>. DEFINE new == Final(t)
  <1>6. /\ rows'[r].trace = rows[r].trace /\ rows'[r].crd = rows[r].crd
        /\ rows'[r].status = Dirty(rows[r].status, t.old.status, new.status)
        /\ rows'[r].result = Dirty(rows[r].result, t.old.result, new.result)
    <2>. HIDE DEF new
    <2>. QED
      BY <1>3, <1>5 DEF Flush, Row, new
  <1>7. /\ rows'[r].status \in Held \cup Terminal
        /\ rows'[r].result \in {rows[r].result, rows[r].crd, NULL}
    BY <1>1, <1>4, <1>6 DEF Dirty
  <1>8. /\ task'[r].pc = "done"
        /\ \A q \in RunIds \ {r} : task'[q] = task[q]
    BY DEF FinishCommit, EndTask, DoneTask, NoTask, IdentityInv, TypeOK
  <1>. QED
    BY <1>1, <1>3, <1>6, <1>7, <1>8 DEF FinishCommit

LEMMA FinishCommitIdentity ==
  ASSUME IdentityInv, TypeOK', NEW r \in RunIds, FinishCommit(r)
  PROVE  IdentityInv'
  <1>1. /\ rows[r].status \in Held /\ rows'[r].status \in Held \cup Terminal
        /\ rows'[r].trace = rows[r].trace /\ rows'[r].crd = rows[r].crd
        /\ rows'[r].result \in {rows[r].result, rows[r].crd, NULL}
        /\ \A q \in RunIds \ {r} : rows'[q] = rows[q] /\ task'[q] = task[q]
        /\ task'[r].pc = "done" /\ task[r].pc = "finishing"
        /\ UNCHANGED <<request, reaper>>
    BY FinishCommitRow DEF FinishCommit
  <1>2. rows'[r].status \in {"running", "complete", "failed"}
    BY <1>1 DEF Held, Terminal
  <1>3. Live(r)
    BY <1>1 DEF Live, Held, RowStatuses
  <1>4. UniqueTraces'
    BY <1>1, <1>2, <1>3 DEF IdentityInv, UniqueTraces, Live
  <1>5. ASSUME NEW q \in RunIds PROVE PendingIsQueued(q)' /\ OwnRow(q)'
    BY <1>1, <1>2 DEF IdentityInv, PendingIsQueued, OwnRow, Held
  <1>6. (\A q \in DOMAIN reaper : rows[q].status \notin {"absent", "queued"})'
    BY <1>1, <1>2 DEF IdentityInv, TypeOK
  <1>7. ResultMatchesRow'
    BY <1>1, <1>3 DEF IdentityInv, ResultMatchesRow, Live
  <1>. QED
    BY <1>4, <1>5, <1>6, <1>7 DEF IdentityInv

\* A sweep only writes rows that are neither absent nor queued, and what it
\* writes is a status of Held unless the run of the row is over.
LEMMA ReapIdentity ==
  ASSUME IdentityInv, TypeOK', Reap,
         Timely => ReaperSparesLiveRuns
  PROVE  IdentityInv'
  <1>1. CASE ReapRead
    <2>1. /\ UNCHANGED <<rows, request, task>>
          /\ \A r \in DOMAIN reaper' : r \in RunIds /\ rows[r].status = "running"
      BY <1>1 DEF ReapRead, Stuck
    <2>2. ASSUME NEW q \in RunIds PROVE PendingIsQueued(q)' /\ OwnRow(q)'
      BY <2>1 DEF IdentityInv, PendingIsQueued, OwnRow, Held
    <2>. QED
      BY <2>1, <2>2 DEF IdentityInv, UniqueTraces, Live, ResultMatchesRow
  <1>2. CASE ReapFail
    <2>1. UNCHANGED <<rows, request, task>> /\ DOMAIN reaper' = {}
      BY <1>2 DEF ReapFail
    <2>2. ASSUME NEW q \in RunIds PROVE PendingIsQueued(q)' /\ OwnRow(q)'
      BY <2>1 DEF IdentityInv, PendingIsQueued, OwnRow, Held
    <2>. QED
      BY <2>1, <2>2 DEF IdentityInv, UniqueTraces, Live, ResultMatchesRow
  <1>3. CASE ReapCommit
    <2>1. UNCHANGED <<request, task>> /\ DOMAIN reaper' = {}
      BY <1>3 DEF ReapCommit
    <2>2. ASSUME NEW q \in RunIds
          PROVE  \/ rows'[q] = rows[q]
                 \/ /\ q \in DOMAIN reaper /\ Live(q)
                    /\ rows'[q].status = "failed" /\ rows'[q].trace = rows[q].trace
                    /\ rows'[q].crd = rows[q].crd /\ rows'[q].result = rows[q].result
      <3>1. rows[q] \in Row
        BY DEF IdentityInv, TypeOK
      <3>. QED
        BY <1>3, <3>1 DEF ReapCommit, Row
    <2>3. \A q \in RunIds : Live(q)' <=> Live(q)
      BY <2>2 DEF Live, RowStatuses
    <2>4. UniqueTraces'
      BY <2>2, <2>3 DEF IdentityInv, UniqueTraces
    <2>5. ASSUME NEW q \in RunIds PROVE PendingIsQueued(q)' /\ OwnRow(q)'
      <3>1. CASE rows'[q] = rows[q]
        BY <2>1, <3>1 DEF IdentityInv, PendingIsQueued, OwnRow, Held
      <3>2. CASE q \in DOMAIN reaper /\ rows'[q].status = "failed"
                 /\ rows'[q].crd = rows[q].crd
        <4>1. rows[q].status \notin {"absent", "queued"}
          BY <3>2 DEF IdentityInv
        <4>2. Timely => task[q].pc \notin Alive
          BY <3>2 DEF ReaperSparesLiveRuns
        <4>. QED
          BY <2>1, <3>2, <4>1, <4>2
             DEF IdentityInv, PendingIsQueued, OwnRow, Held, Alive, Busy
      <3>. QED
        BY <2>2, <3>1, <3>2
    <2>6. ResultMatchesRow'
      BY <2>2, <2>3 DEF IdentityInv, ResultMatchesRow
    <2>. QED
      BY <2>1, <2>4, <2>5, <2>6 DEF IdentityInv
  <1>. QED
    BY <1>1, <1>2, <1>3 DEF Reap

LEMMA DeleteIdentity ==
  ASSUME SafeDeletion, IdentityInv, TypeOK', NEW r \in RunIds, OperatorDelete(r)
  PROVE  IdentityInv'
  <1>1. /\ rows[r].status \in Terminal \ (Held \cap {"failed"})
        /\ UNCHANGED <<request, task, reaper>>
    BY TimelyAssumption DEF OperatorDelete, SafeDeletion, Held, Terminal
  <1>2. /\ rows'[r].status = "deleted"
        /\ \A q \in RunIds \ {r} : rows'[q] = rows[q]
    BY DEF OperatorDelete, NoRow, IdentityInv, TypeOK
  <1>3. UniqueTraces'
    BY <1>1, <1>2 DEF IdentityInv, UniqueTraces, Live, RowStatuses
  <1>4. ASSUME NEW q \in RunIds PROVE PendingIsQueued(q)' /\ OwnRow(q)'
    <2>1. rows[r].status \notin Held \cup {"queued", "absent"}
      BY <1>1 DEF Held, Terminal
    <2>. QED
      BY <1>1, <1>2, <2>1 DEF IdentityInv, PendingIsQueued, OwnRow, Held
  <1>5. (\A q \in DOMAIN reaper : rows[q].status \notin {"absent", "queued"})'
    BY <1>1, <1>2 DEF IdentityInv, TypeOK
  <1>6. ResultMatchesRow'
    BY <1>2 DEF IdentityInv, ResultMatchesRow, Live, RowStatuses
  <1>. QED
    BY <1>3, <1>4, <1>5, <1>6 DEF IdentityInv

LEMMA CrashIdentity ==
  ASSUME IdentityInv, TypeOK', Crash
  PROVE  IdentityInv'
  <1>1. ASSUME NEW q \in RunIds
        PROVE  /\ task'[q].pc # "none" <=> task[q].pc # "none"
               /\ task'[q] = task[q] \/ task'[q].pc = "done"
               /\ request'[q].reply # "pending"
    BY DEF Crash, DoneTask, NoTask, Alive, Busy, IdentityInv, TypeOK, Request
  <1>2. UNCHANGED <<rows, reaper>>
    BY DEF Crash
  <1>3. ASSUME NEW q \in RunIds PROVE PendingIsQueued(q)' /\ OwnRow(q)'
    BY <1>1, <1>2 DEF IdentityInv, PendingIsQueued, OwnRow, Held
  <1>. QED
    BY <1>2, <1>3 DEF IdentityInv, UniqueTraces, Live, ResultMatchesRow

\* The clock changes ages and clocks only.
LEMMA TickFrame ==
  ASSUME TypeOK, Tick, NEW r \in RunIds
  PROVE  /\ rows'[r] = [rows[r] EXCEPT !.age = Older(rows[r].age)]
         /\ task'[r] = [task[r] EXCEPT !.clock = Older(task[r].clock)]
         /\ rows'[r].status = rows[r].status /\ rows'[r].trace = rows[r].trace
         /\ rows'[r].crd = rows[r].crd /\ rows'[r].result = rows[r].result
         /\ rows'[r].error = rows[r].error /\ rows'[r].completed = rows[r].completed
         /\ rows'[r].age = Older(rows[r].age)
         /\ task'[r].pc = task[r].pc /\ task'[r].row = task[r].row
         /\ task'[r].old = task[r].old /\ task'[r].crd = task[r].crd
         /\ task'[r].clock = Older(task[r].clock)
         /\ UNCHANGED <<request, reaper>>
  <1>1. rows[r] \in Row /\ task[r] \in Task
    BY DEF TypeOK
  <1>2. /\ rows'[r] = [rows[r] EXCEPT !.age = Older(rows[r].age)]
        /\ task'[r] = [task[r] EXCEPT !.clock = Older(task[r].clock)]
        /\ UNCHANGED <<request, reaper>>
    BY DEF Tick
  <1>. QED
    BY <1>1, <1>2 DEF Row, Task, TaskFields

LEMMA TickIdentity ==
  ASSUME IdentityInv, TypeOK', Tick
  PROVE  IdentityInv'
  <1>1. ASSUME NEW r \in RunIds
        PROVE  /\ rows'[r].status = rows[r].status /\ rows'[r].trace = rows[r].trace
               /\ rows'[r].crd = rows[r].crd /\ rows'[r].result = rows[r].result
               /\ task'[r].pc = task[r].pc /\ task'[r].row = task[r].row
               /\ task'[r].old = task[r].old /\ task'[r].crd = task[r].crd
    BY TickFrame DEF IdentityInv
  <1>2. UNCHANGED <<request, reaper>>
    BY DEF Tick
  <1>3. ASSUME NEW q \in RunIds PROVE PendingIsQueued(q)' /\ OwnRow(q)'
    BY <1>1, <1>2 DEF IdentityInv, PendingIsQueued, OwnRow, Held
  <1>4. UniqueTraces' /\ ResultMatchesRow'
    BY <1>1 DEF IdentityInv, UniqueTraces, ResultMatchesRow, Live
  <1>5. (\A q \in DOMAIN reaper : rows[q].status \notin {"absent", "queued"})'
    BY <1>1, <1>2 DEF IdentityInv, TypeOK
  <1>. QED
    BY <1>3, <1>4, <1>5 DEF IdentityInv

LEMMA InitIdentity == Init => IdentityInv
  <1>. SUFFICES ASSUME Init PROVE IdentityInv
    OBVIOUS
  <1>1. \A r \in RunIds : /\ rows[r] = NoRow /\ task[r].pc = "none"
                          /\ request[r].reply = "none"
    BY DEF Init, NoTask
  <1>2. DOMAIN reaper = {}
    BY DEF Init
  <1>. QED
    BY <1>1, <1>2, InitType DEF IdentityInv, UniqueTraces, Live, RowStatuses, NoRow,
       PendingIsQueued, OwnRow, ResultMatchesRow

LEMMA IdentityStep ==
  ASSUME SafeDeletion, Timely => ReaperSparesLiveRuns
  PROVE  IdentityInv /\ [Next]_vars => IdentityInv'
  <1>. SUFFICES ASSUME IdentityInv, [Next]_vars PROVE IdentityInv'
    OBVIOUS
  <1>1. TypeOK'
    BY TypeStep DEF IdentityInv
  <1>2. CASE UNCHANGED vars
    <2>1. ASSUME NEW q \in RunIds PROVE PendingIsQueued(q)' /\ OwnRow(q)'
      BY <1>2 DEF vars, IdentityInv, PendingIsQueued, OwnRow, Held
    <2>. QED
      BY <1>1, <1>2, <2>1 DEF vars, IdentityInv, UniqueTraces, Live, ResultMatchesRow
  <1>3. CASE \E r \in RunIds, e \in Endpoints, t \in Traces, c \in Crds :
                Submit(r, e, t, c)
    BY <1>1, <1>3, SubmitIdentity
  <1>4. CASE \E r \in RunIds : Schedule(r) \/ ScheduleOffLoop(r)
    BY <1>1, <1>4, ScheduleIdentity
  <1>5. ASSUME NEW r \in RunIds, RunnerStep(r) PROVE IdentityInv'
    <2>1. CASE StartRead(r)
      BY <1>1, <2>1, StartReadIdentity
    <2>2. CASE StartCommit(r)
      BY <1>1, <2>2, StartCommitIdentity
    <2>3. CASE StartFails(r) \/ FinishFails(r)
      BY <1>1, <2>3, EndTaskIdentity DEF StartFails, FinishFails, Alive, Busy
    <2>4. CASE FinishRead(r)
      BY <1>1, <2>4, FinishReadIdentity
    <2>5. CASE FinishCommit(r)
      BY <1>1, <2>5, FinishCommitIdentity
    <2>. QED
      BY <1>5, <2>1, <2>2, <2>3, <2>4, <2>5 DEF RunnerStep
  <1>6. CASE Reap
    BY <1>1, <1>6, ReapIdentity
  <1>7. CASE \E r \in RunIds : OperatorDelete(r)
    BY <1>1, <1>7, DeleteIdentity
  <1>8. CASE Crash
    BY <1>1, <1>8, CrashIdentity
  <1>9. CASE Tick
    BY <1>1, <1>9, TickIdentity
  <1>. QED
    BY <1>2, <1>3, <1>4, <1>5, <1>6, <1>7, <1>8, <1>9 DEF Next

-----------------------------------------------------------------------------
LEMMA NullFacts ==
  /\ NULL \notin 0 .. Threshold /\ NULL \notin Errors
  /\ \A c \in Crds : c # NULL
  /\ Older(NULL) = NULL
  BY ThresholdAssumption, NullAssumption DEF Older

LEMMA TimelyImplies ==
  TimelyInv => OutcomeMatchesStatus /\ ReaperSparesLiveRuns
  BY DEF TimelyInv, TimelyRow, TimelyPick, OutcomeMatchesStatus, ReaperSparesLiveRuns

\* A row that no other action of the step touches keeps its part of TimelyInv.
LEMMA TimelyFrame ==
  ASSUME TimelyInv, NEW q \in RunIds, rows'[q] = rows[q], task'[q] = task[q]
  PROVE  TimelyRun(q)' /\ TimelyRow(q)'
  <1>1. TimelyRun(q) /\ TimelyRow(q)
    BY DEF TimelyInv
  <1>. QED
    BY <1>1 DEF TimelyRun, TimelyRow, Live, Columns

LEMMA SubmitTimely ==
  ASSUME IdentityInv, TimelyInv, NEW r \in RunIds, NEW e \in Endpoints,
         NEW t \in Traces, NEW c \in Crds, Submit(r, e, t, c)
  PROVE  TimelyInv'
  <1>1. /\ rows[r].status = "absent" /\ task[r].pc = "none"
        /\ UNCHANGED <<task, reaper>>
    BY DEF Submit, IdentityInv, PendingIsQueued
  <1>2. /\ rows'[r].status = "queued" /\ rows'[r].crd = c /\ rows'[r].age = NULL
        /\ rows'[r].result = NULL /\ rows'[r].error = NULL /\ ~rows'[r].completed
        /\ \A q \in RunIds \ {r} : rows'[q] = rows[q]
    BY DEF Submit, NoRow, IdentityInv, TypeOK
  <1>3. TimelyRun(r)' /\ TimelyRow(r)'
    BY <1>1, <1>2, NullFacts DEF TimelyRun, TimelyRow, Busy, Terminal
  <1>4. \A q \in RunIds \ {r} : TimelyRun(q)' /\ TimelyRow(q)'
    BY <1>1, <1>2, TimelyFrame
  <1>5. ASSUME NEW q \in DOMAIN reaper PROVE TimelyPick(q)'
    BY <1>1, <1>2 DEF TimelyInv, TimelyPick, IdentityInv, TypeOK
  <1>. QED
    BY <1>1, <1>3, <1>4, <1>5 DEF TimelyInv

LEMMA ScheduleTimely ==
  ASSUME IdentityInv, TimelyInv, NEW r \in RunIds, Schedule(r) \/ ScheduleOffLoop(r)
  PROVE  TimelyInv'
  <1>1. /\ UNCHANGED <<rows, reaper>>
        /\ rows[r].status = "queued"
        /\ task'[r] = task[r] \/ task'[r].pc = "scheduled"
        /\ \A q \in RunIds \ {r} : task'[q] = task[q]
    BY DEF Schedule, ScheduleOffLoop, NoTask, IdentityInv, TypeOK, PendingIsQueued
  <1>2. TimelyRun(r)' /\ TimelyRow(r)'
    BY <1>1, TimelyFrame DEF TimelyRun, TimelyRow, TimelyInv, Live, Busy
  <1>3. \A q \in RunIds \ {r} : TimelyRun(q)' /\ TimelyRow(q)'
    BY <1>1, TimelyFrame
  <1>4. ASSUME NEW q \in DOMAIN reaper PROVE TimelyPick(q)'
    BY <1>1 DEF TimelyInv, TimelyPick, IdentityInv, TypeOK
  <1>. QED
    BY <1>1, <1>2, <1>3, <1>4 DEF TimelyInv

LEMMA StartReadTimely ==
  ASSUME IdentityInv, TimelyInv, NEW r \in RunIds, StartRead(r)
  PROVE  TimelyInv'
  <1>1. RowsWith(rows[r].trace) = {r}
    BY OwnFetch DEF StartRead, Alive
  <1>2. UNCHANGED <<rows, reaper>> /\ task[r].pc = "scheduled" /\ rows[r].status = "queued"
    BY DEF StartRead, IdentityInv, OwnRow
  <1>3. task' = [task EXCEPT ![r].pc = "starting", ![r].row = r,
                             ![r].old = Columns(rows[r]), ![r].clock = 0]
    BY <1>1 DEF StartRead
  <1>4. /\ task'[r].pc = "starting" /\ task'[r].old = Columns(rows[r])
        /\ task'[r].clock = 0
        /\ \A q \in RunIds \ {r} : task'[q] = task[q]
    <2>1. task \in [RunIds -> Task]
      BY DEF IdentityInv, TypeOK
    <2>. QED
      BY <1>3, <2>1 DEF Task, TaskFields
  <1>5. TimelyRun(r)' /\ TimelyRow(r)'
    BY <1>2, <1>4, ThresholdAssumption DEF TimelyRun, TimelyRow, TimelyInv, Live, Columns
  <1>6. \A q \in RunIds \ {r} : TimelyRun(q)' /\ TimelyRow(q)'
    BY <1>2, <1>4, TimelyFrame
  <1>7. ASSUME NEW q \in DOMAIN reaper PROVE TimelyPick(q)'
    BY <1>2, <1>4 DEF TimelyInv, TimelyPick, IdentityInv, TypeOK
  <1>. QED
    BY <1>2, <1>5, <1>6, <1>7 DEF TimelyInv

LEMMA StartCommitTimely ==
  ASSUME IdentityInv, TimelyInv, NEW r \in RunIds, StartCommit(r)
  PROVE  TimelyInv'
  <1>1. /\ task[r].pc = "starting" /\ task[r].row = r /\ rows[r].status = "queued"
        /\ task[r].old.status = "queued" /\ task[r].clock \in 0 .. Threshold
        /\ UNCHANGED reaper
    BY DEF StartCommit, IdentityInv, OwnRow, TimelyInv, TimelyRun, Busy
  <1>2. rows' = [rows EXCEPT ![r].status = "running", ![r].age = task[r].clock]
    BY <1>1 DEF StartCommit, Dirty
  <1>3. /\ rows'[r].status = "running" /\ rows'[r].age = task[r].clock
        /\ rows'[r].crd = rows[r].crd /\ rows'[r].result = rows[r].result
        /\ rows'[r].error = rows[r].error /\ rows'[r].completed = rows[r].completed
        /\ \A q \in RunIds \ {r} : rows'[q] = rows[q]
    <2>1. rows \in [RunIds -> Row]
      BY DEF IdentityInv, TypeOK
    <2>. QED
      BY <1>2, <2>1 DEF Row
  <1>4. /\ \/ task'[r].pc = "running" /\ task'[r].clock = task[r].clock
           \/ task'[r].pc = "done"
        /\ \A q \in RunIds \ {r} : task'[q] = task[q]
    <2>1. task \in [RunIds -> Task]
      BY DEF IdentityInv, TypeOK
    <2>2. CASE EndTask(r)
      BY <2>1, <2>2 DEF EndTask, DoneTask, NoTask
    <2>3. CASE task' = [task EXCEPT ![r].pc = "running", ![r].row = NULL,
                          ![r].old = NULL, ![r].crd = rows[r].crd]
      BY <2>1, <2>3 DEF Task, TaskFields
    <2>. QED
      BY <1>1, <2>2, <2>3 DEF StartCommit
  <1>5. TimelyRun(r)' /\ TimelyRow(r)'
    BY <1>1, <1>3, <1>4, NullFacts
       DEF TimelyRun, TimelyRow, TimelyInv, Live, RowStatuses, Terminal, Busy
  <1>6. \A q \in RunIds \ {r} : TimelyRun(q)' /\ TimelyRow(q)'
    BY <1>3, <1>4, TimelyFrame
  <1>7. ASSUME NEW q \in DOMAIN reaper PROVE TimelyPick(q)'
    BY <1>1, <1>3, <1>4 DEF TimelyInv, TimelyPick, IdentityInv, TypeOK
  <1>. QED
    BY <1>1, <1>5, <1>6, <1>7 DEF TimelyInv

LEMMA EndTaskTimely ==
  ASSUME IdentityInv, TimelyInv, NEW r \in RunIds, EndTask(r),
         UNCHANGED <<rows, reaper>>
  PROVE  TimelyInv'
  <1>1. /\ task'[r].pc = "done"
        /\ \A q \in RunIds \ {r} : task'[q] = task[q]
    BY DEF EndTask, DoneTask, NoTask, IdentityInv, TypeOK
  <1>2. TimelyRun(r)' /\ TimelyRow(r)'
    BY <1>1 DEF TimelyRun, TimelyRow, TimelyInv, Live, Busy
  <1>3. \A q \in RunIds \ {r} : TimelyRun(q)' /\ TimelyRow(q)'
    BY <1>1, TimelyFrame
  <1>4. ASSUME NEW q \in DOMAIN reaper PROVE TimelyPick(q)'
    BY <1>1 DEF TimelyInv, TimelyPick, IdentityInv, TypeOK, Alive, Busy
  <1>. QED
    BY <1>2, <1>3, <1>4 DEF TimelyInv

LEMMA FinishReadTimely ==
  ASSUME IdentityInv, TimelyInv, NEW r \in RunIds, FinishRead(r)
  PROVE  TimelyInv'
  <1>1. RowsWith(rows[r].trace) = {r}
    BY OwnFetch DEF FinishRead, Alive, Busy
  <1>2. PICK o \in {"ok", "raised"} :
          task' = [task EXCEPT ![r].pc = "finishing", ![r].row = r,
                     ![r].old = Columns(rows[r]), ![r].outcome = o]
    BY <1>1 DEF FinishRead
  <1>3. UNCHANGED <<rows, reaper>> /\ task[r].pc = "running"
    BY DEF FinishRead
  <1>4. /\ task'[r].pc = "finishing" /\ task'[r].old = Columns(rows[r])
        /\ task'[r].clock = task[r].clock
        /\ \A q \in RunIds \ {r} : task'[q] = task[q]
    <2>1. task \in [RunIds -> Task]
      BY DEF IdentityInv, TypeOK
    <2>. QED
      BY <1>2, <2>1 DEF Task, TaskFields
  <1>5. TimelyRun(r)' /\ TimelyRow(r)'
    BY <1>3, <1>4 DEF TimelyRun, TimelyRow, TimelyInv, Live, Columns, Busy
  <1>6. \A q \in RunIds \ {r} : TimelyRun(q)' /\ TimelyRow(q)'
    BY <1>3, <1>4, TimelyFrame
  <1>7. ASSUME NEW q \in DOMAIN reaper PROVE TimelyPick(q)'
    BY <1>3, <1>4 DEF TimelyInv, TimelyPick, IdentityInv, TypeOK, Alive, Busy
  <1>. QED
    BY <1>3, <1>5, <1>6, <1>7 DEF TimelyInv

\* With the columns it loaded still in the table, a timely run writes all of
\* its outcome.
LEMMA FinishCommitWrites ==
  ASSUME IdentityInv, TimelyInv, Timely, NEW r \in RunIds, FinishCommit(r)
  PROVE  /\ rows[r].status = "running"
         /\ rows'[r].age = rows[r].age /\ rows'[r].crd = rows[r].crd
         /\ rows'[r].completed
         /\ \/ /\ rows'[r].status = "complete" /\ rows'[r].error = NULL
               /\ rows'[r].result = rows[r].crd
            \/ /\ rows'[r].status = "failed" /\ rows'[r].error = "raised"
               /\ rows'[r].result = NULL
  <1>. DEFINE t == task[r]
              old == Columns(rows[r])
              new == Final(t)
  <1>1. /\ t.pc = "finishing" /\ t.row = r /\ rows[r].status = "running"
        /\ t.crd = rows[r].crd /\ t.old = old
    BY DEF FinishCommit, IdentityInv, OwnRow, Held, TimelyInv, TimelyRun
  <1>2. /\ rows[r].result = NULL /\ rows[r].error = NULL /\ rows[r].crd # NULL
        /\ rows[r] \in Row
    BY <1>1 DEF TimelyInv, TimelyRow, Live, RowStatuses, IdentityInv, TypeOK
  <1>3. old.status = "running" /\ old.result = NULL /\ old.error = NULL
    BY <1>1, <1>2 DEF Columns
  <1>4. rows'[r] = [Flush(rows[r], old, new) EXCEPT !.completed = TRUE]
    BY <1>1 DEF FinishCommit, IdentityInv, TypeOK
  <1>5. \/ new.status = "complete" /\ new.result = rows[r].crd /\ new.error = NULL
        \/ new.status = "failed" /\ new.result = NULL /\ new.error = "raised"
    BY <1>1 DEF Final
  <1>. HIDE DEF old, new
  <1>6. /\ rows'[r].status = Dirty(rows[r].status, old.status, new.status)
        /\ rows'[r].result = Dirty(rows[r].result, old.result, new.result)
        /\ rows'[r].error = Dirty(rows[r].error, old.error, new.error)
        /\ rows'[r].age = rows[r].age /\ rows'[r].crd = rows[r].crd
        /\ rows'[r].completed
    BY <1>2, <1>4 DEF Flush, Row
  <1>7. NULL # "raised"
    BY NullFacts DEF Errors
  <1>. QED
    BY <1>1, <1>2, <1>3, <1>5, <1>6, <1>7 DEF Dirty

LEMMA FinishCommitTimely ==
  ASSUME IdentityInv, TimelyInv, Timely, NEW r \in RunIds, FinishCommit(r)
  PROVE  TimelyInv'
  <1>1. /\ task[r].pc = "finishing" /\ task'[r].pc = "done" /\ UNCHANGED reaper
        /\ \A q \in RunIds \ {r} : rows'[q] = rows[q] /\ task'[q] = task[q]
    BY FinishCommitRow DEF FinishCommit
  <1>2. TimelyRun(r)'
    BY <1>1 DEF TimelyRun, Busy
  <1>3. TimelyRow(r)'
    <2>1. TimelyRow(r) /\ Live(r)
      BY FinishCommitWrites DEF TimelyInv, Live, RowStatuses
    <2>. QED
      BY <2>1, FinishCommitWrites, NullFacts DEF TimelyRow, Terminal, Errors
  <1>4. \A q \in RunIds \ {r} : TimelyRun(q)' /\ TimelyRow(q)'
    BY <1>1, TimelyFrame
  <1>5. ASSUME NEW q \in DOMAIN reaper PROVE TimelyPick(q)'
    <2>1. TimelyPick(q) /\ q \in RunIds
      BY DEF TimelyInv, IdentityInv, TypeOK
    <2>2. q # r
      BY <1>1, <2>1 DEF TimelyPick, Alive, Busy
    <2>. QED
      BY <1>1, <2>1, <2>2 DEF TimelyPick
  <1>. QED
    BY <1>1, <1>2, <1>3, <1>4, <1>5 DEF TimelyInv

\* A row past the threshold has no live run, because a live run's row is as
\* old as the run.
LEMMA StuckIsDead ==
  ASSUME IdentityInv, TimelyInv, Timely, NEW r \in RunIds, Stuck(rows[r])
  PROVE  task[r].pc \notin Alive /\ rows[r].error = NULL
  <1>1. rows[r].status = "running" /\ rows[r].age > Threshold
    BY DEF Stuck
  <1>2. task[r].pc \notin {"scheduled", "starting"}
    BY <1>1 DEF IdentityInv, OwnRow
  <1>3. task[r].pc \notin {"running", "finishing"}
    BY <1>1, ThresholdAssumption DEF TimelyInv, TimelyRun, Busy
  <1>4. rows[r].error = NULL
    BY <1>1 DEF TimelyInv, TimelyRow, Live, RowStatuses
  <1>. QED
    BY <1>2, <1>3, <1>4 DEF Alive, Busy

\* What a sweep does to each row of a timely system.
LEMMA ReapCommitRow ==
  ASSUME IdentityInv, TimelyInv, ReapCommit, NEW q \in RunIds
  PROVE  \/ q \notin DOMAIN reaper /\ rows'[q] = rows[q]
         \/ /\ q \in DOMAIN reaper /\ rows[q].status = "running"
            /\ rows'[q].status = "failed" /\ rows'[q].error = "reaped"
            /\ rows'[q].completed /\ rows'[q].result = rows[q].result
            /\ rows'[q].age = rows[q].age /\ rows'[q].crd = rows[q].crd
  <1>1. rows[q] \in Row
    BY DEF IdentityInv, TypeOK
  <1>2. CASE q \notin DOMAIN reaper
    BY <1>2 DEF ReapCommit
  <1>3. CASE q \in DOMAIN reaper
    <2>1. /\ rows[q].status = "running" /\ reaper[q] = NULL /\ Live(q)
      BY <1>3 DEF TimelyInv, TimelyPick, Live, RowStatuses
    <2>2. rows'[q] = [rows[q] EXCEPT !.status = "failed",
                                    !.error = Dirty(@, reaper[q], "reaped"),
                                    !.completed = TRUE]
      BY <1>3, <2>1 DEF ReapCommit
    <2>3. "reaped" # NULL
      BY NullFacts DEF Errors
    <2>4. rows'[q] = [rows[q] EXCEPT !.status = "failed", !.error = "reaped",
                                    !.completed = TRUE]
      BY <2>1, <2>2, <2>3 DEF Dirty
    <2>. QED
      BY <1>1, <1>3, <2>1, <2>4 DEF Row
  <1>. QED
    BY <1>2, <1>3

LEMMA ReapTimely ==
  ASSUME IdentityInv, TimelyInv, Timely, Reap
  PROVE  TimelyInv'
  <1>1. CASE ReapRead
    <2>1. /\ UNCHANGED <<rows, task>>
          /\ reaper' = [r \in {r \in RunIds : Stuck(rows[r])} |-> rows[r].error]
      BY <1>1 DEF ReapRead
    <2>2. \A q \in RunIds : TimelyRun(q)' /\ TimelyRow(q)'
      BY <2>1, TimelyFrame
    <2>3. ASSUME NEW q \in DOMAIN reaper' PROVE TimelyPick(q)'
      <3>1. q \in RunIds /\ Stuck(rows[q]) /\ reaper'[q] = rows[q].error
        BY <2>1
      <3>2. task[q].pc \notin Alive /\ rows[q].error = NULL
        BY <3>1, StuckIsDead
      <3>. QED
        BY <2>1, <3>1, <3>2 DEF TimelyPick, Stuck
    <2>. QED
      BY <2>2, <2>3 DEF TimelyInv
  <1>2. CASE ReapFail
    <2>1. UNCHANGED <<rows, task>> /\ DOMAIN reaper' = {}
      BY <1>2 DEF ReapFail
    <2>. QED
      BY <2>1, TimelyFrame DEF TimelyInv
  <1>3. CASE ReapCommit
    <2>1. UNCHANGED task /\ DOMAIN reaper' = {}
      BY <1>3 DEF ReapCommit
    <2>2. ASSUME NEW q \in RunIds PROVE TimelyRun(q)' /\ TimelyRow(q)'
      <3>1. CASE rows'[q] = rows[q]
        BY <2>1, <3>1, TimelyFrame
      <3>2. CASE q \in DOMAIN reaper
        <4>1. TimelyPick(q) /\ TimelyRow(q) /\ Live(q)
          BY <3>2 DEF TimelyInv, TimelyPick, Live, RowStatuses
        <4>2. /\ rows[q].status = "running"
              /\ rows'[q].status = "failed" /\ rows'[q].error = "reaped"
              /\ rows'[q].completed /\ rows'[q].result = rows[q].result
              /\ rows'[q].age = rows[q].age /\ rows'[q].crd = rows[q].crd
          BY <1>3, <3>2, ReapCommitRow
        <4>3. TimelyRun(q)'
          BY <2>1, <4>1 DEF TimelyPick, TimelyRun, Alive, Busy
        <4>4. TimelyRow(q)'
          BY <4>1, <4>2, NullFacts DEF TimelyRow, Terminal, Errors
        <4>. QED
          BY <4>3, <4>4
      <3>. QED
        BY <1>3, <3>1, <3>2, ReapCommitRow
    <2>. QED
      BY <2>1, <2>2 DEF TimelyInv
  <1>. QED
    BY <1>1, <1>2, <1>3 DEF Reap

LEMMA DeleteTimely ==
  ASSUME SafeDeletion, IdentityInv, TimelyInv, Timely, NEW r \in RunIds,
         OperatorDelete(r)
  PROVE  TimelyInv'
  <1>1. rows[r].status \in Terminal /\ UNCHANGED <<task, reaper>>
    BY DEF OperatorDelete, SafeDeletion
  <1>2. /\ rows'[r].status = "deleted"
        /\ \A q \in RunIds \ {r} : rows'[q] = rows[q]
    BY DEF OperatorDelete, NoRow, IdentityInv, TypeOK
  <1>3. task[r].pc \notin Alive
    BY <1>1 DEF IdentityInv, OwnRow, Held, Terminal, Alive, Busy
  <1>4. TimelyRun(r)' /\ TimelyRow(r)'
    BY <1>1, <1>2, <1>3 DEF TimelyRun, TimelyRow, Live, RowStatuses, Alive, Busy
  <1>5. \A q \in RunIds \ {r} : TimelyRun(q)' /\ TimelyRow(q)'
    BY <1>1, <1>2, TimelyFrame
  <1>6. ASSUME NEW q \in DOMAIN reaper PROVE TimelyPick(q)'
    BY <1>1, <1>2 DEF TimelyInv, TimelyPick, IdentityInv, TypeOK, Terminal
  <1>. QED
    BY <1>1, <1>4, <1>5, <1>6 DEF TimelyInv

LEMMA CrashTimely ==
  ASSUME IdentityInv, TimelyInv, Crash
  PROVE  TimelyInv'
  <1>1. UNCHANGED <<rows, reaper>>
    BY DEF Crash
  <1>2. \A q \in RunIds : task'[q] = task[q] \/ task'[q].pc = "done"
    BY DEF Crash, DoneTask, NoTask
  <1>3. ASSUME NEW q \in RunIds PROVE TimelyRun(q)' /\ TimelyRow(q)'
    BY <1>1, <1>2, TimelyFrame DEF TimelyRun, TimelyRow, TimelyInv, Live, Busy
  <1>4. ASSUME NEW q \in DOMAIN reaper PROVE TimelyPick(q)'
    BY <1>1, <1>2 DEF TimelyInv, TimelyPick, IdentityInv, TypeOK, Alive, Busy
  <1>. QED
    BY <1>1, <1>3, <1>4 DEF TimelyInv

LEMMA TickTimely ==
  ASSUME IdentityInv, TimelyInv, Timely, Tick
  PROVE  TimelyInv'
  <1>1. \A r \in RunIds : task[r].pc \in Busy => task[r].clock < Threshold
    BY DEF Tick
  <1>2. ASSUME NEW r \in RunIds PROVE TimelyRun(r)'
    <2>1. /\ task'[r].pc = task[r].pc /\ task'[r].old = task[r].old
          /\ task'[r].clock = Older(task[r].clock) /\ rows'[r].age = Older(rows[r].age)
          /\ Columns(rows[r])' = Columns(rows[r])
      BY TickFrame DEF IdentityInv, Columns
    <2>2. task[r].pc \in Busy => Older(task[r].clock) \in 0 .. Threshold
      BY <1>1, ThresholdAssumption DEF TimelyInv, TimelyRun, Older
    <2>. QED
      BY <2>1, <2>2 DEF TimelyInv, TimelyRun
  <1>3. ASSUME NEW r \in RunIds PROVE TimelyRow(r)'
    <2>1. /\ rows'[r].status = rows[r].status /\ rows'[r].crd = rows[r].crd
          /\ rows'[r].result = rows[r].result /\ rows'[r].error = rows[r].error
          /\ rows'[r].completed = rows[r].completed /\ rows'[r].age = Older(rows[r].age)
      BY TickFrame DEF IdentityInv
    <2>2. rows[r].age \in Ages \cup {NULL}
      BY DEF IdentityInv, TypeOK, Row
    <2>3. Older(rows[r].age) = NULL <=> rows[r].age = NULL
      BY <2>2, ThresholdAssumption, NullAssumption DEF Older, Ages
    <2>. QED
      BY <2>1, <2>3 DEF TimelyInv, TimelyRow, Live
  <1>4. ASSUME NEW q \in DOMAIN reaper PROVE TimelyPick(q)'
    BY TickFrame DEF TimelyInv, TimelyPick, IdentityInv, TypeOK, Tick
  <1>. QED
    BY <1>2, <1>3, <1>4 DEF TimelyInv, Tick

LEMMA InitTimely == Init => TimelyInv
  <1>. SUFFICES ASSUME Init PROVE TimelyInv
    OBVIOUS
  <1>1. \A r \in RunIds : rows[r] = NoRow /\ task[r].pc = "none"
    BY DEF Init, NoTask
  <1>2. DOMAIN reaper = {}
    BY DEF Init
  <1>. QED
    BY <1>1, <1>2 DEF TimelyInv, TimelyRun, TimelyRow, Live, RowStatuses, NoRow, Busy

LEMMA TimelyStep ==
  ASSUME SafeDeletion, Timely
  PROVE  IdentityInv /\ TimelyInv /\ [Next]_vars => TimelyInv'
  <1>. SUFFICES ASSUME IdentityInv, TimelyInv, [Next]_vars PROVE TimelyInv'
    OBVIOUS
  <1>1. CASE UNCHANGED vars
    BY <1>1, TimelyFrame DEF vars, TimelyInv, TimelyPick
  <1>2. CASE \E r \in RunIds, e \in Endpoints, t \in Traces, c \in Crds :
                Submit(r, e, t, c)
    BY <1>2, SubmitTimely
  <1>3. CASE \E r \in RunIds : Schedule(r) \/ ScheduleOffLoop(r)
    BY <1>3, ScheduleTimely
  <1>4. ASSUME NEW r \in RunIds, RunnerStep(r) PROVE TimelyInv'
    <2>1. CASE StartRead(r)
      BY <2>1, StartReadTimely
    <2>2. CASE StartCommit(r)
      BY <2>2, StartCommitTimely
    <2>3. CASE StartFails(r) \/ FinishFails(r)
      BY <2>3, EndTaskTimely DEF StartFails, FinishFails
    <2>4. CASE FinishRead(r)
      BY <2>4, FinishReadTimely
    <2>5. CASE FinishCommit(r)
      BY <2>5, FinishCommitTimely
    <2>. QED
      BY <1>4, <2>1, <2>2, <2>3, <2>4, <2>5 DEF RunnerStep
  <1>5. CASE Reap
    BY <1>5, ReapTimely
  <1>6. CASE \E r \in RunIds : OperatorDelete(r)
    BY <1>6, DeleteTimely
  <1>7. CASE Crash
    BY <1>7, CrashTimely
  <1>8. CASE Tick
    BY <1>8, TickTimely
  <1>. QED
    BY <1>1, <1>2, <1>3, <1>4, <1>5, <1>6, <1>7, <1>8 DEF Next

\* The inductive invariant.
IInv == IdentityInv /\ (Timely => TimelyInv)

LEMMA InitIInv == Init => IInv
  BY InitIdentity, InitTimely DEF IInv

LEMMA StepIInv ==
  ASSUME SafeDeletion
  PROVE  IInv /\ [Next]_vars => IInv'
  <1>. SUFFICES ASSUME IInv, [Next]_vars PROVE IInv'
    OBVIOUS
  <1>1. Timely => ReaperSparesLiveRuns
    BY TimelyImplies DEF IInv
  <1>2. IdentityInv'
    BY <1>1, IdentityStep DEF IInv
  <1>3. Timely => TimelyInv'
    BY TimelyStep DEF IInv
  <1>. QED
    BY <1>2, <1>3 DEF IInv

(***************************************************************************)
(* What a row stores is about the firm the row names, for any number of    *)
(* runs and even when runs outlive the threshold, as long as rows are      *)
(* deleted only in the statuses SafeDeletion allows.                       *)
(***************************************************************************)
THEOREM ResultIdentity ==
  ASSUME SafeDeletion
  PROVE  Spec => []ResultMatchesRow
  <1>1. IInv => ResultMatchesRow
    BY DEF IInv, IdentityInv
  <1>. QED
    BY <1>1, InitIInv, StepIInv, PTL DEF Spec

(***************************************************************************)
(* When every run ends within the threshold, the reaper never holds the    *)
(* row of a run that is still going.                                       *)
(***************************************************************************)
THEOREM ReaperSpares ==
  ASSUME SafeDeletion, Timely
  PROVE  Spec => []ReaperSparesLiveRuns
  <1>1. IInv => ReaperSparesLiveRuns
    BY TimelyImplies DEF IInv
  <1>. QED
    BY <1>1, InitIInv, StepIInv, PTL DEF Spec

(***************************************************************************)
(* When every run ends within the threshold, status, result, error and the *)
(* two timestamps of a row determine each other.                           *)
(***************************************************************************)
THEOREM OutcomeExact ==
  ASSUME SafeDeletion, Timely
  PROVE  Spec => []OutcomeMatchesStatus
  <1>1. IInv => OutcomeMatchesStatus
    BY TimelyImplies DEF IInv
  <1>. QED
    BY <1>1, InitIInv, StepIInv, PTL DEF Spec

\* Every step is a step of the lifecycle or leaves every status alone.
LEMMA LifecycleStep ==
  ASSUME SafeDeletion, Timely, IInv, [Next]_vars
  PROVE  [Lifecycle!Next]_[r \in RunIds |-> rows[r].status]
  <1>. DEFINE st == [r \in RunIds |-> rows[r].status]
  <1>frame. IdentityInv /\ TimelyInv /\ rows \in [RunIds -> Row]
    BY DEF IInv, IdentityInv, TypeOK
  <1>1. ASSUME NEW r \in RunIds, NEW s,
               rows'[r].status = s, \A q \in RunIds \ {r} : rows'[q] = rows[q]
        PROVE  st' = [st EXCEPT ![r] = s]
    BY <1>1
  <1>2. CASE UNCHANGED rows
    BY <1>2
  <1>3. ASSUME NEW r \in RunIds, NEW e \in Endpoints, NEW t \in Traces,
               NEW c \in Crds, Submit(r, e, t, c)
        PROVE  Lifecycle!Enqueue(r)
    <2>1. /\ rows[r].status = "absent" /\ rows'[r].status = "queued"
          /\ \A q \in RunIds \ {r} : rows'[q] = rows[q]
      BY <1>frame, <1>3 DEF Submit, NoRow
    <2>. QED
      BY <1>1, <2>1 DEF Lifecycle!Enqueue
  <1>4. ASSUME NEW r \in RunIds, StartCommit(r) PROVE Lifecycle!Start(r)
    <2>1. /\ task[r].row = r /\ rows[r].status = "queued"
          /\ task[r].old.status = "queued"
      BY <1>frame, <1>4 DEF StartCommit, IdentityInv, OwnRow
    <2>2. rows' = [rows EXCEPT ![r].status = "running", ![r].age = task[r].clock]
      BY <1>4, <2>1 DEF StartCommit, Dirty
    <2>3. rows'[r].status = "running" /\ \A q \in RunIds \ {r} : rows'[q] = rows[q]
      BY <1>frame, <2>2 DEF Row
    <2>. QED
      BY <1>1, <2>1, <2>3 DEF Lifecycle!Start
  <1>5. ASSUME NEW r \in RunIds, FinishCommit(r)
        PROVE  \E s \in Lifecycle!Terminal : Lifecycle!Settle(r, s)
    <2>1. /\ rows[r].status = "running" /\ rows'[r].status \in {"complete", "failed"}
          /\ \A q \in RunIds \ {r} : rows'[q] = rows[q]
      BY <1>frame, <1>5, FinishCommitRow, FinishCommitWrites
    <2>. QED
      BY <1>1, <2>1 DEF Lifecycle!Settle, Lifecycle!Terminal
  <1>6. CASE ReapCommit
    <2>1. \A q \in RunIds :
            \/ q \notin DOMAIN reaper /\ rows'[q].status = rows[q].status
            \/ /\ q \in DOMAIN reaper /\ rows[q].status = "running"
               /\ rows'[q].status = "failed"
      BY <1>frame, <1>6, ReapCommitRow
    <2>2. DOMAIN reaper \in SUBSET RunIds
      BY <1>frame DEF IdentityInv, TypeOK
    <2>3. /\ \A q \in DOMAIN reaper : st[q] = "running"
          /\ st' = [q \in RunIds |-> IF q \in DOMAIN reaper THEN "failed" ELSE st[q]]
      BY <2>1, <2>2
    <2>4. \E S \in SUBSET RunIds :
            /\ \A q \in S : st[q] = "running"
            /\ st' = [q \in RunIds |-> IF q \in S THEN "failed" ELSE st[q]]
      <3>. WITNESS DOMAIN reaper \in SUBSET RunIds
      <3>. QED
        BY <2>3
    <2>. QED
      BY <2>4 DEF Lifecycle!Next, Lifecycle!Sweep
  <1>7. ASSUME NEW r \in RunIds, OperatorDelete(r) PROVE Lifecycle!Purge(r)
    <2>1. /\ rows[r].status \in Terminal /\ rows'[r].status = "deleted"
          /\ \A q \in RunIds \ {r} : rows'[q] = rows[q]
      BY <1>frame, <1>7 DEF OperatorDelete, SafeDeletion, NoRow
    <2>. QED
      BY <1>1, <2>1 DEF Lifecycle!Purge, Lifecycle!Terminal, Terminal
  <1>8. CASE Tick
    BY <1>frame, <1>8, TickFrame DEF IdentityInv
  <1>9. CASE \E r \in RunIds : Schedule(r) \/ ScheduleOffLoop(r) \/ StartRead(r)
               \/ StartFails(r) \/ FinishRead(r) \/ FinishFails(r)
    BY <1>2, <1>9 DEF Schedule, ScheduleOffLoop, StartRead, StartFails, FinishRead,
       FinishFails
  <1>10. CASE ReapRead \/ ReapFail \/ Crash \/ UNCHANGED vars
    BY <1>2, <1>10 DEF ReapRead, ReapFail, Crash, vars
  <1>. QED
    BY <1>3, <1>4, <1>5, <1>6, <1>7, <1>8, <1>9, <1>10
       DEF Next, RunnerStep, Reap, Lifecycle!Next

(***************************************************************************)
(* When every run ends within the threshold, the worker, the reaper and    *)
(* the operator together implement the lifecycle JobLifecycle states for   *)
(* every row.                                                              *)
(***************************************************************************)
THEOREM ImplementsLifecycle ==
  ASSUME SafeDeletion, Timely
  PROVE  Spec => LifecycleSpec
  <1>1. Init => Lifecycle!Init
    BY DEF Init, NoRow, Lifecycle!Init
  <1>2. IInv /\ [Next]_vars => [Lifecycle!Next]_[r \in RunIds |-> rows[r].status]
    BY LifecycleStep
  <1>. QED
    BY <1>1, <1>2, InitIInv, StepIInv, PTL DEF Spec, LifecycleSpec, Lifecycle!Spec
-----------------------------------------------------------------------------
(***************************************************************************)
(* The strengthening of ReadableOutcome, for runs of any length and rows   *)
(* deleted in any status.  While a task has a transaction open on a row,   *)
(* no other task has one, so only the sweep can have changed the row since *)
(* it was loaded; and a row that a sweep picked with an error still has    *)
(* one when the sweep commits, or has got a result.                        *)
(***************************************************************************)
Open(r) == task[r].pc \in {"starting", "finishing"}

Told(q) == rows[q].error # NULL \/ rows[q].result # NULL

Readable(q) ==
    /\ rows[q].status = "complete" => rows[q].result # NULL
    /\ rows[q].status = "failed" => Told(q)
    /\ rows[q].status \in Terminal => rows[q].completed

AsLoaded(q, old) ==
    /\ rows[q].status # "absent"
    /\ Live(q) => /\ rows[q].status \in {old.status, "failed"}
                  /\ rows[q].result = old.result
                  /\ rows[q].error \in {old.error, "reaped"}

LoadedTask(r) ==
    /\ task[r].pc \in {"running", "finishing"} => task[r].crd # NULL
    /\ Open(r) => AsLoaded(task[r].row, task[r].old)

Picked(q) ==
    /\ rows[q].status # "absent"
    /\ Live(q) /\ reaper[q] # NULL => Told(q)

OneOpen == \A r, s \in RunIds : Open(r) /\ Open(s) => r = s

ToldInv ==
    /\ TypeOK
    /\ OneOpen
    /\ \A q \in RunIds : Readable(q) /\ (Live(q) => rows[q].crd # NULL)
    /\ \A r \in RunIds : LoadedTask(r)
    /\ \A q \in DOMAIN reaper : Picked(q)

\* A row of which a step changes nothing but the age, or that it deletes.
Untouched(q) ==
    \/ rows'[q].status = "deleted" /\ rows[q].status # "absent"
    \/ /\ rows'[q].status = rows[q].status /\ rows'[q].result = rows[q].result
       /\ rows'[q].error = rows[q].error /\ rows'[q].completed = rows[q].completed
       /\ rows'[q].crd = rows[q].crd

\* A task that a step ends, or of which it changes nothing but the clock.
Carried(r) ==
    \/ task'[r].pc \notin {"starting", "running", "finishing"}
    \/ /\ task'[r].pc = task[r].pc /\ task'[r].row = task[r].row
       /\ task'[r].old = task[r].old /\ task'[r].crd = task[r].crd

LEMMA RowKept ==
  ASSUME ToldInv, NEW q \in RunIds, Untouched(q)
  PROVE  Readable(q)' /\ (Live(q)' => rows'[q].crd # NULL)
  BY DEF ToldInv, Untouched, Readable, Told, Live, RowStatuses, Terminal

LEMMA TaskKept ==
  ASSUME ToldInv, NEW r \in RunIds, Carried(r), Open(r)' => Untouched(task[r].row)
  PROVE  LoadedTask(r)'
  <1>1. LoadedTask(r)
    BY DEF ToldInv
  <1>. QED
    BY <1>1 DEF Carried, LoadedTask, Open, AsLoaded, Untouched, Live, RowStatuses

LEMMA PickKept ==
  ASSUME ToldInv, NEW q \in DOMAIN reaper, reaper' = reaper, Untouched(q)
  PROVE  Picked(q)'
  <1>1. Picked(q)
    BY DEF ToldInv
  <1>. QED
    BY <1>1 DEF Picked, Untouched, Told, Live, RowStatuses

LEMMA OpenKept ==
  ASSUME ToldInv, \A r \in RunIds : Carried(r)
  PROVE  OneOpen'
  BY DEF ToldInv, OneOpen, Carried, Open

\* The steps that write no column but the age, delete, or end tasks.
LEMMA ToldKept ==
  ASSUME ToldInv, TypeOK', reaper' = reaper \/ DOMAIN reaper' = {},
         \A q \in RunIds : Untouched(q), \A r \in RunIds : Carried(r)
  PROVE  ToldInv'
  <1>1. \A r \in RunIds : Open(r)' => task[r].row \in RunIds
    BY DEF ToldInv, TypeOK, Task, Carried, Open
  <1>2. \A r \in RunIds : LoadedTask(r)'
    BY <1>1, TaskKept
  <1>3. \A q \in DOMAIN reaper' : Picked(q)'
    BY PickKept DEF ToldInv, TypeOK
  <1>. QED
    BY <1>2, <1>3, RowKept, OpenKept DEF ToldInv

LEMMA OneStart ==
  ASSUME ToldInv, LoopFree, NEW r \in RunIds,
         \A s \in RunIds \ {r} : task'[s] = task[s]
  PROVE  OneOpen'
  BY DEF LoopFree, OneOpen, Open

LEMMA SubmitTold ==
  ASSUME ToldInv, TypeOK', NEW r \in RunIds, NEW e \in Endpoints, NEW t \in Traces,
         NEW c \in Crds, Submit(r, e, t, c)
  PROVE  ToldInv'
  <1>1. /\ rows[r].status = "absent" /\ UNCHANGED <<task, reaper>>
        /\ rows'[r].status = "queued" /\ rows'[r].crd = c
        /\ \A q \in RunIds \ {r} : rows'[q] = rows[q]
    BY DEF Submit, ToldInv, TypeOK, NoRow
  <1>2. \A q \in RunIds \ {r} : Untouched(q)
    BY <1>1 DEF Untouched
  <1>3. Readable(r)' /\ rows'[r].crd # NULL
    BY <1>1, NullFacts DEF Readable, Terminal
  <1>4. \A s \in RunIds : Open(s) => task[s].row \in RunIds \ {r}
    BY <1>1 DEF ToldInv, TypeOK, Task, Open, LoadedTask, AsLoaded
  <1>5. \A s \in RunIds : Carried(s)
    BY <1>1 DEF Carried
  <1>6. \A s \in RunIds : LoadedTask(s)'
    BY <1>1, <1>2, <1>4, <1>5, TaskKept DEF Open
  <1>7. \A q \in DOMAIN reaper : q \in RunIds \ {r}
    BY <1>1 DEF ToldInv, TypeOK, Picked
  <1>8. \A q \in DOMAIN reaper' : Picked(q)'
    BY <1>1, <1>2, <1>7, PickKept
  <1>. QED
    BY <1>2, <1>3, <1>5, <1>6, <1>8, RowKept, OpenKept DEF ToldInv

LEMMA ReadTold ==
  ASSUME ToldInv, TypeOK', NEW r \in RunIds, StartRead(r) \/ FinishRead(r)
  PROVE  ToldInv'
  <1>1. PICK q \in RunIds :
          /\ Live(q) /\ task'[r].row = q /\ task'[r].old = Columns(rows[q])
          /\ task'[r].pc \in {"starting", "finishing"}
          /\ task'[r].pc = "finishing" => task[r].pc = "running" /\ task'[r].crd = task[r].crd
          /\ \A s \in RunIds \ {r} : task'[s] = task[s]
    <2>1. task[r] \in TaskFields /\ task \in [RunIds -> Task]
      BY DEF ToldInv, TypeOK, Task
    <2>2. CASE StartRead(r)
      <3>1. PICK q \in RowsWith(rows[r].trace) :
              task' = [task EXCEPT ![r].pc = "starting", ![r].row = q,
                                   ![r].old = Columns(rows[q]), ![r].clock = 0]
        BY <2>2 DEF StartRead
      <3>. QED
        BY <2>1, <3>1 DEF RowsWith, TaskFields
    <2>3. CASE FinishRead(r)
      <3>1. PICK q \in RowsWith(rows[r].trace), o \in {"ok", "raised"} :
              task' = [task EXCEPT ![r].pc = "finishing", ![r].row = q,
                                   ![r].old = Columns(rows[q]), ![r].outcome = o]
        BY <2>3 DEF FinishRead
      <3>2. task[r].pc = "running"
        BY <2>3 DEF FinishRead
      <3>. QED
        BY <2>1, <3>1, <3>2 DEF RowsWith, TaskFields
    <2>. QED
      BY <2>2, <2>3
  <1>2. UNCHANGED <<rows, reaper>> /\ LoopFree
    BY DEF StartRead, FinishRead
  <1>3. \A p \in RunIds : Untouched(p)
    BY <1>2 DEF Untouched
  <1>4. AsLoaded(q, Columns(rows[q]))
    BY <1>1 DEF AsLoaded, Columns, Live, RowStatuses
  <1>5. LoadedTask(r)'
    <2>1. AsLoaded(task[r].row, task[r].old)'
      BY <1>1, <1>2, <1>4 DEF AsLoaded, Live
    <2>2. task'[r].pc \in {"running", "finishing"} => task'[r].crd # NULL
      BY <1>1 DEF ToldInv, LoadedTask
    <2>. QED
      BY <2>1, <2>2 DEF LoadedTask
  <1>6. \A s \in RunIds \ {r} : LoadedTask(s)'
    <2>1. \A s \in RunIds \ {r} : Carried(s) /\ ~Open(s)'
      BY <1>1, <1>2 DEF Carried, LoopFree, Open
    <2>. QED
      BY <2>1, TaskKept
  <1>7. \A p \in DOMAIN reaper' : Picked(p)'
    BY <1>2, <1>3, PickKept DEF ToldInv, TypeOK
  <1>. QED
    BY <1>1, <1>2, <1>3, <1>5, <1>6, <1>7, RowKept, OneStart DEF ToldInv

\* The row of a transaction that commits.
LEMMA Committed ==
  ASSUME ToldInv, TypeOK', NEW r \in RunIds, Open(r), NEW q, q = task[r].row,
         \A p \in RunIds \ {q} : rows'[p] = rows[p],
         \A s \in RunIds \ {r} : task'[s] = task[s],
         ~Open(r)', LoadedTask(r)', reaper' = reaper, rows'[q].status # "absent",
         Readable(q)', Live(q)' => rows'[q].crd # NULL, Told(q) => Told(q)', Live(q)
  PROVE  ToldInv'
  <1>1. \A p \in RunIds \ {q} : Untouched(p)
    BY DEF Untouched
  <1>2. \A s \in RunIds : ~Open(s)'
    BY DEF ToldInv, OneOpen, Open
  <1>3. \A s \in RunIds \ {r} : LoadedTask(s)'
    <2>1. \A s \in RunIds \ {r} : Carried(s)
      BY DEF Carried
    <2>. QED
      BY <1>2, <2>1, TaskKept
  <1>4. \A p \in DOMAIN reaper' : Picked(p)'
    <2>1. \A p \in DOMAIN reaper \ {q} : Picked(p)'
      BY <1>1, PickKept DEF ToldInv, TypeOK
    <2>2. q \in DOMAIN reaper => Picked(q)'
      BY DEF ToldInv, Picked
    <2>. QED
      BY <2>1, <2>2
  <1>. QED
    BY <1>1, <1>2, <1>3, <1>4, RowKept DEF ToldInv, OneOpen

LEMMA StartCommitTold ==
  ASSUME ToldInv, TypeOK', NEW r \in RunIds, StartCommit(r)
  PROVE  ToldInv'
  <1>. DEFINE old == task[r].old
  <1>0. PICK q \in RunIds : q = task[r].row
    BY DEF StartCommit, ToldInv, TypeOK, Task
  <1>1. Live(q) /\ rows[q] \in Row /\ Open(r) /\ AsLoaded(q, old)
    BY <1>0 DEF StartCommit, ToldInv, TypeOK, Open, LoadedTask
  <1>2. /\ \A p \in RunIds \ {q} : rows'[p] = rows[p]
        /\ rows'[q].status = Dirty(rows[q].status, old.status, "running")
        /\ rows'[q].result = rows[q].result /\ rows'[q].error = rows[q].error
        /\ rows'[q].completed = rows[q].completed /\ rows'[q].crd = rows[q].crd
    BY <1>0, <1>1 DEF StartCommit, ToldInv, TypeOK, Row
  <1>3. rows'[q].status \in {rows[q].status, "running"}
    BY <1>2 DEF Dirty
  <1>4. Readable(q)' /\ (Live(q)' => rows'[q].crd # NULL) /\ (Told(q) => Told(q)')
        /\ rows'[q].status # "absent"
    <2>1. Readable(q) /\ rows[q].crd # NULL /\ rows[q].status # "absent"
      BY <1>1 DEF ToldInv, Live, RowStatuses
    <2>. QED
      BY <1>2, <1>3, <2>1 DEF Readable, Told, Terminal
  <1>5. ~Open(r)' /\ LoadedTask(r)' /\ \A s \in RunIds \ {r} : task'[s] = task[s]
    <2>1. rows[q].crd # NULL
      BY <1>1 DEF ToldInv
    <2>2. \/ task'[r].pc = "running" /\ task'[r].crd = rows[q].crd
          \/ task'[r].pc = "done"
      BY <1>0 DEF StartCommit, EndTask, DoneTask, NoTask, ToldInv, TypeOK, Task, TaskFields
    <2>3. \A s \in RunIds \ {r} : task'[s] = task[s]
      BY DEF StartCommit, EndTask, ToldInv, TypeOK
    <2>. QED
      BY <2>1, <2>2, <2>3 DEF Open, LoadedTask
  <1>. QED
    BY <1>0, <1>1, <1>2, <1>4, <1>5, Committed DEF StartCommit

\* Whatever the sweep did since the row was loaded, the columns together tell
\* what happened.
LEMMA FinishCommitTold ==
  ASSUME ToldInv, TypeOK', NEW r \in RunIds, FinishCommit(r)
  PROVE  ToldInv'
  <1>0. PICK q \in RunIds : q = task[r].row
    BY DEF FinishCommit, ToldInv, TypeOK, Task
  <1>. DEFINE old == task[r].old
              new == Final(task[r])
              cur == rows[q]
  <1>1. /\ Live(q) /\ cur \in Row /\ Open(r) /\ AsLoaded(q, old)
        /\ task[r].crd # NULL /\ cur.crd # NULL
    BY <1>0 DEF FinishCommit, ToldInv, TypeOK, Open, LoadedTask
  <1>2. \/ new.status = "complete" /\ new.result # NULL
        \/ new.status = "failed" /\ new.error = "raised" /\ new.result = NULL
    BY <1>1 DEF Final
  <1>3. rows' = [rows EXCEPT ![q] = [Flush(cur, old, new) EXCEPT !.completed = TRUE]]
    BY <1>0 DEF FinishCommit
  <1>4. /\ cur.status \in {old.status, "failed"} /\ cur.result = old.result
        /\ cur.error \in {old.error, "reaped"}
    BY <1>1 DEF AsLoaded
  <1>5. "raised" # NULL /\ "reaped" # NULL
    BY NullFacts DEF Errors
  <1>. HIDE DEF new
  <1>6. /\ \A p \in RunIds \ {q} : rows'[p] = rows[p]
        /\ rows'[q].status = Dirty(cur.status, old.status, new.status)
        /\ rows'[q].result = Dirty(cur.result, old.result, new.result)
        /\ rows'[q].error = Dirty(cur.error, old.error, new.error)
        /\ rows'[q].crd = cur.crd /\ rows'[q].completed
    BY <1>1, <1>3 DEF ToldInv, TypeOK, Flush, Row
  <1>7. \/ rows'[q].status \in {"complete", "failed"} /\ rows'[q].result # NULL
        \/ rows'[q].status = "failed" /\ rows'[q].error # NULL
    BY <1>2, <1>4, <1>5, <1>6 DEF Dirty
  <1>8. /\ Readable(q)' /\ (Live(q)' => rows'[q].crd # NULL) /\ Told(q)'
        /\ rows'[q].status # "absent"
    BY <1>1, <1>6, <1>7 DEF Readable, Told
  <1>9. ~Open(r)' /\ LoadedTask(r)' /\ \A s \in RunIds \ {r} : task'[s] = task[s]
    BY DEF FinishCommit, EndTask, DoneTask, NoTask, ToldInv, TypeOK, Open, LoadedTask
  <1>. QED
    BY <1>0, <1>1, <1>6, <1>8, <1>9, Committed DEF FinishCommit

LEMMA ReapReadTold ==
  ASSUME ToldInv, TypeOK', ReapRead
  PROVE  ToldInv'
  <1>1. UNCHANGED <<rows, task>>
    BY DEF ReapRead
  <1>2. \A q \in DOMAIN reaper' :
          q \in RunIds /\ rows[q].status = "running" /\ reaper'[q] = rows[q].error
    BY DEF ReapRead, Stuck
  <1>3. \A q \in DOMAIN reaper' : Picked(q)'
    BY <1>1, <1>2 DEF Picked, Told
  <1>4. OneOpen' /\ \A r \in RunIds : LoadedTask(r)'
    BY <1>1 DEF ToldInv, OneOpen, Open, LoadedTask, AsLoaded, Live
  <1>5. \A q \in RunIds : Untouched(q)
    BY <1>1 DEF Untouched
  <1>. QED
    BY <1>3, <1>4, <1>5, RowKept DEF ToldInv

LEMMA ReapCommitTold ==
  ASSUME ToldInv, TypeOK', ReapCommit
  PROVE  ToldInv'
  <1>1. task' = task /\ DOMAIN reaper' = {}
    BY DEF ReapCommit
  <1>2. ASSUME NEW q \in RunIds
        PROVE  \/ rows'[q] = rows[q]
               \/ /\ q \in DOMAIN reaper /\ Live(q)
                  /\ rows'[q] = [rows[q] EXCEPT !.status = "failed",
                                     !.error = Dirty(@, reaper[q], "reaped"),
                                     !.completed = TRUE]
    BY <1>2 DEF ReapCommit
  <1>3. "reaped" # NULL
    BY NullFacts DEF Errors
  <1>4. ASSUME NEW q \in RunIds
        PROVE  \/ Untouched(q)
               \/ /\ Live(q) /\ rows'[q].status = "failed" /\ rows'[q].completed
                  /\ rows'[q].result = rows[q].result /\ rows'[q].crd = rows[q].crd
                  /\ rows'[q].error \in {rows[q].error, "reaped"}
                  /\ rows'[q].error # NULL \/ rows'[q].result # NULL
    <2>1. CASE rows'[q] = rows[q]
      BY <2>1 DEF Untouched
    <2>2. CASE /\ q \in DOMAIN reaper /\ Live(q)
               /\ rows'[q] = [rows[q] EXCEPT !.status = "failed",
                                     !.error = Dirty(@, reaper[q], "reaped"),
                                     !.completed = TRUE]
      <3>1. Picked(q) /\ rows[q] \in Row
        BY <2>2 DEF ToldInv, TypeOK
      <3>2. /\ rows'[q].status = "failed" /\ rows'[q].completed
            /\ rows'[q].result = rows[q].result /\ rows'[q].crd = rows[q].crd
            /\ rows'[q].error = Dirty(rows[q].error, reaper[q], "reaped")
        BY <2>2, <3>1 DEF Row
      <3>. QED
        BY <1>3, <2>2, <3>1, <3>2 DEF Picked, Told, Dirty
    <2>. QED
      BY <1>2, <2>1, <2>2
  <1>5. \A q \in RunIds : Readable(q)' /\ (Live(q)' => rows'[q].crd # NULL)
    <2>. TAKE q \in RunIds
    <2>1. CASE Untouched(q)
      BY <2>1, RowKept
    <2>2. CASE ~Untouched(q)
      BY <2>2, <1>4 DEF Readable, Told, ToldInv
    <2>. QED
      BY <2>1, <2>2
  <1>6. \A r \in RunIds : LoadedTask(r)'
    <2>. SUFFICES ASSUME NEW r \in RunIds PROVE LoadedTask(r)'
      OBVIOUS
    <2>. DEFINE q == task[r].row
    <2>1. Carried(r) /\ LoadedTask(r)
      BY <1>1 DEF Carried, ToldInv
    <2>2. CASE Open(r) /\ ~Untouched(q)
      <3>1. q \in RunIds
        BY <2>2 DEF ToldInv, TypeOK, Task, Open
      <3>2. AsLoaded(q, task[r].old)
        BY <2>1, <2>2 DEF LoadedTask
      <3>3. AsLoaded(q, task[r].old)'
        BY <1>1, <1>4, <2>2, <3>1, <3>2 DEF AsLoaded
      <3>. QED
        BY <1>1, <2>1, <3>3 DEF LoadedTask
    <2>3. CASE Open(r) => Untouched(q)
      BY <1>1, <2>1, <2>3, TaskKept DEF Open
    <2>. QED
      BY <2>2, <2>3
  <1>. QED
    BY <1>1, <1>5, <1>6 DEF ToldInv, OneOpen, Open

LEMMA ToldStep == ToldInv /\ [Next]_vars => ToldInv'
  <1>. SUFFICES ASSUME ToldInv, [Next]_vars PROVE ToldInv'
    OBVIOUS
  <1>0. TypeOK' /\ rows \in [RunIds -> Row] /\ task \in [RunIds -> Task]
    BY TypeStep DEF ToldInv, TypeOK
  <1>1. ASSUME NEW r \in RunIds, NEW e \in Endpoints, NEW t \in Traces, NEW c \in Crds,
               Submit(r, e, t, c)
        PROVE  ToldInv'
    BY <1>0, <1>1, SubmitTold
  <1>2. ASSUME NEW r \in RunIds, \/ Schedule(r) \/ ScheduleOffLoop(r)
                                 \/ StartFails(r) \/ FinishFails(r)
        PROVE  ToldInv'
    <2>1. UNCHANGED <<rows, reaper>> /\ \A s \in RunIds \ {r} : task'[s] = task[s]
      BY <1>0, <1>2 DEF Schedule, ScheduleOffLoop, StartFails, FinishFails, EndTask
    <2>2. task'[r].pc \in {"scheduled", "done"} \/ task'[r] = task[r]
      BY <1>0, <1>2 DEF Schedule, ScheduleOffLoop, StartFails, FinishFails, EndTask,
                        DoneTask, NoTask
    <2>3. (\A q \in RunIds : Untouched(q)) /\ \A s \in RunIds : Carried(s)
      BY <2>1, <2>2 DEF Untouched, Carried
    <2>. QED
      BY <1>0, <2>1, <2>3, ToldKept
  <1>3. ASSUME NEW r \in RunIds,
               StartRead(r) \/ FinishRead(r) \/ StartCommit(r) \/ FinishCommit(r)
        PROVE  ToldInv'
    BY <1>0, <1>3, ReadTold, StartCommitTold, FinishCommitTold
  <1>4. ASSUME NEW r \in RunIds, OperatorDelete(r)
        PROVE  ToldInv'
    <2>1. \A q \in RunIds : rows'[q] = rows[q] \/ (q = r /\ rows'[q].status = "deleted")
      BY <1>0, <1>4 DEF OperatorDelete, NoRow
    <2>2. rows[r].status # "absent" /\ UNCHANGED <<task, reaper>>
      BY <1>4, DeletableAssumption DEF OperatorDelete, RowStatuses
    <2>3. (\A q \in RunIds : Untouched(q)) /\ \A s \in RunIds : Carried(s)
      BY <2>1, <2>2 DEF Untouched, Carried
    <2>. QED
      BY <1>0, <2>2, <2>3, ToldKept
  <1>5. CASE Reap
    <2>1. CASE ReapFail
      <3>1. (\A q \in RunIds : Untouched(q)) /\ \A s \in RunIds : Carried(s)
        BY <2>1 DEF ReapFail, Untouched, Carried
      <3>. QED
        BY <1>0, <2>1, <3>1, ToldKept DEF ReapFail
    <2>. QED
      BY <1>0, <1>5, <2>1, ReapReadTold, ReapCommitTold DEF Reap
  <1>6. CASE Crash
    <2>1. \A s \in RunIds : task'[s].pc = "done" \/ task'[s] = task[s]
      BY <1>6 DEF Crash, DoneTask, NoTask
    <2>2. (\A q \in RunIds : Untouched(q)) /\ \A s \in RunIds : Carried(s)
      BY <1>6, <2>1 DEF Crash, Untouched, Carried
    <2>. QED
      BY <1>0, <1>6, <2>2, ToldKept DEF Crash
  <1>7. CASE Tick
    <2>1. \A q \in RunIds : rows'[q] = [rows[q] EXCEPT !.age = Older(@)]
      BY <1>7 DEF Tick
    <2>2. \A q \in RunIds : Untouched(q)
      BY <1>0, <2>1 DEF Row, Untouched
    <2>3. \A s \in RunIds : task'[s] = [task[s] EXCEPT !.clock = Older(@)]
      BY <1>7 DEF Tick
    <2>4. \A s \in RunIds : Carried(s)
      BY <1>0, <2>3 DEF Task, TaskFields, Carried
    <2>. QED
      BY <1>0, <1>7, <2>2, <2>4, ToldKept DEF Tick
  <1>8. CASE UNCHANGED vars
    <2>1. (\A q \in RunIds : Untouched(q)) /\ \A s \in RunIds : Carried(s)
      BY <1>8 DEF vars, Untouched, Carried
    <2>. QED
      BY <1>0, <1>8, <2>1, ToldKept DEF vars
  <1>. QED
    BY <1>1, <1>2, <1>3, <1>4, <1>5, <1>6, <1>7, <1>8 DEF Next, RunnerStep

(***************************************************************************)
(* Who polls a terminal row can tell what happened, for any number of runs *)
(* and trace ids, when runs outlive the threshold, sweeps overtake them,   *)
(* and operators delete rows in any status.                                *)
(***************************************************************************)
THEOREM OutcomeReadable == Spec => []ReadableOutcome
  <1>1. Init => ToldInv
    <2>. SUFFICES ASSUME Init PROVE ToldInv
      OBVIOUS
    <2>1. TypeOK
      BY InitType
    <2>2. \A r \in RunIds : rows[r].status = "absent" /\ task[r].pc = "none"
      BY DEF Init, NoRow, NoTask
    <2>3. DOMAIN reaper = {}
      BY DEF Init
    <2>. QED
      BY <2>1, <2>2, <2>3 DEF ToldInv, OneOpen, Open, Readable, Terminal, Live,
                              RowStatuses, LoadedTask
  <1>2. ToldInv => ReadableOutcome
    BY DEF ToldInv, Readable, Told, ReadableOutcome
  <1>. QED
    BY <1>1, <1>2, ToldStep, PTL DEF Spec
-----------------------------------------------------------------------------
(***************************************************************************)
(* Who can still change a row.  A transaction is open only on a row with   *)
(* the trace id of the task's own row, which may be deleted by then: the   *)
(* trace id outlives the row in its task.                                  *)
(***************************************************************************)
TraceInv ==
    /\ TypeOK
    /\ \A q \in RunIds : rows[q].status = "absent" =>
          task[q].pc = "none" /\ request[q].reply # "pending"
    /\ \A q \in RunIds : Open(q) =>
          /\ rows[task[q].row].status # "absent"
          /\ rows[task[q].row].trace = rows[q].trace

\* What any step but an insertion does to a row, its task and its request.
Followed(q) ==
    /\ rows'[q].trace = rows[q].trace
    /\ rows'[q].status = "absent" <=> rows[q].status = "absent"
    /\ task[q].pc = "none" => task'[q].pc = "none" \/ request[q].reply = "pending"
    /\ task'[q].pc \in Alive => task[q].pc \in Alive \/ request[q].reply = "pending"
    /\ request'[q].reply = "pending" => request[q].reply = "pending"
    /\ q \in DOMAIN reaper' => q \in DOMAIN reaper \/ rows[q].status = "running"
    /\ \/ /\ rows'[q].status = rows[q].status /\ rows'[q].result = rows[q].result
          /\ rows'[q].error = rows[q].error
       \/ rows'[q].status = "deleted"
       \/ q \in DOMAIN reaper
       \/ \E p \in RunIds : Open(p) /\ task[p].row = q

\* A transaction that opens does so on a row with the task's trace id.
OpensOnTrace(q) ==
    Open(q)' => \/ task'[q].row = task[q].row /\ Open(q)
                \/ task'[q].row \in RowsWith(rows[q].trace)

LEMMA RunnerFollowed ==
  ASSUME TypeOK, NEW r \in RunIds, RunnerStep(r), NEW q \in RunIds
  PROVE  Followed(q) /\ OpensOnTrace(q)
  <1>0. /\ rows[q] \in Row /\ task[q] \in Task /\ task[r] \in Task
        /\ rows \in [RunIds -> Row] /\ task \in [RunIds -> Task]
    BY DEF TypeOK
  <1>1. CASE StartRead(r) \/ FinishRead(r)
    <2>1. UNCHANGED <<rows, request, reaper>>
      BY <1>1 DEF StartRead, FinishRead
    <2>2. task[r].pc \in Alive /\ task[r] \in TaskFields
      BY <1>0, <1>1 DEF StartRead, FinishRead, Task, Alive, Busy
    <2>3. /\ task'[r].row \in RowsWith(rows[r].trace) /\ task'[r].pc \in Busy
          /\ q # r => task'[q] = task[q]
      <3>1. CASE StartRead(r)
        <4>1. PICK p \in RowsWith(rows[r].trace) :
                task' = [task EXCEPT ![r].pc = "starting", ![r].row = p,
                                     ![r].old = Columns(rows[p]), ![r].clock = 0]
          BY <3>1 DEF StartRead
        <4>. QED
          BY <1>0, <2>2, <4>1 DEF TaskFields, Busy
      <3>2. CASE FinishRead(r)
        <4>1. PICK p \in RowsWith(rows[r].trace), o \in {"ok", "raised"} :
                task' = [task EXCEPT ![r].pc = "finishing", ![r].row = p,
                                     ![r].old = Columns(rows[p]), ![r].outcome = o]
          BY <3>2 DEF FinishRead
        <4>. QED
          BY <1>0, <2>2, <4>1 DEF TaskFields, Busy
      <3>. QED
        BY <1>1, <3>1, <3>2
    <2>. QED
      BY <2>1, <2>2, <2>3 DEF Followed, OpensOnTrace, Alive, Busy, Open
  <1>2. CASE StartFails(r) \/ FinishFails(r)
    <2>1. UNCHANGED <<rows, request, reaper>> /\ task' = [task EXCEPT ![r] = DoneTask]
      BY <1>2 DEF StartFails, FinishFails, EndTask
    <2>2. task[r].pc \in Alive
      BY <1>2 DEF StartFails, FinishFails, Alive, Busy
    <2>. QED
      BY <1>0, <2>1, <2>2 DEF Followed, OpensOnTrace, Open, DoneTask, NoTask, Alive, Busy
  <1>3. CASE StartCommit(r) \/ FinishCommit(r)
    <2>. DEFINE p == task[r].row
    <2>1. p \in RunIds /\ Live(p) /\ Open(r) /\ UNCHANGED <<request, reaper>>
      BY <1>0, <1>3 DEF StartCommit, FinishCommit, Open, Task
    <2>2. /\ \A s \in RunIds \ {r} : task'[s] = task[s]
          /\ ~Open(r)'
      <3>1. CASE EndTask(r)
        BY <1>0, <3>1 DEF EndTask, DoneTask, NoTask, Open
      <3>2. CASE task' = [task EXCEPT ![r].pc = "running", ![r].row = NULL,
                                      ![r].old = NULL, ![r].crd = rows[p].crd]
        BY <1>0, <3>2 DEF Task, TaskFields, Open
      <3>. QED
        BY <1>3, <3>1, <3>2 DEF StartCommit, FinishCommit
    <2>3. \A s \in RunIds \ {p} : rows'[s] = rows[s]
      BY <1>0, <1>3, <2>1 DEF StartCommit, FinishCommit
    <2>4. rows'[p].trace = rows[p].trace /\ rows'[p].status # "absent"
      <3>1. rows[p] \in Row /\ rows[p].status # "absent"
        BY <1>0, <2>1 DEF Live, RowStatuses
      <3>2. CASE StartCommit(r)
        <4>1. rows' = [rows EXCEPT ![p].status = Dirty(@, task[r].old.status, "running"),
                                   ![p].age = task[r].clock]
          BY <3>2 DEF StartCommit
        <4>. QED
          BY <1>0, <2>1, <3>1, <4>1 DEF Row, Dirty
      <3>3. CASE FinishCommit(r)
        <4>. DEFINE new == Final(task[r])
        <4>1. new.status \in Terminal
          BY <1>0, FinalType
        <4>2. rows' = [rows EXCEPT ![p] = [Flush(@, task[r].old, new) EXCEPT !.completed = TRUE]]
          BY <3>3 DEF FinishCommit
        <4>. HIDE DEF new
        <4>3. rows'[p] = [Flush(rows[p], task[r].old, new) EXCEPT !.completed = TRUE]
          BY <1>0, <2>1, <4>2
        <4>4. /\ rows'[p].trace = rows[p].trace
              /\ rows'[p].status = Dirty(rows[p].status, task[r].old.status, new.status)
          BY <3>1, <4>3 DEF Flush, Row
        <4>. QED
          BY <3>1, <4>1, <4>4 DEF Dirty, Terminal
      <3>. QED
        BY <1>3, <3>2, <3>3
    <2>. QED
      BY <1>0, <2>1, <2>2, <2>3, <2>4
         DEF Followed, OpensOnTrace, Open, Alive, Busy, Live, RowStatuses
  <1>. QED
    BY <1>1, <1>2, <1>3 DEF RunnerStep

LEMMA OthersFollowed ==
  ASSUME TypeOK, [Next]_vars, NEW q \in RunIds,
         ~ \E r \in RunIds, e \in Endpoints, t \in Traces, c \in Crds : Submit(r, e, t, c)
  PROVE  Followed(q) /\ OpensOnTrace(q)
  <1>0. /\ rows[q] \in Row /\ task[q] \in Task /\ DOMAIN reaper \subseteq RunIds
        /\ rows \in [RunIds -> Row] /\ task \in [RunIds -> Task]
        /\ request \in [RunIds -> Request]
    BY DEF TypeOK
  <1>1. ASSUME NEW r \in RunIds, Schedule(r) \/ ScheduleOffLoop(r)
        PROVE  Followed(q) /\ OpensOnTrace(q)
    <2>1. UNCHANGED <<rows, reaper>> /\ request[r].reply = "pending"
      BY <1>1 DEF Schedule, ScheduleOffLoop
    <2>2. /\ task'[q] = task[q] \/ (q = r /\ task'[q].pc = "scheduled")
          /\ request'[q] = request[q] \/ (q = r /\ request'[q].reply # "pending")
      BY <1>0, <1>1 DEF Schedule, ScheduleOffLoop, NoTask, Request
    <2>. QED
      BY <2>1, <2>2 DEF Followed, OpensOnTrace, Open, Alive, Busy
  <1>2. ASSUME NEW r \in RunIds, OperatorDelete(r)
        PROVE  Followed(q) /\ OpensOnTrace(q)
    <2>1. \/ rows'[q] = rows[q]
          \/ /\ q = r /\ rows'[q].status = "deleted" /\ rows'[q].trace = rows[q].trace
             /\ rows[q].status # "absent"
      BY <1>0, <1>2, DeletableAssumption DEF OperatorDelete, NoRow, RowStatuses
    <2>. QED
      BY <1>2, <2>1 DEF OperatorDelete, Followed, OpensOnTrace, Open
  <1>3. CASE ReapRead \/ ReapFail
    <2>1. UNCHANGED <<rows, request, task>>
      BY <1>3 DEF ReapRead, ReapFail
    <2>2. \A r \in DOMAIN reaper' : rows[r].status = "running"
      BY <1>3 DEF ReapRead, ReapFail, Stuck
    <2>. QED
      BY <2>1, <2>2 DEF Followed, OpensOnTrace, Open
  <1>4. CASE ReapCommit
    <2>1. UNCHANGED <<request, task>> /\ DOMAIN reaper' = {}
      BY <1>4 DEF ReapCommit
    <2>2. \/ rows'[q] = rows[q]
          \/ /\ q \in DOMAIN reaper /\ Live(q)
             /\ rows'[q] = [rows[q] EXCEPT !.status = "failed",
                               !.error = Dirty(@, reaper[q], "reaped"), !.completed = TRUE]
      BY <1>4 DEF ReapCommit
    <2>3. \/ rows'[q] = rows[q]
          \/ /\ q \in DOMAIN reaper /\ rows[q].status # "absent"
             /\ rows'[q].status # "absent" /\ rows'[q].trace = rows[q].trace
      BY <1>0, <2>2 DEF Row, Live, RowStatuses
    <2>. QED
      BY <2>1, <2>3 DEF Followed, OpensOnTrace, Open
  <1>5. CASE Crash
    <2>1. UNCHANGED <<rows, reaper>>
      BY <1>5 DEF Crash
    <2>2. /\ task'[q] = task[q] \/ (task'[q].pc = "done" /\ task[q].pc # "none")
          /\ request'[q] = request[q] \/ request'[q].reply = "lost"
      BY <1>0, <1>5 DEF Crash, DoneTask, NoTask, Request, Alive, Busy
    <2>. QED
      BY <2>1, <2>2 DEF Followed, OpensOnTrace, Open, Alive, Busy
  <1>6. CASE Tick
    BY <1>6, TickFrame DEF Followed, OpensOnTrace, Open
  <1>7. CASE UNCHANGED vars
    BY <1>7 DEF vars, Followed, OpensOnTrace, Open
  <1>. QED
    BY <1>1, <1>2, <1>3, <1>4, <1>5, <1>6, <1>7, RunnerFollowed DEF Next, Reap

LEMMA TraceStep == TraceInv /\ [Next]_vars => TraceInv'
  <1>. SUFFICES ASSUME TraceInv, [Next]_vars PROVE TraceInv'
    OBVIOUS
  <1>0. TypeOK /\ TypeOK'
    BY TypeStep DEF TraceInv
  <1>1. ASSUME NEW r \in RunIds, NEW e \in Endpoints, NEW t \in Traces, NEW c \in Crds,
               Submit(r, e, t, c)
        PROVE  TraceInv'
    <2>1. /\ rows[r].status = "absent" /\ rows'[r].status = "queued"
          /\ \A q \in RunIds \ {r} : rows'[q] = rows[q]
          /\ \A q \in RunIds \ {r} : request'[q] = request[q]
          /\ UNCHANGED task
      BY <1>0, <1>1 DEF Submit, NoRow, TypeOK
    <2>2. \A q \in RunIds : Open(q) => q # r /\ task[q].row \in RunIds \ {r}
      BY <1>0, <2>1 DEF TraceInv, TypeOK, Task, Open
    <2>. QED
      BY <1>0, <2>1, <2>2 DEF TraceInv, Open
  <1>2. CASE ~ \E r \in RunIds, e \in Endpoints, t \in Traces, c \in Crds : Submit(r, e, t, c)
    <2>1. \A q \in RunIds : Followed(q) /\ OpensOnTrace(q)
      BY <1>0, <1>2, OthersFollowed
    <2>2. ASSUME NEW q \in RunIds, Open(q)'
          PROVE  (rows[task[q].row].status # "absent" /\ rows[task[q].row].trace = rows[q].trace)'
      <3>1. task'[q].row \in RunIds
        BY <1>0, <2>2 DEF TypeOK, Task, Open
      <3>2. rows[task'[q].row].status # "absent" /\ rows[task'[q].row].trace = rows[q].trace
        BY <2>1, <2>2 DEF OpensOnTrace, TraceInv, RowsWith, Live, RowStatuses
      <3>. QED
        BY <2>1, <3>1, <3>2 DEF Followed
    <2>3. ASSUME NEW q \in RunIds, rows'[q].status = "absent"
          PROVE  task'[q].pc = "none" /\ request'[q].reply # "pending"
      <3>1. /\ rows[q].status = "absent" /\ task[q].pc = "none"
            /\ request[q].reply # "pending"
        BY <2>1, <2>3 DEF Followed, TraceInv
      <3>. QED
        BY <2>1, <3>1 DEF Followed
    <2>. QED
      BY <1>0, <2>2, <2>3 DEF TraceInv
  <1>. QED
    BY <1>1, <1>2

LEMMA VerdictStep ==
  ASSUME TraceInv, [Next]_vars, NEW r \in RunIds, Settled(r)
  PROVE  \/ Settled(r)' /\ Columns(rows[r])' = Columns(rows[r])
         \/ rows'[r].status = "deleted"
  <1>0. TypeOK /\ Live(r) /\ rows[r].status # "absent" /\ rows[r].status # "running"
    BY DEF TraceInv, Settled, Terminal, Live, RowStatuses
  <1>1. ASSUME NEW p \in RunIds, NEW e \in Endpoints, NEW t \in Traces, NEW c \in Crds,
               Submit(p, e, t, c)
        PROVE  Settled(r)' /\ Columns(rows[r])' = Columns(rows[r])
    <2>1. /\ p # r /\ rows'[r] = rows[r] /\ UNCHANGED <<task, reaper>>
          /\ rows'[p].trace = t /\ rows[r].trace # t
          /\ \A q \in RunIds \ {p} : rows'[q] = rows[q] /\ request'[q] = request[q]
      BY <1>0, <1>1 DEF Submit, NoRow, TypeOK, TraceFree, RowsWith
    <2>. QED
      BY <2>1 DEF Settled, Unattended, Columns
  <1>2. CASE ~ \E p \in RunIds, e \in Endpoints, t \in Traces, c \in Crds : Submit(p, e, t, c)
    <2>1. \A q \in RunIds : Followed(q)
      BY <1>0, <1>2, OthersFollowed
    <2>2. \A p \in RunIds : Open(p) => task[p].row # r
      BY DEF TraceInv, Settled, Unattended, Open, Alive, Busy
    <2>3. \/ rows'[r].status = "deleted"
          \/ /\ rows'[r].status = rows[r].status /\ rows'[r].result = rows[r].result
             /\ rows'[r].error = rows[r].error
      BY <2>1, <2>2 DEF Followed, Settled, Unattended
    <2>4. Unattended(r)'
      BY <1>0, <2>1 DEF Followed, Settled, Unattended
    <2>. QED
      BY <2>3, <2>4 DEF Settled, Columns
  <1>. QED
    BY <1>1, <1>2

(***************************************************************************)
(* A verdict is final once neither a task nor a sweep nor a request with   *)
(* the row's trace id is left, for any number of runs, timely or not, and  *)
(* whatever rows are deleted and trace ids used again.                     *)
(***************************************************************************)
THEOREM VerdictsAreFinal == Spec => VerdictIsFinal
  <1>1. Init => TraceInv
    BY InitType DEF Init, TraceInv, NoTask, Open
  <1>2. TraceInv /\ [Next]_vars => \A r \in RunIds : Settled(r) =>
          \/ Settled(r)' /\ Columns(rows[r])' = Columns(rows[r])
          \/ rows'[r].status = "deleted"
    BY VerdictStep
  <1>. QED
    BY <1>1, <1>2, TraceStep, PTL DEF Spec, VerdictIsFinal

-----------------------------------------------------------------------------
(***************************************************************************)
(* The part of the lifecycle that needs no assumption about the length of  *)
(* runs: the verdict may change when a sweep overtakes a run, but a row    *)
(* never goes back to where its run has not ended, so no run is started    *)
(* twice for one row.  It needs SafeDeletion, or a second task would find  *)
(* the row by a trace id used again.                                       *)
(***************************************************************************)
NeverBack(r) ==
    /\ rows'[r].status = "queued" => rows[r].status \in {"absent", "queued"}
    /\ rows'[r].status = "running" => rows[r].status \in {"queued", "running"}

LEMMA NeverBackStep ==
  ASSUME IdentityInv, [Next]_vars, NEW r \in RunIds
  PROVE  NeverBack(r)
  <1>0. TypeOK /\ rows \in [RunIds -> Row] /\ rows[r] \in Row
    BY DEF IdentityInv, TypeOK
  <1>1. ASSUME NEW q \in RunIds, NEW e \in Endpoints, NEW t \in Traces, NEW c \in Crds,
               Submit(q, e, t, c)
        PROVE  NeverBack(r)
    BY <1>0, <1>1 DEF Submit, NoRow, NeverBack
  <1>2. ASSUME NEW q \in RunIds, StartCommit(q)
        PROVE  NeverBack(r)
    <2>1. task[q].row = q /\ rows[q].status = "queued" /\ task[q].old.status = "queued"
      BY <1>2 DEF StartCommit, IdentityInv, OwnRow
    <2>2. rows' = [rows EXCEPT ![q].status = "running", ![q].age = task[q].clock]
      BY <1>2, <2>1 DEF StartCommit, Dirty
    <2>. QED
      BY <1>0, <2>1, <2>2 DEF NeverBack, Row
  <1>3. ASSUME NEW q \in RunIds, FinishCommit(q)
        PROVE  NeverBack(r)
    <2>. DEFINE new == Final(task[q])
    <2>1. /\ task[q].row = q /\ rows[q].status \in Held
          /\ rows'[q].status \in Held \cup Terminal
          /\ \A p \in RunIds \ {q} : rows'[p] = rows[p]
      BY <1>3, FinishCommitRow
    <2>2. new.status \in Terminal
      BY FinalType DEF IdentityInv, TypeOK
    <2>3. rows' = [rows EXCEPT ![q] = [Flush(@, task[q].old, new) EXCEPT !.completed = TRUE]]
      BY <1>3, <2>1 DEF FinishCommit
    <2>. HIDE DEF new
    <2>4. rows'[q] = [Flush(rows[q], task[q].old, new) EXCEPT !.completed = TRUE]
      BY <1>0, <2>3
    <2>5. rows'[q].status \in {rows[q].status, new.status}
      <3>1. rows[q] \in Row
        BY <1>0
      <3>. QED
        BY <3>1, <2>4 DEF Flush, Dirty, Row
    <2>. QED
      BY <2>1, <2>2, <2>5 DEF NeverBack, Held, Terminal
  <1>4. CASE ReapCommit
    <2>1. \/ rows'[r] = rows[r]
          \/ rows'[r] = [rows[r] EXCEPT !.status = "failed",
                            !.error = Dirty(@, reaper[r], "reaped"), !.completed = TRUE]
      BY <1>4 DEF ReapCommit
    <2>2. rows'[r].status \in {rows[r].status, "failed"}
      BY <1>0, <2>1 DEF Row
    <2>. QED
      BY <2>2 DEF NeverBack
  <1>5. ASSUME NEW q \in RunIds, OperatorDelete(q)
        PROVE  NeverBack(r)
    BY <1>0, <1>5 DEF OperatorDelete, NoRow, NeverBack
  <1>6. CASE Tick
    BY <1>0, <1>6, TickFrame DEF NeverBack
  <1>7. CASE UNCHANGED rows
    BY <1>7 DEF NeverBack
  <1>8. ASSUME NEW q \in RunIds, \/ Schedule(q) \/ ScheduleOffLoop(q) \/ StartRead(q)
                                 \/ StartFails(q) \/ FinishRead(q) \/ FinishFails(q)
        PROVE  UNCHANGED rows
    BY <1>8 DEF Schedule, ScheduleOffLoop, StartRead, StartFails, FinishRead, FinishFails
  <1>9. ReapRead \/ ReapFail \/ Crash \/ UNCHANGED vars => UNCHANGED rows
    BY DEF ReapRead, ReapFail, Crash, vars
  <1>. QED
    BY <1>1, <1>2, <1>3, <1>4, <1>5, <1>6, <1>7, <1>8, <1>9 DEF Next, RunnerStep, Reap

(***************************************************************************)
(* A row is started once, whether runs end within the threshold or not.    *)
(***************************************************************************)
THEOREM StartsOnce ==
  ASSUME SafeDeletion
  PROVE  Spec => [][\A r \in RunIds : NeverBack(r)]_vars
  <1>1. IInv /\ [Next]_vars => \A r \in RunIds : NeverBack(r)
    BY NeverBackStep DEF IInv
  <1>. QED
    BY <1>1, InitIInv, StepIInv, PTL DEF Spec

-----------------------------------------------------------------------------
\* A step that writes one row changes what readers see of one row.
LEMMA OneRowSeen ==
  ASSUME rows \in [RunIds -> Row], rows' \in [RunIds -> Row], NEW r \in RunIds,
         \A q \in RunIds \ {r} : rows'[q] = rows[q]
  PROVE  /\ [q \in RunIds |-> rows[q].status]'
              = [[q \in RunIds |-> rows[q].status] EXCEPT ![r] = rows'[r].status]
         /\ [q \in RunIds |-> Visible(q)]'
              = [[q \in RunIds |-> Visible(q)] EXCEPT ![r] = Visible(r)']
  <1>. DEFINE st == [q \in RunIds |-> rows[q].status]
              seen == [q \in RunIds |-> Visible(q)]
  <1>1. \A q \in RunIds : st'[q] = rows'[q].status /\ st[q] = rows[q].status
    OBVIOUS
  <1>2. \A q \in RunIds : seen'[q] = Visible(q)' /\ seen[q] = Visible(q)
    OBVIOUS
  <1>3. \A q \in RunIds \ {r} : Visible(q)' = Visible(q) /\ rows'[q].status = rows[q].status
    BY DEF Visible, Live
  <1>4. /\ DOMAIN st = RunIds /\ DOMAIN st' = RunIds
        /\ DOMAIN seen = RunIds /\ DOMAIN seen' = RunIds
        /\ st = [q \in RunIds |-> st[q]] /\ st' = [q \in RunIds |-> st'[q]]
        /\ seen = [q \in RunIds |-> seen[q]] /\ seen' = [q \in RunIds |-> seen'[q]]
    OBVIOUS
  <1>. HIDE DEF st, seen
  <1>5. st' = [st EXCEPT ![r] = rows'[r].status]
    BY <1>1, <1>3, <1>4
  <1>6. seen' = [seen EXCEPT ![r] = Visible(r)']
    BY <1>2, <1>3, <1>4
  <1>. QED
    BY <1>5, <1>6 DEF st, seen

\* The lifecycle steps that write no column of JobTable.
LEMMA ColumnsStay ==
  ASSUME rows \in [RunIds -> Row],
         \A q \in RunIds : /\ Live(q)' = Live(q)
                            /\ rows'[q].trace = rows[q].trace
                            /\ rows'[q].crd = rows[q].crd
                            /\ rows'[q].result = rows[q].result
  PROVE  [q \in RunIds |-> Visible(q)]' = [q \in RunIds |-> Visible(q)]
  BY DEF Visible

LEMMA TableStep ==
  ASSUME SafeDeletion, Timely, IInv, [Next]_vars, TypeOK'
  PROVE  [Table!TableNext]_(Table!table)
  <1>. DEFINE st == [q \in RunIds |-> rows[q].status]
              seen == [q \in RunIds |-> Visible(q)]
  <1>frame. IdentityInv /\ TimelyInv /\ rows \in [RunIds -> Row] /\ rows' \in [RunIds -> Row]
    BY DEF IInv, IdentityInv, TypeOK
  <1>2. CASE UNCHANGED rows
    <2>1. st' = st /\ seen' = seen
      BY <1>2 DEF Visible, Live
    <2>. QED
      BY <2>1 DEF Table!table
  <1>3. ASSUME NEW r \in RunIds, NEW e \in Endpoints, NEW t \in Traces,
               NEW c \in Crds, Submit(r, e, t, c)
        PROVE  Table!TableNext
    <2>1. /\ rows[r].status = "absent" /\ rows'[r].status = "queued"
          /\ Visible(r)' = [trace |-> t, crd |-> c, result |-> NULL]
          /\ \A q \in RunIds \ {r} : rows'[q] = rows[q]
      BY <1>frame, <1>3 DEF Submit, NoRow, Visible, Live, RowStatuses
    <2>2. \A q \in RunIds : seen[q].trace # t
      BY <1>3, NullAssumption DEF Submit, TraceFree, RowsWith, Visible
    <2>3. /\ st' = [st EXCEPT ![r] = "queued"]
          /\ seen' = [seen EXCEPT ![r] = [trace |-> t, crd |-> c, result |-> NULL]]
      BY <1>frame, <2>1, OneRowSeen
    <2>4. Table!Insert(r, t, c)
      BY <2>1, <2>2, <2>3 DEF Table!Insert, Table!Enqueue
    <2>. QED
      BY <2>4 DEF Table!TableNext
  <1>4. ASSUME NEW r \in RunIds, StartCommit(r) PROVE Table!TableNext
    <2>1. /\ task[r].row = r /\ rows[r].status = "queued"
          /\ task[r].old.status = "queued"
      BY <1>frame, <1>4 DEF StartCommit, IdentityInv, OwnRow
    <2>2. rows' = [rows EXCEPT ![r].status = "running", ![r].age = task[r].clock]
      BY <1>4, <2>1 DEF StartCommit, Dirty
    <2>3. /\ rows'[r].status = "running" /\ rows'[r].trace = rows[r].trace
          /\ rows'[r].crd = rows[r].crd /\ rows'[r].result = rows[r].result
          /\ \A q \in RunIds \ {r} : rows'[q] = rows[q]
      BY <1>frame, <2>2 DEF Row
    <2>4. seen' = seen
      BY <1>frame, <2>1, <2>3, ColumnsStay DEF Live, RowStatuses
    <2>5. st' = [st EXCEPT ![r] = "running"]
      BY <1>frame, <2>3, OneRowSeen
    <2>6. Table!Start(r)
      BY <2>1, <2>5 DEF Table!Start
    <2>. QED
      BY <2>4, <2>6 DEF Table!TableNext, Table!Proceed
  <1>5. ASSUME NEW r \in RunIds, FinishCommit(r) PROVE Table!TableNext
    <2>1. /\ rows[r].status = "running" /\ rows'[r].trace = rows[r].trace
          /\ rows'[r].crd = rows[r].crd
          /\ \A q \in RunIds \ {r} : rows'[q] = rows[q]
      BY <1>frame, <1>5, FinishCommitRow, FinishCommitWrites
    <2>2. rows[r].crd \in Crds /\ rows[r].result = NULL
      BY <1>frame, <2>1 DEF TimelyInv, TimelyRow, Live, RowStatuses, Row
    <2>3. CASE rows'[r].status = "complete" /\ rows'[r].result = rows[r].crd
      <3>1. Visible(r)' = [Visible(r) EXCEPT !.result = rows[r].crd]
        BY <2>1, <2>3 DEF Visible, Live, RowStatuses
      <3>2. /\ st' = [st EXCEPT ![r] = "complete"]
            /\ seen' = [seen EXCEPT ![r].result = rows[r].crd]
        BY <1>frame, <2>1, <2>3, <3>1, OneRowSeen
      <3>3. seen[r].crd = rows[r].crd
        BY <2>1 DEF Visible, Live, RowStatuses
      <3>. DEFINE s == <<rows[r].crd, rows[r].crd>>
      <3>4. /\ s \in {<<c, c>> : c \in Crds} /\ s[1] = seen[r].crd
            /\ seen' = [seen EXCEPT ![r].result = s[2]]
        BY <2>2, <3>2, <3>3
      <3>5. Table!Settle(r, "complete")
        BY <2>1, <3>2 DEF Table!Settle
      <3>. HIDE DEF s
      <3>6. Table!Complete(r)
        BY <3>4, <3>5 DEF Table!Complete
      <3>. QED
        BY <3>6 DEF Table!TableNext
    <2>4. CASE rows'[r].status = "failed" /\ rows'[r].result = NULL
      <3>1. seen' = seen
        BY <1>frame, <2>1, <2>2, <2>4, ColumnsStay DEF Live, RowStatuses
      <3>2. st' = [st EXCEPT ![r] = "failed"]
        BY <1>frame, <2>1, <2>4, OneRowSeen
      <3>3. Table!Settle(r, "failed")
        BY <2>1, <3>2 DEF Table!Settle
      <3>. QED
        BY <3>1, <3>3 DEF Table!TableNext, Table!Proceed
    <2>. QED
      BY <1>frame, <1>5, <2>3, <2>4, FinishCommitWrites
  <1>6. CASE ReapCommit
    <2>1. \A q \in RunIds :
            \/ q \notin DOMAIN reaper /\ rows'[q] = rows[q]
            \/ /\ q \in DOMAIN reaper /\ rows[q].status = "running"
               /\ rows'[q].status = "failed" /\ rows'[q].crd = rows[q].crd
               /\ rows'[q].result = rows[q].result
      BY <1>frame, <1>6, ReapCommitRow
    <2>2. \A q \in RunIds : rows'[q].trace = rows[q].trace
      BY <1>frame, <1>6 DEF ReapCommit, Row
    <2>3. seen' = seen
      BY <1>frame, <2>1, <2>2, ColumnsStay DEF Live, RowStatuses
    <2>4. DOMAIN reaper \in SUBSET RunIds
      BY <1>frame DEF IdentityInv, TypeOK
    <2>5. /\ \A q \in DOMAIN reaper : st[q] = "running"
          /\ st' = [q \in RunIds |-> IF q \in DOMAIN reaper THEN "failed" ELSE st[q]]
      BY <2>1, <2>4
    <2>6. \E S \in SUBSET RunIds :
            /\ \A q \in S : st[q] = "running"
            /\ st' = [q \in RunIds |-> IF q \in S THEN "failed" ELSE st[q]]
      <3>. WITNESS DOMAIN reaper \in SUBSET RunIds
      <3>. QED
        BY <2>5
    <2>. QED
      BY <2>3, <2>6 DEF Table!TableNext, Table!Proceed, Table!Sweep
  <1>7. ASSUME NEW r \in RunIds, OperatorDelete(r) PROVE Table!TableNext
    <2>1. /\ rows[r].status \in Terminal /\ rows'[r].status = "deleted"
          /\ \A q \in RunIds \ {r} : rows'[q] = rows[q]
      BY <1>frame, <1>7 DEF OperatorDelete, SafeDeletion, NoRow
    <2>2. Visible(r)' = Table!NoRow
      BY <2>1 DEF Visible, Live, RowStatuses, Table!NoRow
    <2>3. st' = [st EXCEPT ![r] = "deleted"] /\ seen' = [seen EXCEPT ![r] = Table!NoRow]
      BY <1>frame, <2>1, <2>2, OneRowSeen
    <2>4. Table!Delete(r)
      BY <2>1, <2>3 DEF Table!Delete, Table!Purge, Table!Terminal, Terminal
    <2>. QED
      BY <2>4 DEF Table!TableNext
  <1>8. CASE Tick
    <2>1. st' = st /\ seen' = seen
      BY <1>frame, <1>8, TickFrame, ColumnsStay DEF IdentityInv, Live
    <2>. QED
      BY <2>1 DEF Table!table
  <1>9. CASE \E r \in RunIds : Schedule(r) \/ ScheduleOffLoop(r) \/ StartRead(r)
               \/ StartFails(r) \/ FinishRead(r) \/ FinishFails(r)
    BY <1>2, <1>9 DEF Schedule, ScheduleOffLoop, StartRead, StartFails, FinishRead,
       FinishFails
  <1>10. CASE ReapRead \/ ReapFail \/ Crash \/ UNCHANGED vars
    BY <1>2, <1>10 DEF ReapRead, ReapFail, Crash, vars
  <1>. QED
    BY <1>3, <1>4, <1>5, <1>6, <1>7, <1>8, <1>9, <1>10 DEF Next, RunnerStep, Reap

(***************************************************************************)
(* When every run ends within the threshold, whoever only reads the table  *)
(* sees the one of JobTable: a trace id names one row at a time, a result  *)
(* comes with "complete", is of the row's firm and is never replaced.      *)
(***************************************************************************)
THEOREM ImplementsTable ==
  ASSUME SafeDeletion, Timely
  PROVE  Spec => ReadersSee
  <1>1. Init => Table!TableInit
    BY DEF Init, NoRow, Visible, Live, RowStatuses, Table!TableInit, Table!Init,
       Table!NoRow
  <1>2. IInv /\ [Next]_vars /\ TypeOK' => [Table!TableNext]_(Table!table)
    BY TableStep
  <1>. QED
    BY <1>1, <1>2, InitIInv, StepIInv, TypeCorrect, PTL
       DEF Spec, ReadersSee, Table!TableSpec
=============================================================================
