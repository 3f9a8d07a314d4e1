---------------------------- MODULE JobLifecycle ----------------------------
(***************************************************************************)
(* What one row of the pipeline_runs table promises a caller that polls    *)
(* it (app/jobs/models.py, module docstring): the status walks             *)
(*                                                                         *)
(*        queued -> running -> (complete | failed)                         *)
(*                                                                         *)
(* and never walks back.  A row may be purged by an operator once it is    *)
(* terminal.  "absent" is a row nobody inserted yet, "deleted" a row that  *)
(* was purged; a primary key is never used twice.                          *)
(***************************************************************************)
CONSTANT RunIds

VARIABLE status

Terminal == {"complete", "failed"}

Statuses == {"absent", "queued", "running", "deleted"} \cup Terminal

Init == status = [r \in RunIds |-> "absent"]

Enqueue(r) ==
    /\ status[r] = "absent"
    /\ status' = [status EXCEPT ![r] = "queued"]

Start(r) ==
    /\ status[r] = "queued"
    /\ status' = [status EXCEPT ![r] = "running"]

Settle(r, s) ==
    /\ status[r] = "running"
    /\ status' = [status EXCEPT ![r] = s]

\* The reaper fails every row of a sweep in one transaction.
Sweep(S) ==
    /\ \A r \in S : status[r] = "running"
    /\ status' = [r \in RunIds |-> IF r \in S THEN "failed" ELSE status[r]]

Purge(r) ==
    /\ status[r] \in Terminal
    /\ status' = [status EXCEPT ![r] = "deleted"]

Next ==
    \/ \E r \in RunIds :
          \/ Enqueue(r)
          \/ Start(r)
          \/ \E s \in Terminal : Settle(r, s)
          \/ Purge(r)
    \/ \E S \in SUBSET RunIds : Sweep(S)

Spec == Init /\ [][Next]_status
=============================================================================
