------------------------------ MODULE JobTable ------------------------------
(***************************************************************************)
(* What the pipeline_runs table promises those who only read it: the       *)
(* review pages, the release rule, clients that poll.  Beyond the status   *)
(* of each row, as in JobLifecycle: one row at a time has a trace id, what *)
(* a row is about never changes, and a result is stored in the step that   *)
(* completes the run and never replaced.                                   *)
(***************************************************************************)
EXTENDS JobLifecycle

CONSTANTS
    Traces, Crds,
    Stores,       \* <<firm, result>>: what a run about the firm may store
    NULL

VARIABLE row      \* the columns of each row that is there

table == <<status, row>>

NoRow == [trace |-> NULL, crd |-> NULL, result |-> NULL]

TableInit == Init /\ row = [r \in RunIds |-> NoRow]

Insert(r, t, c) ==
    /\ Enqueue(r)
    /\ \A q \in RunIds : row[q].trace # t
    /\ row' = [row EXCEPT ![r] = [trace |-> t, crd |-> c, result |-> NULL]]

Complete(r) ==
    /\ Settle(r, "complete")
    /\ \E s \in Stores :
          /\ s[1] = row[r].crd
          /\ row' = [row EXCEPT ![r].result = s[2]]

Delete(r) ==
    /\ Purge(r)
    /\ row' = [row EXCEPT ![r] = NoRow]

\* The other steps of the lifecycle write none of these columns.
Proceed ==
    /\ \/ \E r \in RunIds : Start(r) \/ Settle(r, "failed")
       \/ \E S \in SUBSET RunIds : Sweep(S)
    /\ row' = row

TableNext ==
    \/ \E r \in RunIds :
          \/ \E t \in Traces, c \in Crds : Insert(r, t, c)
          \/ Complete(r)
          \/ Delete(r)
    \/ Proceed

TableSpec == TableInit /\ [][TableNext]_table
=============================================================================
