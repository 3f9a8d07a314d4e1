----------------------------- MODULE ReviewGate -----------------------------
(***************************************************************************)
(* The review surface of adv-lens: compliance officers read the report of  *)
(* a run in the web UI or through the API and record decisions in the      *)
(* human_reviews table (app/web/routes.py, app/main.py), while the rows    *)
(* they look at are completed by workers, rewritten by the seed script     *)
(* (app/web/seed.py), deleted by operators and inserted again.             *)
(*                                                                         *)
(* The rows of pipeline_runs change as JobLifecycle promises; only the     *)
(* seed script steps outside it.  A page of the UI is two requests: the    *)
(* detail page, whose form carries the hash, and the frame with the        *)
(* report.  The API returns both in one row.                               *)
(*                                                                         *)
(* HITL is enabled.  A report is named by its hash.  Any run may produce a *)
(* report there was before, and somebody may put one back into the sample  *)
(* file: a report carries neither a trace id nor a time, and "a re-run ... *)
(* produces a report whose hash may or may not match" (ADR 0011, 7).       *)
(***************************************************************************)
EXTENDS Naturals, FiniteSets

CONSTANTS
    RunIds,        \* primary keys of pipeline_runs
    Traces,        \* trace ids clients use, more than once if they like
    SeedTraces,    \* trace ids of the seed script
    Crds,          \* firms
    Reviewers,     \* each has one tab open, or one API script
    ApiUsers,      \* the reviewers that use the API
    Reports,       \* that runs produce or samples hold, as hashes
    MaxResults,    \* bound: results stored
    MaxDecisions,  \* bound: decisions submitted
    NULL

ASSUME SeedTracesAssumption == SeedTraces \cap Traces = {}
ASSUME ApiUsersAssumption == ApiUsers \subseteq Reviewers
ASSUME BoundsAssumption == MaxResults \in Nat /\ MaxDecisions \in Nat
ASSUME NullIsNew == NULL \notin Reports \cup Crds \cup Traces \cup SeedTraces

VARIABLES
    status,    \* of the rows, as in JobLifecycle
    rows,      \* their other columns
    results,   \* stored so far
    sample,    \* the report in the sample file of each seeded trace
    tab,       \* what each reviewer is doing
    reviews,   \* the human_reviews table
    clock,     \* decisions time-stamped so far
    shown,     \* not in the code: the reports rows of each trace have held,
    again      \* and those that came again

history == <<shown, again>>

vars == <<status, rows, results, sample, tab, reviews, clock, history>>

Jobs == INSTANCE JobLifecycle

-----------------------------------------------------------------------------
AllTraces == Traces \cup SeedTraces

Decisions == {"approved", "rejected", "revise"}

Row == [trace : AllTraces \cup {NULL},
        crd   : Crds \cup {NULL},
        hash  : Reports \cup {NULL},     \* result.report_hash
        done  : Nat]                     \* completed_at, as an order

NoRow == [trace |-> NULL, crd |-> NULL, hash |-> NULL, done |-> 0]

\* "saw" and "history" are not columns: the report the reviewer was looking
\* at, and the decisions (by time stamp) listed on the page.
Review == [trace    : AllTraces,
           crd      : Crds,
           decision : Decisions,
           hash     : Reports,
           ts       : Nat,
           saw      : Reports,
           history  : SUBSET Nat]

ASSUME NullIsNoReview == NULL \notin Review

Tab == {t \in [pc      : {"idle", "page", "reading", "posting"},
               trace   : AllTraces \cup {NULL},
               crd     : Crds \cup {NULL},       \* known to API users
               hash    : Reports \cup {NULL},
               shown   : Reports \cup {NULL},
               history : SUBSET Nat,
               post    : Review \cup {NULL}] :
           /\ t.pc = "idle" <=> t.trace = NULL
           /\ t.pc = "idle" <=> t.hash = NULL
           /\ t.pc \in {"reading", "posting"} <=> t.shown # NULL
           /\ t.pc = "posting" <=> t.post # NULL}

Blank == [pc |-> "idle", trace |-> NULL, crd |-> NULL, hash |-> NULL,
          shown |-> NULL, history |-> {}, post |-> NULL]

Live(r) == status[r] \notin {"absent", "deleted"}

TypeOK ==
    /\ status \in [RunIds -> Jobs!Statuses]
    /\ rows \in [RunIds -> Row]
    /\ \A r \in RunIds : IF Live(r) THEN rows[r].trace # NULL /\ rows[r].crd # NULL
                                    ELSE rows[r] = NoRow
    /\ results \in Nat
    /\ sample \in [SeedTraces -> Reports \cup {NULL}]
    /\ tab \in [Reviewers -> Tab]
    /\ \A v \in ApiUsers : tab[v].pc # "idle" => tab[v].crd # NULL
    /\ reviews \subseteq Review
    /\ clock \in Nat
    /\ shown \subseteq AllTraces \X Reports
    /\ again \subseteq Reports

Init ==
    /\ Jobs!Init
    /\ rows = [r \in RunIds |-> NoRow]
    /\ results = 0
    /\ sample = [t \in SeedTraces |-> NULL]
    /\ tab = [v \in Reviewers |-> Blank]
    /\ reviews = {}
    /\ clock = 0
    /\ shown = {}
    /\ again = {}

RowsWith(t) == {r \in RunIds : Live(r) /\ rows[r].trace = t}

-----------------------------------------------------------------------------
(* The rows. *)

\* A result with this hash is stored.
Stored(row, hash) == [row EXCEPT !.hash = hash, !.done = results + 1]

\* This report was a row's before, of another trace or until another report
\* took its place or the row was deleted.
ComesAgain(t, hash) ==
    \/ \E u \in AllTraces \ {t} : <<u, hash>> \in shown
    \/ <<t, hash>> \in shown /\ \A r \in RowsWith(t) : rows[r].hash # hash

\* From now on rows of t have held this report; without a redline it is none.
Shows(t, hash) ==
    /\ shown' = IF hash = NULL THEN shown ELSE shown \cup {<<t, hash>>}
    /\ again' = IF hash # NULL /\ ComesAgain(t, hash) THEN again \cup {hash} ELSE again

SubmitAnyTrace(r, t, c) ==     \* mutant: the index on trace_id is not unique
    /\ Jobs!Enqueue(r)
    /\ rows' = [rows EXCEPT ![r] = [NoRow EXCEPT !.trace = t, !.crd = c]]
    /\ UNCHANGED <<results, sample, tab, reviews, clock, history>>

Submit(r, t, c) ==
    /\ Jobs!Enqueue(r)
    /\ RowsWith(t) = {}
    /\ rows' = [rows EXCEPT ![r] = [NoRow EXCEPT !.trace = t, !.crd = c]]
    /\ UNCHANGED <<results, sample, tab, reviews, clock, history>>

\* A worker starts or fails a run, or the reaper fails some.
Work ==
    /\ \/ \E r \in RunIds : Jobs!Start(r) \/ Jobs!Settle(r, "failed")
       \/ \E S \in SUBSET RunIds \ {{}} : Jobs!Sweep(S)
    /\ UNCHANGED <<rows, results, sample, tab, reviews, clock, history>>

\* Without a redline there is no hash.
Complete(r) ==
    /\ results < MaxResults
    /\ Jobs!Settle(r, "complete")
    /\ \E hash \in Reports \cup {NULL} :
          /\ rows' = [rows EXCEPT ![r] = Stored(@, hash)]
          /\ Shows(rows[r].trace, hash)
    /\ results' = results + 1
    /\ UNCHANGED <<sample, tab, reviews, clock>>

Purge(r) ==
    /\ Jobs!Purge(r)
    /\ rows' = [rows EXCEPT ![r] = NoRow]
    /\ UNCHANGED <<results, sample, tab, reviews, clock, history>>

\* Somebody replaces the sample file.
Refresh(t) ==
    /\ \E hash \in Reports : sample' = [sample EXCEPT ![t] = hash]
    /\ UNCHANGED <<status, rows, results, tab, reviews, clock, history>>

\* The seed script inserts a complete row, or overwrites the result of the
\* row that has the trace id (the draft's firm too; the filed one's firm
\* stays, which is c = the row's).
Seed(r, t, c) ==
    /\ results < MaxResults
    /\ sample[t] # NULL
    /\ \/ /\ status[r] = "absent"
          /\ RowsWith(t) = {}
          /\ rows' = [rows EXCEPT ![r] =
                        Stored([NoRow EXCEPT !.trace = t, !.crd = c], sample[t])]
       \/ /\ r \in RowsWith(t)
          /\ rows' = [rows EXCEPT ![r] = Stored([@ EXCEPT !.crd = c], sample[t])]
    /\ status' = [status EXCEPT ![r] = "complete"]
    /\ Shows(t, sample[t])
    /\ results' = results + 1
    /\ UNCHANGED <<sample, tab, reviews, clock>>

-----------------------------------------------------------------------------
(* The reviewers. *)

HistoryOf(t) == {d.ts : d \in {e \in reviews : e.trace = t}}

HasForm(row) == TRUE      \* mutant: the form is always offered

CanDecide(row) == row.hash # NULL

\* GET /review/{trace_id}: hash and history; the frame is fetched next.
OpenPage(v, r) ==
    /\ v \notin ApiUsers
    /\ tab[v].pc # "posting"
    /\ Live(r)
    /\ CanDecide(rows[r])
    /\ tab' = [tab EXCEPT ![v] =
                 [Blank EXCEPT !.pc = "page", !.trace = rows[r].trace,
                               !.hash = rows[r].hash,
                               !.history = HistoryOf(rows[r].trace)]]
    /\ UNCHANGED <<status, rows, results, sample, reviews, clock, history>>

\* GET /review/{trace_id}/redline.html: the report the row holds now.  If
\* there is none any more the reviewer sees an error and leaves.
LoadFrame(v) ==
    /\ tab[v].pc = "page"
    /\ \/ \E r \in RowsWith(tab[v].trace) :
             /\ rows[r].hash # NULL
             /\ tab' = [tab EXCEPT ![v].pc = "reading", ![v].shown = rows[r].hash]
       \/ /\ \A r \in RowsWith(tab[v].trace) : rows[r].hash = NULL
          /\ tab' = [tab EXCEPT ![v] = Blank]
    /\ UNCHANGED <<status, rows, results, sample, reviews, clock, history>>

\* GET /pipeline/run/{trace_id}.
FetchRun(v, r) ==
    /\ v \in ApiUsers
    /\ tab[v].pc # "posting"
    /\ Live(r)
    /\ rows[r].hash # NULL
    /\ tab' = [tab EXCEPT ![v] =
                 [Blank EXCEPT !.pc = "reading", !.trace = rows[r].trace,
                               !.crd = rows[r].crd, !.hash = rows[r].hash,
                               !.shown = rows[r].hash]]
    /\ UNCHANGED <<status, rows, results, sample, reviews, clock, history>>

\* GET /report/decision/{trace_id}.
ListDecisions(v) ==
    /\ v \in ApiUsers
    /\ tab[v].pc = "reading"
    /\ tab' = [tab EXCEPT ![v].history = HistoryOf(tab[v].trace)]
    /\ UNCHANGED <<status, rows, results, sample, reviews, clock, history>>

NowAtImport == 0          \* mutant: the default is computed once

Now == clock + 1

HashOfRow(v, r) ==        \* mutant: the row's hash, if it has one
    IF rows[r].hash # NULL THEN rows[r].hash ELSE tab[v].hash

HashOfForm(v, r) == tab[v].hash

\* The HumanReview object, time-stamped when it is built.
Decision(v, d, c, h) ==
    [trace |-> tab[v].trace, crd |-> c, decision |-> d, hash |-> h, ts |-> Now,
     saw |-> tab[v].shown, history |-> tab[v].history]

Posts(v, review) ==
    /\ clock < MaxDecisions
    /\ tab' = [tab EXCEPT ![v].pc = "posting", ![v].post = review]
    /\ clock' = clock + 1
    /\ UNCHANGED <<status, rows, results, sample, reviews, history>>

\* POST /review/{trace_id}/decide: the hash is the form's, the firm is the
\* row's, which must exist.
DecideForm(v, d) ==
    /\ v \notin ApiUsers
    /\ tab[v].pc = "reading"
    /\ \E r \in RowsWith(tab[v].trace) :
          Posts(v, Decision(v, d, rows[r].crd, HashOfForm(v, r)))

\* The row is gone: 404, and the page is of no use any more.
DecideNotFound(v) ==
    /\ v \notin ApiUsers
    /\ tab[v].pc = "reading"
    /\ RowsWith(tab[v].trace) = {}
    /\ tab' = [tab EXCEPT ![v] = Blank]
    /\ UNCHANGED <<status, rows, results, sample, reviews, clock, history>>

\* POST /report/decision takes everything from the body.
DecideApi(v, d) ==
    /\ v \in ApiUsers
    /\ tab[v].pc = "reading"
    /\ Posts(v, Decision(v, d, tab[v].crd, tab[v].hash))

\* The commit.  The API returns the row; the page renders its panel again
\* with the new history, and the hash in its form and the report in its frame
\* stay.
Record(v) ==
    /\ tab[v].pc = "posting"
    /\ reviews' = reviews \cup {tab[v].post}
    /\ tab' = [tab EXCEPT
                 ![v].pc = "reading", ![v].post = NULL,
                 ![v].history = {tab[v].post.ts} \cup
                     IF v \in ApiUsers THEN @ ELSE HistoryOf(tab[v].trace)]
    /\ UNCHANGED <<status, rows, results, sample, clock, history>>

\* The commit fails and the reviewer is told.
RecordFails(v) ==
    /\ tab[v].pc = "posting"
    /\ tab' = [tab EXCEPT ![v].pc = "reading", ![v].post = NULL]
    /\ UNCHANGED <<status, rows, results, sample, reviews, clock, history>>

-----------------------------------------------------------------------------
Table ==
    \/ Work
    \/ \E r \in RunIds :
          \/ Complete(r)
          \/ Purge(r)
          \/ \E c \in Crds : \/ \E t \in Traces : Submit(r, t, c)
                             \/ \E t \in SeedTraces : Seed(r, t, c)
    \/ \E t \in SeedTraces : Refresh(t)

Reviewing ==
    \E v \in Reviewers :
       \/ \E r \in RunIds : OpenPage(v, r) \/ FetchRun(v, r)
       \/ LoadFrame(v)
       \/ \E d \in Decisions : DecideForm(v, d) \/ DecideApi(v, d)
       \/ ListDecisions(v)
       \/ DecideNotFound(v)
       \/ Record(v)
       \/ RecordFails(v)

Next == Table \/ Reviewing

Spec == Init /\ [][Next]_vars

-----------------------------------------------------------------------------
(* Properties. *)

\* What an operator asks to know whether a firm is approved (ADR 0011,
\* section 7): its latest decision, and its latest complete run.
IsLatestDecision(d, c) ==
    /\ d \in reviews /\ d.crd = c
    /\ \A e \in reviews : e.crd = c => e.ts <= d.ts

IsLatestRun(r, c) ==
    /\ status[r] = "complete" /\ rows[r].crd = c
    /\ \A q \in RunIds :
          status[q] = "complete" /\ rows[q].crd = c => rows[q].done <= rows[r].done

Releases(d, r, c) ==
    /\ IsLatestDecision(d, c)
    /\ IsLatestRun(r, c)
    /\ d.decision = "approved"
    /\ d.hash = rows[r].hash

(***************************************************************************)
(* A report that may leave the system was in front of the reviewer who     *)
(* approved it.  A decision made on a page whose row was rewritten, or     *)
(* deleted and run again, between page, frame and post pins a hash that    *)
(* the release rule does not accept (ADR 0010, section 4), until a result  *)
(* with that hash is stored once more: only a report that came again can   *)
(* be released unseen.                                                     *)
(***************************************************************************)
ReleasedWasSeen ==
    \A c \in Crds, d \in reviews, r \in RunIds :
        Releases(d, r, c) => d.saw = rows[r].hash \/ rows[r].hash \in again

(***************************************************************************)
(* A decision sorts after every decision its reviewer could see when it    *)
(* was made, so "approved" after having read a rejection supersedes it     *)
(* and not the other way round.  Time stamps are taken in the handlers,    *)
(* which run in several threads, and not by the commit.                    *)
(***************************************************************************)
SupersedesWhatItSaw ==
    \A d \in reviews : \A ts \in d.history : ts < d.ts

(***************************************************************************)
(* The rows change here as PipelineJobs has been shown to change them: a   *)
(* step is one JobTable allows, or the seed script's, the only writer that *)
(* replaces a result or inserts a row that is complete.                    *)
(***************************************************************************)
Shared == INSTANCE JobTable WITH
    Traces <- AllTraces,
    Stores <- Crds \X (Reports \cup {NULL}),
    row <- [r \in RunIds |->
              [trace |-> rows[r].trace, crd |-> rows[r].crd, result |-> rows[r].hash]]

RowsAreShared ==
    /\ Shared!TableInit
    /\ [][\/ Shared!TableNext
          \/ \E r \in RunIds, t \in SeedTraces, c \in Crds : Seed(r, t, c)]_<<status, rows>>

(***************************************************************************)
(* main.py: "the audit row pins to the exact bytes the reviewer saw".      *)
(* Does not hold for the web page: form and frame are two requests, and    *)
(* the row can be rewritten between them.                                  *)
(***************************************************************************)
PinnedToWhatWasSeen == \A d \in reviews : d.hash = d.saw
=============================================================================
