-------------------------- MODULE ReviewGateProofs --------------------------
(* Proofs about ReviewGate, for every value of its constants. *)
EXTENDS ReviewGate, TLAPS

LEMMA InitType == Init => TypeOK
  <1>. SUFFICES ASSUME Init PROVE TypeOK
    OBVIOUS
  <1>1. NoRow \in Row
    BY DEF NoRow, Row
  <1>2. Blank \in Tab
    BY NullIsNew DEF Blank, Tab
  <1>3. status \in [RunIds -> Jobs!Statuses] /\ \A r \in RunIds : ~Live(r)
    BY DEF Init, Jobs!Init, Jobs!Statuses, Live
  <1>4. \A v \in Reviewers : tab[v].pc = "idle"
    BY DEF Init, Blank
  <1>. QED
    BY <1>1, <1>2, <1>3, <1>4, ApiUsersAssumption DEF Init, TypeOK

\* The steps that touch the table and leave the reviewers alone.
LEMMA RowType ==
  ASSUME TypeOK, NEW r \in RunIds, NEW s \in Jobs!Statuses, NEW row \in Row,
         status' = [status EXCEPT ![r] = s], rows' = [rows EXCEPT ![r] = row],
         IF s \in {"absent", "deleted"} THEN row = NoRow
                                        ELSE row.trace # NULL /\ row.crd # NULL
  PROVE  /\ status' \in [RunIds -> Jobs!Statuses]
         /\ rows' \in [RunIds -> Row]
         /\ \A q \in RunIds :
               IF Live(q)' THEN rows'[q].trace # NULL /\ rows'[q].crd # NULL
                           ELSE rows'[q] = NoRow
  BY DEF TypeOK, Live

LEMMA SubmitType ==
  ASSUME TypeOK, NEW r \in RunIds, NEW t \in Traces, NEW c \in Crds, Submit(r, t, c)
  PROVE  TypeOK'
  <1>. DEFINE row == [NoRow EXCEPT !.trace = t, !.crd = c]
  <1>1. row \in Row /\ row.trace # NULL /\ row.crd # NULL
    BY NullIsNew DEF NoRow, Row, AllTraces
  <1>2. /\ status' = [status EXCEPT ![r] = "queued"]
        /\ rows' = [rows EXCEPT ![r] = row]
    BY DEF Submit, Jobs!Enqueue
  <1>3. "queued" \in Jobs!Statuses
    BY DEF Jobs!Statuses
  <1>. HIDE DEF row
  <1>. QED
    BY <1>1, <1>2, <1>3, RowType DEF TypeOK, Submit, history

LEMMA WorkType ==
  ASSUME TypeOK, Work
  PROVE  TypeOK'
  <1>1. /\ status' \in [RunIds -> Jobs!Statuses]
        /\ \A r \in RunIds : Live(r)' = Live(r)
    <2>1. CASE \E r \in RunIds : Jobs!Start(r) \/ Jobs!Settle(r, "failed")
      BY <2>1 DEF TypeOK, Live, Jobs!Start, Jobs!Settle, Jobs!Statuses, Jobs!Terminal
    <2>2. CASE \E S \in SUBSET RunIds \ {{}} : Jobs!Sweep(S)
      BY <2>2 DEF TypeOK, Live, Jobs!Sweep, Jobs!Statuses, Jobs!Terminal
    <2>. QED
      BY <2>1, <2>2 DEF Work
  <1>. QED
    BY <1>1 DEF TypeOK, Work, history

LEMMA ShowsType ==
  ASSUME TypeOK, NEW t \in AllTraces, NEW hash \in Reports \cup {NULL}, Shows(t, hash)
  PROVE  shown' \subseteq AllTraces \X Reports /\ again' \subseteq Reports
  BY DEF TypeOK, Shows

LEMMA CompleteType ==
  ASSUME TypeOK, NEW r \in RunIds, Complete(r)
  PROVE  TypeOK'
  <1>1. PICK hash \in Reports \cup {NULL} :
          rows' = [rows EXCEPT ![r] = Stored(@, hash)] /\ Shows(rows[r].trace, hash)
    BY DEF Complete
  <1>. DEFINE row == Stored(rows[r], hash)
  <1>2. Live(r)
    BY DEF Complete, Jobs!Settle, Live
  <1>3. row \in Row /\ row.trace # NULL /\ row.crd # NULL
    <2>1. /\ rows[r] \in Row /\ rows[r].trace # NULL /\ rows[r].crd # NULL
          /\ results + 1 \in Nat
      BY <1>2 DEF TypeOK
    <2>. QED
      BY <2>1 DEF Stored, Row
  <1>4. /\ status' = [status EXCEPT ![r] = "complete"]
        /\ rows' = [rows EXCEPT ![r] = row]
        /\ "complete" \in Jobs!Statuses
    BY <1>1 DEF Complete, Jobs!Settle, Jobs!Statuses, Jobs!Terminal
  <1>. HIDE DEF row
  <1>5. "complete" \notin {"absent", "deleted"}
    OBVIOUS
  <1>6. /\ status' \in [RunIds -> Jobs!Statuses] /\ rows' \in [RunIds -> Row]
        /\ \A q \in RunIds :
              IF Live(q)' THEN rows'[q].trace # NULL /\ rows'[q].crd # NULL
                          ELSE rows'[q] = NoRow
    BY <1>3, <1>4, <1>5, RowType
  <1>7. results' \in Nat
    BY DEF TypeOK, Complete
  <1>8. rows[r].trace \in AllTraces
    BY <1>2 DEF TypeOK, Row
  <1>9. shown' \subseteq AllTraces \X Reports /\ again' \subseteq Reports
    BY <1>1, <1>8, ShowsType
  <1>. QED
    BY <1>6, <1>7, <1>9 DEF TypeOK, Complete

LEMMA PurgeType ==
  ASSUME TypeOK, NEW r \in RunIds, Purge(r)
  PROVE  TypeOK'
  <1>1. NoRow \in Row /\ "deleted" \in Jobs!Statuses
    BY DEF NoRow, Row, Jobs!Statuses
  <1>2. status' = [status EXCEPT ![r] = "deleted"] /\ rows' = [rows EXCEPT ![r] = NoRow]
    BY DEF Purge, Jobs!Purge
  <1>. QED
    BY <1>1, <1>2, RowType DEF TypeOK, Purge, history

\* What the seed script writes.
LEMMA SeedRow ==
  ASSUME TypeOK, NEW r \in RunIds, NEW t \in SeedTraces, NEW c \in Crds, Seed(r, t, c)
  PROVE  \E row \in Row : /\ row.trace = t /\ row.crd = c /\ row.hash = sample[t]
                          /\ rows' = [rows EXCEPT ![r] = row]
  <1>1. results + 1 \in Nat /\ sample[t] \in Reports \cup {NULL}
    BY DEF TypeOK
  <1>2. CASE rows' = [rows EXCEPT ![r] =
                        Stored([NoRow EXCEPT !.trace = t, !.crd = c], sample[t])]
    <2>. DEFINE row == Stored([NoRow EXCEPT !.trace = t, !.crd = c], sample[t])
    <2>1. row \in Row /\ row.trace = t /\ row.crd = c /\ row.hash = sample[t]
      BY <1>1 DEF Stored, NoRow, Row, AllTraces
    <2>. QED
      BY <1>2, <2>1
  <1>3. CASE /\ r \in RowsWith(t)
             /\ rows' = [rows EXCEPT ![r] = Stored([@ EXCEPT !.crd = c], sample[t])]
    <2>. DEFINE row == Stored([rows[r] EXCEPT !.crd = c], sample[t])
    <2>1. row \in Row /\ row.trace = t /\ row.crd = c /\ row.hash = sample[t]
      BY <1>1, <1>3 DEF TypeOK, RowsWith, Stored, Row
    <2>. QED
      BY <1>3, <2>1
  <1>. QED
    BY <1>2, <1>3 DEF Seed

LEMMA SeedType ==
  ASSUME TypeOK, NEW r \in RunIds, NEW t \in SeedTraces, NEW c \in Crds, Seed(r, t, c)
  PROVE  TypeOK'
  <1>1. PICK row \in Row : /\ row.trace = t /\ row.crd = c
                           /\ rows' = [rows EXCEPT ![r] = row]
    BY SeedRow
  <1>2. row.trace # NULL /\ row.crd # NULL
    BY <1>1, NullIsNew
  <1>3. status' = [status EXCEPT ![r] = "complete"] /\ "complete" \in Jobs!Statuses
    BY DEF Seed, Jobs!Statuses, Jobs!Terminal
  <1>4. /\ status' \in [RunIds -> Jobs!Statuses] /\ rows' \in [RunIds -> Row]
        /\ \A q \in RunIds :
              IF Live(q)' THEN rows'[q].trace # NULL /\ rows'[q].crd # NULL
                          ELSE rows'[q] = NoRow
    BY <1>1, <1>2, <1>3, RowType
  <1>5. results' \in Nat /\ t \in AllTraces /\ sample[t] \in Reports \cup {NULL}
    BY DEF TypeOK, Seed, AllTraces
  <1>6. shown' \subseteq AllTraces \X Reports /\ again' \subseteq Reports
    BY <1>5, ShowsType DEF Seed
  <1>. QED
    BY <1>4, <1>5, <1>6 DEF TypeOK, Seed

LEMMA RefreshType ==
  ASSUME TypeOK, NEW t \in SeedTraces, Refresh(t)
  PROVE  TypeOK'
  <1>1. sample' \in [SeedTraces -> Reports \cup {NULL}]
    BY DEF TypeOK, Refresh
  <1>. QED
    BY <1>1 DEF TypeOK, Refresh, Live, history

-----------------------------------------------------------------------------
\* The steps of a reviewer.
LEMMA TabType ==
  ASSUME TypeOK, NEW v \in Reviewers, NEW t \in Tab,
         v \in ApiUsers /\ t.pc # "idle" => t.crd # NULL,
         tab' = [tab EXCEPT ![v] = t], UNCHANGED <<status, rows, results, sample, history>>,
         reviews' \subseteq Review, clock' \in Nat
  PROVE  TypeOK'
  <1>1. tab' \in [Reviewers -> Tab]
    BY DEF TypeOK
  <1>2. \A u \in ApiUsers : tab'[u].pc # "idle" => tab'[u].crd # NULL
    BY ApiUsersAssumption DEF TypeOK
  <1>. QED
    BY <1>1, <1>2 DEF TypeOK, Live, history

LEMMA BlankType == Blank \in Tab /\ Blank.pc = "idle"
  BY NullIsNew DEF Blank, Tab

LEMMA HistoryType ==
  ASSUME TypeOK, NEW t
  PROVE  HistoryOf(t) \in SUBSET Nat
  BY DEF TypeOK, HistoryOf, Review

\* A live row with a hash, as the reviewers find it.
LEMMA ReadRow ==
  ASSUME TypeOK, NEW r \in RunIds, Live(r), rows[r].hash # NULL
  PROVE  rows[r].trace \in AllTraces /\ rows[r].crd \in Crds /\ rows[r].hash \in Reports
  BY DEF TypeOK, Row

LEMMA OpenPageType ==
  ASSUME TypeOK, NEW v \in Reviewers, NEW r \in RunIds, OpenPage(v, r)
  PROVE  TypeOK'
  <1>. DEFINE h == HistoryOf(rows[r].trace)
              t == [Blank EXCEPT !.pc = "page", !.trace = rows[r].trace,
                                 !.hash = rows[r].hash, !.history = h]
  <1>1. rows[r].trace \in AllTraces /\ rows[r].hash \in Reports
    BY ReadRow DEF OpenPage, CanDecide
  <1>2. NULL \notin AllTraces \cup Reports
    BY NullIsNew DEF AllTraces
  <1>3. h \in SUBSET Nat
    BY HistoryType
  <1>4. tab' = [tab EXCEPT ![v] = t] /\ v \notin ApiUsers
    BY DEF OpenPage
  <1>. HIDE DEF h
  <1>5. t \in Tab
    BY <1>1, <1>2, <1>3 DEF Blank, Tab
  <1>. HIDE DEF t
  <1>. QED
    BY <1>4, <1>5, TabType DEF OpenPage, TypeOK

LEMMA FetchRunType ==
  ASSUME TypeOK, NEW v \in Reviewers, NEW r \in RunIds, FetchRun(v, r)
  PROVE  TypeOK'
  <1>. DEFINE t == [Blank EXCEPT !.pc = "reading", !.trace = rows[r].trace,
                                 !.crd = rows[r].crd, !.hash = rows[r].hash,
                                 !.shown = rows[r].hash]
  <1>1. rows[r].trace \in AllTraces /\ rows[r].crd \in Crds /\ rows[r].hash \in Reports
    BY ReadRow DEF FetchRun
  <1>2. NULL \notin AllTraces \cup Reports \cup Crds
    BY NullIsNew DEF AllTraces
  <1>3. t \in Tab /\ t.crd # NULL
    BY <1>1, <1>2 DEF Blank, Tab
  <1>4. tab' = [tab EXCEPT ![v] = t]
    BY DEF FetchRun
  <1>. HIDE DEF t
  <1>. QED
    BY <1>3, <1>4, TabType DEF FetchRun, TypeOK

LEMMA LoadFrameType ==
  ASSUME TypeOK, NEW v \in Reviewers, LoadFrame(v)
  PROVE  TypeOK'
  <1>1. /\ tab[v].pc = "page" /\ tab[v] \in Tab
        /\ UNCHANGED <<status, rows, results, sample, history>>
        /\ reviews' \subseteq Review /\ clock' \in Nat
        /\ v \in ApiUsers => tab[v].crd # NULL
    BY DEF TypeOK, LoadFrame
  <1>2. CASE \E r \in RowsWith(tab[v].trace) :
               /\ rows[r].hash # NULL
               /\ tab' = [tab EXCEPT ![v].pc = "reading", ![v].shown = rows[r].hash]
    <2>1. PICK r \in RunIds :
            /\ Live(r) /\ rows[r].hash # NULL
            /\ tab' = [tab EXCEPT ![v].pc = "reading", ![v].shown = rows[r].hash]
      BY <1>2 DEF RowsWith
    <2>. DEFINE t == [tab[v] EXCEPT !.pc = "reading", !.shown = rows[r].hash]
    <2>2. t \in Tab /\ t.crd = tab[v].crd
      BY <1>1, <2>1, ReadRow, NullIsNew DEF Tab
    <2>3. tab' = [tab EXCEPT ![v] = t]
      BY <2>1
    <2>. HIDE DEF t
    <2>. QED
      BY <1>1, <2>2, <2>3, TabType
  <1>3. CASE tab' = [tab EXCEPT ![v] = Blank]
    BY <1>1, <1>3, BlankType, TabType
  <1>. QED
    BY <1>2, <1>3 DEF LoadFrame

\* The decision a handler builds is a row of human_reviews, for the trace
\* and the report the reviewer has in front of them.
LEMMA PostedRow ==
  ASSUME TypeOK, NEW v \in Reviewers, NEW d \in Decisions,
         DecideForm(v, d) \/ DecideApi(v, d)
  PROVE  \E post \in Review :
            /\ post.trace = tab[v].trace /\ post.hash = tab[v].hash
            /\ post.saw = tab[v].shown
            /\ post.history = tab[v].history /\ post.ts = clock + 1
            /\ tab[v].pc = "reading"
            /\ Posts(v, post)
  <1>1. tab[v] \in Tab /\ tab[v].pc = "reading" /\ clock + 1 \in Nat
    BY DEF TypeOK, DecideForm, DecideApi
  <1>2. /\ tab[v].trace \in AllTraces /\ tab[v].hash \in Reports
        /\ tab[v].shown \in Reports /\ tab[v].history \in SUBSET Nat
    BY <1>1 DEF Tab
  <1>3. PICK c \in Crds : Posts(v, Decision(v, d, c, tab[v].hash))
    <2>1. CASE DecideForm(v, d)
      <3>1. PICK r \in RowsWith(tab[v].trace) :
              Posts(v, Decision(v, d, rows[r].crd, tab[v].hash))
        BY <2>1 DEF DecideForm, HashOfForm
      <3>2. rows[r].crd \in Crds
        BY DEF TypeOK, RowsWith, Row
      <3>. QED
        BY <3>1, <3>2
    <2>2. CASE DecideApi(v, d)
      BY <2>2, <1>1 DEF DecideApi, TypeOK, Tab
    <2>. QED
      BY <2>1, <2>2
  <1>. DEFINE post == Decision(v, d, c, tab[v].hash)
  <1>4. /\ post \in Review
        /\ post.trace = tab[v].trace /\ post.hash = tab[v].hash
        /\ post.saw = tab[v].shown
        /\ post.history = tab[v].history /\ post.ts = clock + 1
    BY <1>1, <1>2 DEF Decision, Review, Now
  <1>. QED
    BY <1>1, <1>3, <1>4

LEMMA DecideType ==
  ASSUME TypeOK, NEW v \in Reviewers, NEW d \in Decisions,
         DecideForm(v, d) \/ DecideApi(v, d)
  PROVE  TypeOK'
  <1>1. PICK post \in Review : tab[v].pc = "reading" /\ Posts(v, post)
    BY PostedRow
  <1>. DEFINE t == [tab[v] EXCEPT !.pc = "posting", !.post = post]
  <1>2. tab[v] \in Tab /\ (v \in ApiUsers => tab[v].crd # NULL)
    BY <1>1 DEF TypeOK
  <1>4. t \in Tab /\ t.crd = tab[v].crd
    BY <1>1, <1>2, NullIsNoReview DEF Tab
  <1>5. tab' = [tab EXCEPT ![v] = t]
    BY <1>1 DEF Posts
  <1>6. clock' \in Nat /\ reviews' \subseteq Review
        /\ UNCHANGED <<status, rows, results, sample, history>>
    BY <1>1 DEF Posts, TypeOK
  <1>. HIDE DEF t
  <1>. QED
    BY <1>2, <1>4, <1>5, <1>6, TabType

LEMMA LeaveType ==
  ASSUME TypeOK, NEW v \in Reviewers, DecideNotFound(v)
  PROVE  TypeOK'
  BY BlankType, TabType DEF DecideNotFound, TypeOK

LEMMA ListType ==
  ASSUME TypeOK, NEW v \in Reviewers, ListDecisions(v)
  PROVE  TypeOK'
  <1>. DEFINE h == HistoryOf(tab[v].trace)
              t == [tab[v] EXCEPT !.history = h]
  <1>1. tab[v] \in Tab /\ (v \in ApiUsers /\ tab[v].pc # "idle" => tab[v].crd # NULL)
    BY DEF TypeOK
  <1>2. h \in SUBSET Nat
    BY HistoryType
  <1>3. tab' = [tab EXCEPT ![v] = t]
    BY DEF ListDecisions
  <1>. HIDE DEF h
  <1>4. t \in Tab /\ t.crd = tab[v].crd /\ t.pc = tab[v].pc
    BY <1>1, <1>2 DEF Tab
  <1>. HIDE DEF t
  <1>. QED
    BY <1>1, <1>3, <1>4, TabType DEF ListDecisions, TypeOK

LEMMA RecordType ==
  ASSUME TypeOK, NEW v \in Reviewers, Record(v) \/ RecordFails(v)
  PROVE  TypeOK'
  <1>1. /\ tab[v] \in Tab /\ tab[v].pc = "posting" /\ tab[v].post \in Review
        /\ v \in ApiUsers => tab[v].crd # NULL
    BY DEF TypeOK, Record, RecordFails, Tab
  <1>2. PICK h \in SUBSET Nat :
          tab' = [tab EXCEPT ![v].pc = "reading", ![v].post = NULL, ![v].history = h]
    <2>1. CASE Record(v)
      <3>. DEFINE g == {tab[v].post.ts} \cup
                         IF v \in ApiUsers THEN tab[v].history
                                           ELSE HistoryOf(tab[v].trace)
      <3>1. HistoryOf(tab[v].trace) \in SUBSET Nat
        BY HistoryType
      <3>2. g \in SUBSET Nat
        BY <1>1, <3>1 DEF Review, Tab
      <3>. QED
        BY <2>1, <3>2 DEF Record
    <2>2. CASE RecordFails(v)
      <3>1. tab[v].history \in SUBSET Nat
        BY <1>1 DEF Tab
      <3>2. tab' = [tab EXCEPT ![v] = [tab[v] EXCEPT !.pc = "reading", !.post = NULL]]
        BY <2>2 DEF RecordFails
      <3>3. [tab[v] EXCEPT !.pc = "reading", !.post = NULL] =
            [tab[v] EXCEPT !.pc = "reading", !.post = NULL, !.history = tab[v].history]
        BY <1>1 DEF Tab
      <3>. QED
        BY <3>1, <3>2, <3>3
    <2>. QED
      BY <2>1, <2>2
  <1>. DEFINE t == [tab[v] EXCEPT !.pc = "reading", !.post = NULL, !.history = h]
  <1>3. t \in Tab /\ t.crd = tab[v].crd
    BY <1>1 DEF Tab
  <1>4. tab' = [tab EXCEPT ![v] = t]
    BY <1>2
  <1>5. /\ reviews' \subseteq Review /\ clock' \in Nat
        /\ UNCHANGED <<status, rows, results, sample, history>>
    BY <1>1 DEF Record, RecordFails, TypeOK
  <1>. HIDE DEF t
  <1>. QED
    BY <1>1, <1>3, <1>4, <1>5, TabType

LEMMA TypeStep == TypeOK /\ [Next]_vars => TypeOK'
  <1>. SUFFICES ASSUME TypeOK, [Next]_vars PROVE TypeOK'
    OBVIOUS
  <1>1. CASE Table
    BY <1>1, WorkType, CompleteType, PurgeType, SubmitType, SeedType, RefreshType
       DEF Table
  <1>2. CASE Reviewing
    BY <1>2, OpenPageType, FetchRunType, LoadFrameType, DecideType, LeaveType,
       ListType, RecordType DEF Reviewing
  <1>3. CASE UNCHANGED vars
    BY <1>3 DEF vars, history, TypeOK, Live
  <1>. QED
    BY <1>1, <1>2, <1>3 DEF Next

(***************************************************************************)
(* The types, for any number of reviewers, runs and reports: in particular *)
(* a live row names its trace and its firm, and every decision has both    *)
(* and a hash.                                                             *)
(***************************************************************************)
THEOREM TypeCorrect == Spec => []TypeOK
  BY InitType, TypeStep, PTL DEF Spec

-----------------------------------------------------------------------------
(***************************************************************************)
(* The strengthening of ReleasedWasSeen.  The reports that rows and        *)
(* decisions name are in the history; one that has not come again belongs  *)
(* to one trace, and once a row of that trace showed another report, or    *)
(* was deleted, no row of the trace holds it: so when the hash of a        *)
(* decision is the hash of a row, its reviewer was shown that report.      *)
(***************************************************************************)
Submitted == reviews \cup {tab[v].post : v \in {u \in Reviewers : tab[u].post # NULL}}

OneRow == \A r, q \in RunIds : Live(r) /\ Live(q) /\ rows[r].trace = rows[q].trace => r = q

OncePerReport ==
    \A t, u \in AllTraces, h \in Reports :
       <<t, h>> \in shown /\ <<u, h>> \in shown /\ h \notin again => t = u

RowShown(r) == rows[r].hash # NULL => <<rows[r].trace, rows[r].hash>> \in shown

\* No row of t holds h, or h came again.
Gone(h, t) == h \in again \/ \A r \in RunIds : rows[r].trace = t => rows[r].hash # h

\* h was t's report when it was pinned, s the report its reviewer saw.
Pinned(h, s, t) == <<t, h>> \in shown /\ (s = h \/ Gone(h, t))

Watching(v) ==
    /\ tab[v].hash # NULL => <<tab[v].trace, tab[v].hash>> \in shown
    /\ tab[v].shown # NULL => Pinned(tab[v].hash, tab[v].shown, tab[v].trace)

Decided(d) == Pinned(d.hash, d.saw, d.trace)

IInv ==
    /\ TypeOK
    /\ OneRow
    /\ OncePerReport
    /\ \A r \in RunIds : RowShown(r)
    /\ \A v \in Reviewers : Watching(v)
    /\ \A d \in Submitted : Decided(d)

-----------------------------------------------------------------------------
(* What a step may do to the rows and to the history. *)

\* A reviewer changes nothing of the table.
LEMMA ReviewingLeaves ==
  ASSUME Reviewing
  PROVE  UNCHANGED <<status, rows, results, sample, history>>
  BY DEF Reviewing, OpenPage, FetchRun, LoadFrame, DecideForm, DecideApi, Posts,
         ListDecisions, DecideNotFound, Record, RecordFails

\* A row that has a hash had it, or is shown with it now.
LEMMA RowChange ==
  ASSUME TypeOK, [Next]_vars, NEW r \in RunIds, rows'[r].hash # NULL
  PROVE  \/ rows'[r].hash = rows[r].hash /\ rows'[r].trace = rows[r].trace
         \/ Shows(rows'[r].trace, rows'[r].hash)
  <1>. USE DEF TypeOK
  <1>1. CASE \E q \in RunIds : Complete(q)
    <2>1. PICK q \in RunIds : Complete(q)
      BY <1>1
    <2>2. PICK hash \in Reports \cup {NULL} :
            rows' = [rows EXCEPT ![q] = Stored(@, hash)] /\ Shows(rows[q].trace, hash)
      BY <2>1 DEF Complete
    <2>3. Stored(rows[q], hash).hash = hash /\ Stored(rows[q], hash).trace = rows[q].trace
      BY DEF Stored, Row
    <2>4. CASE q = r
      <3>1. rows'[r] = Stored(rows[q], hash)
        BY <2>2, <2>4
      <3>. QED
        BY <2>2, <2>3, <3>1
    <2>5. CASE q # r
      BY <2>2, <2>5
    <2>. QED
      BY <2>4, <2>5
  <1>2. CASE \E q \in RunIds, t \in SeedTraces, c \in Crds : Seed(q, t, c)
    <2>1. PICK q \in RunIds, t \in SeedTraces, c \in Crds : Seed(q, t, c)
      BY <1>2
    <2>2. PICK row \in Row : /\ row.trace = t /\ row.hash = sample[t]
                             /\ rows' = [rows EXCEPT ![q] = row]
      BY <2>1, SeedRow
    <2>3. Shows(t, sample[t])
      BY <2>1 DEF Seed
    <2>4. CASE q = r
      <3>1. rows'[r] = row
        BY <2>2, <2>4
      <3>. QED
        BY <2>2, <2>3, <3>1
    <2>5. CASE q # r
      BY <2>2, <2>5
    <2>. QED
      BY <2>4, <2>5
  <1>3. CASE \E q \in RunIds, t \in Traces, c \in Crds : Submit(q, t, c)
    <2>1. PICK q \in RunIds, t \in Traces, c \in Crds :
            rows' = [rows EXCEPT ![q] = [NoRow EXCEPT !.trace = t, !.crd = c]]
      BY <1>3 DEF Submit
    <2>2. [NoRow EXCEPT !.trace = t, !.crd = c].hash = NULL
      BY DEF NoRow
    <2>. QED
      BY <2>1, <2>2
  <1>4. CASE \E q \in RunIds : Purge(q)
    <2>1. PICK q \in RunIds : rows' = [rows EXCEPT ![q] = NoRow]
      BY <1>4 DEF Purge
    <2>. QED
      BY <2>1 DEF NoRow
  <1>5. CASE UNCHANGED rows
    BY <1>5
  <1>6. CASE Work \/ \E t \in SeedTraces : Refresh(t)
    BY <1>6, <1>5 DEF Work, Refresh
  <1>7. CASE Reviewing
    BY <1>7, <1>5, ReviewingLeaves
  <1>. QED
    BY <1>1, <1>2, <1>3, <1>4, <1>5, <1>6, <1>7 DEF Next, Table, vars

LEMMA HistoryChange ==
  ASSUME TypeOK, [Next]_vars
  PROVE  \/ UNCHANGED <<shown, again>>
         \/ \E t \in AllTraces, hash \in Reports \cup {NULL} : Shows(t, hash)
  <1>1. CASE \E r \in RunIds : Complete(r)
    <2>1. PICK r \in RunIds : Complete(r)
      BY <1>1
    <2>2. rows[r].trace \in AllTraces
      BY <2>1 DEF Complete, Jobs!Settle, TypeOK, Live, Row
    <2>. QED
      BY <2>1, <2>2 DEF Complete
  <1>2. CASE \E r \in RunIds, t \in SeedTraces, c \in Crds : Seed(r, t, c)
    BY <1>2 DEF Seed, TypeOK, AllTraces
  <1>3. CASE Reviewing
    BY <1>3, ReviewingLeaves DEF history
  <1>4. CASE \/ Work \/ UNCHANGED vars
             \/ \E r \in RunIds : Purge(r)
             \/ \E r \in RunIds, t \in Traces, c \in Crds : Submit(r, t, c)
             \/ \E t \in SeedTraces : Refresh(t)
    BY <1>4 DEF Work, Purge, Submit, Refresh, vars, history
  <1>. QED
    BY <1>1, <1>2, <1>3, <1>4 DEF Next, Table

LEMMA HistoryGrows ==
  ASSUME TypeOK, [Next]_vars
  PROVE  shown \subseteq shown' /\ again \subseteq again'
  BY HistoryChange DEF Shows

\* A report that is gone comes back as one that came again.
LEMMA GoneStep ==
  ASSUME TypeOK, [Next]_vars, NEW h \in Reports, NEW t \in AllTraces,
         <<t, h>> \in shown, Gone(h, t)
  PROVE  Gone(h, t)'
  <1>. SUFFICES ASSUME h \notin again, NEW r \in RunIds, rows'[r].trace = t, rows'[r].hash = h
                PROVE  h \in again'
    BY HistoryGrows DEF Gone
  <1>1. h # NULL
    BY NullIsNew
  <1>2. \A q \in RowsWith(t) : rows[q].hash # h
    BY DEF Gone, RowsWith
  <1>3. Shows(t, h)
    BY <1>1, <1>2, RowChange DEF Gone
  <1>. QED
    BY <1>1, <1>2, <1>3 DEF Shows, ComesAgain

LEMMA PinnedStep ==
  ASSUME TypeOK, [Next]_vars, NEW h \in Reports, NEW s, NEW t \in AllTraces, Pinned(h, s, t)
  PROVE  /\ <<t, h>> \in shown'
         /\ s = h \/ Gone(h, t)'
  BY GoneStep, HistoryGrows DEF Pinned

-----------------------------------------------------------------------------
(* What a step may do to the tabs and the decisions. *)

\* A tab keeps its trace, hash and report, is closed, or opens a page or a
\* frame on a row as it is.
LEMMA TabChange ==
  ASSUME TypeOK, [Next]_vars, NEW v \in Reviewers
  PROVE  \/ /\ tab'[v].trace = tab[v].trace /\ tab'[v].hash = tab[v].hash
            /\ tab'[v].shown = tab[v].shown
         \/ tab'[v] = Blank
         \/ \E r \in RunIds :
               /\ UNCHANGED <<rows, shown, again>>
               /\ Live(r) /\ rows[r].hash # NULL
               /\ tab'[v].trace = rows[r].trace /\ tab'[v].hash = rows[r].hash
               /\ tab'[v].shown \in {NULL, rows[r].hash}
         \/ \E r \in RowsWith(tab[v].trace) :
               /\ UNCHANGED <<rows, shown, again>>
               /\ rows[r].hash # NULL /\ tab[v].pc = "page"
               /\ tab'[v].trace = tab[v].trace /\ tab'[v].hash = tab[v].hash
               /\ tab'[v].shown = rows[r].hash
  <1>. USE DEF TypeOK
  <1>0. tab[v] \in Tab
    OBVIOUS
  <1>1. CASE \E u \in Reviewers, r \in RunIds : OpenPage(u, r)
    BY <1>1 DEF OpenPage, CanDecide, Blank, history
  <1>2. CASE \E u \in Reviewers, r \in RunIds : FetchRun(u, r)
    BY <1>2 DEF FetchRun, Blank, history
  <1>3. CASE \E u \in Reviewers : LoadFrame(u)
    BY <1>3, <1>0 DEF LoadFrame, Tab, history
  <1>4. CASE \E u \in Reviewers, d \in Decisions : DecideForm(u, d) \/ DecideApi(u, d)
    BY <1>4, <1>0 DEF DecideForm, DecideApi, Posts, Tab
  <1>5. CASE \E u \in Reviewers : DecideNotFound(u)
    BY <1>5 DEF DecideNotFound
  <1>6. CASE \E u \in Reviewers : ListDecisions(u)
    BY <1>6, <1>0 DEF ListDecisions, Tab
  <1>7. CASE \E u \in Reviewers : Record(u)
    BY <1>7, <1>0 DEF Record, Tab
  <1>8. CASE \E u \in Reviewers : RecordFails(u)
    BY <1>8, <1>0 DEF RecordFails, Tab
  <1>9. CASE Table \/ UNCHANGED vars
    BY <1>9 DEF Table, vars, Work, Complete, Purge, Submit, Seed, Refresh
  <1>. QED
    BY <1>1, <1>2, <1>3, <1>4, <1>5, <1>6, <1>7, <1>8, <1>9 DEF Next, Reviewing

\* A decision submitted was submitted before, or pins the tab it comes from.
LEMMA SubmittedChange ==
  ASSUME TypeOK, [Next]_vars, NEW d \in Submitted'
  PROVE  \/ d \in Submitted
         \/ \E v \in Reviewers :
               /\ tab[v].pc = "reading"
               /\ d.trace = tab[v].trace /\ d.hash = tab[v].hash /\ d.saw = tab[v].shown
  <1>. USE DEF TypeOK
  <1>0. \A v \in Reviewers : tab[v] \in Tab
    OBVIOUS
  <1>1. CASE \E v \in Reviewers, e \in Decisions : DecideForm(v, e) \/ DecideApi(v, e)
    <2>1. PICK v \in Reviewers, e \in Decisions : DecideForm(v, e) \/ DecideApi(v, e)
      BY <1>1
    <2>2. PICK post \in Review :
            /\ post.trace = tab[v].trace /\ post.hash = tab[v].hash
            /\ post.saw = tab[v].shown /\ tab[v].pc = "reading" /\ Posts(v, post)
      BY <2>1, PostedRow
    <2>3. reviews' = reviews /\ tab' = [tab EXCEPT ![v].pc = "posting", ![v].post = post]
      BY <2>2 DEF Posts
    <2>4. \A u \in Reviewers : tab'[u].post = tab[u].post \/ tab'[u].post = post
      BY <1>0, <2>3 DEF Tab
    <2>. QED
      BY <2>2, <2>3, <2>4 DEF Submitted
  <1>2. CASE \E v \in Reviewers : Record(v)
    <2>1. PICK v \in Reviewers : Record(v)
      BY <1>2
    <2>2. tab[v].post \in Submitted
      BY <2>1, <1>0 DEF Submitted, Record, Tab
    <2>3. \A u \in Reviewers : tab'[u].post = tab[u].post \/ tab'[u].post = NULL
      BY <2>1, <1>0 DEF Record, Tab
    <2>. QED
      BY <2>1, <2>2, <2>3 DEF Submitted, Record
  <1>3. ASSUME reviews' = reviews,
               \A u \in Reviewers : tab'[u].post = tab[u].post \/ tab'[u].post = NULL
        PROVE  d \in Submitted
    BY <1>3 DEF Submitted
  <1>4. ASSUME NEW v \in Reviewers,
               \/ \E r \in RunIds : OpenPage(v, r) \/ FetchRun(v, r)
               \/ LoadFrame(v) \/ ListDecisions(v)
               \/ DecideNotFound(v) \/ RecordFails(v)
        PROVE  d \in Submitted
    <2>1. reviews' = reviews
      BY <1>4 DEF OpenPage, FetchRun, LoadFrame, ListDecisions, DecideNotFound,
                  RecordFails
    <2>2. ASSUME NEW u \in Reviewers
          PROVE  tab'[u].post = tab[u].post \/ tab'[u].post = NULL
      <3>2. CASE \E r \in RunIds : OpenPage(v, r)
        BY <3>2 DEF OpenPage, Blank
      <3>3. CASE \E r \in RunIds : FetchRun(v, r)
        BY <3>3 DEF FetchRun, Blank
      <3>4. CASE LoadFrame(v)
        BY <3>4, <1>0 DEF LoadFrame, Blank, Tab
      <3>5. CASE ListDecisions(v) \/ RecordFails(v)
        BY <3>5, <1>0 DEF ListDecisions, RecordFails, Tab
      <3>6. CASE DecideNotFound(v)
        BY <3>6 DEF DecideNotFound, Blank
      <3>. QED
        BY <1>4, <3>2, <3>3, <3>4, <3>5, <3>6, Zenon
    <2>. QED
      BY <2>1, <2>2, <1>3
  <1>5. CASE Table \/ UNCHANGED vars
    <2>1. reviews' = reviews /\ tab' = tab
      BY <1>5 DEF Table, vars, Work, Complete, Purge, Submit, Seed, Refresh
    <2>. QED
      BY <2>1 DEF Submitted
  <1>6. CASE Reviewing
    <2>1. PICK v \in Reviewers :
             \/ \E r \in RunIds : OpenPage(v, r) \/ FetchRun(v, r)
             \/ LoadFrame(v)
             \/ \E e \in Decisions : DecideForm(v, e) \/ DecideApi(v, e)
             \/ ListDecisions(v) \/ DecideNotFound(v) \/ Record(v) \/ RecordFails(v)
      BY <1>6, Zenon DEF Reviewing
    <2>2. CASE \E e \in Decisions : DecideForm(v, e) \/ DecideApi(v, e)
      BY <2>2, <1>1, Zenon
    <2>3. CASE Record(v)
      BY <2>3, <1>2, Zenon
    <2>4. CASE \/ \E r \in RunIds : OpenPage(v, r) \/ FetchRun(v, r)
               \/ LoadFrame(v) \/ ListDecisions(v)
               \/ DecideNotFound(v) \/ RecordFails(v)
      BY <2>4, <1>4, Zenon
    <2>. QED
      BY <2>1, <2>2, <2>3, <2>4, Zenon
  <1>. QED
    BY <1>5, <1>6 DEF Next

-----------------------------------------------------------------------------
(* The invariant. *)

LEMMA OneRowStep ==
  ASSUME TypeOK, OneRow, [Next]_vars
  PROVE  OneRow'
  <1>. USE DEF TypeOK
  <1>1. CASE \E r \in RunIds, t \in Traces, c \in Crds : Submit(r, t, c)
    <2>1. PICK r \in RunIds, t \in Traces, c \in Crds : Submit(r, t, c)
      BY <1>1
    <2>2. [NoRow EXCEPT !.trace = t, !.crd = c].trace = t
      BY DEF NoRow
    <2>. QED
      BY <2>1, <2>2, NullIsNew
         DEF Submit, Jobs!Enqueue, OneRow, Live, RowsWith
  <1>2. CASE \E r \in RunIds, t \in SeedTraces, c \in Crds : Seed(r, t, c)
    <2>1. PICK r \in RunIds, t \in SeedTraces, c \in Crds : Seed(r, t, c)
      BY <1>2
    <2>2. PICK row \in Row : row.trace = t /\ rows' = [rows EXCEPT ![r] = row]
      BY <2>1, SeedRow
    <2>3. status' = [status EXCEPT ![r] = "complete"]
      BY <2>1 DEF Seed
    <2>4. \A q \in RunIds : Live(q) /\ rows[q].trace = t => q = r
      BY <2>1 DEF Seed, RowsWith, OneRow
    <2>. QED
      BY <2>2, <2>3, <2>4, NullIsNew DEF OneRow, Live
  <1>3. CASE \E r \in RunIds : Complete(r)
    <2>1. PICK r \in RunIds : Complete(r)
      BY <1>3
    <2>2. PICK hash \in Reports \cup {NULL} :
            rows' = [rows EXCEPT ![r] = Stored(@, hash)]
      BY <2>1 DEF Complete
    <2>3. \A q \in RunIds : rows'[q].trace = rows[q].trace
      BY <2>2 DEF Stored, Row
    <2>4. status' = [status EXCEPT ![r] = "complete"] /\ Live(r)
      BY <2>1 DEF Complete, Jobs!Settle, Live
    <2>. QED
      BY <2>3, <2>4 DEF OneRow, Live
  <1>4. CASE \E r \in RunIds : Purge(r)
    <2>1. PICK r \in RunIds : status' = [status EXCEPT ![r] = "deleted"]
                              /\ rows' = [rows EXCEPT ![r] = NoRow]
      BY <1>4 DEF Purge, Jobs!Purge
    <2>. QED
      BY <2>1, NullIsNew DEF OneRow, Live, NoRow
  <1>5. CASE Work
    <2>1. rows' = rows
      BY <1>5 DEF Work
    <2>2. \A r \in RunIds : Live(r)' = Live(r)
      <3>1. CASE \E r \in RunIds : Jobs!Start(r) \/ Jobs!Settle(r, "failed")
        BY <3>1 DEF Live, Jobs!Start, Jobs!Settle
      <3>2. CASE \E S \in SUBSET RunIds \ {{}} : Jobs!Sweep(S)
        BY <3>2 DEF Live, Jobs!Sweep
      <3>. QED
        BY <1>5, <3>1, <3>2 DEF Work
    <2>. QED
      BY <2>1, <2>2 DEF OneRow
  <1>6. CASE UNCHANGED <<status, rows>>
    BY <1>6 DEF OneRow, Live
  <1>7. CASE Reviewing \/ UNCHANGED vars \/ \E t \in SeedTraces : Refresh(t)
    BY <1>7, <1>6, ReviewingLeaves DEF vars, Refresh
  <1>. HIDE DEF TypeOK
  <1>. QED
    BY <1>1, <1>2, <1>3, <1>4, <1>5, <1>7 DEF Next, Table

LEMMA OncePerReportStep ==
  ASSUME TypeOK, OncePerReport, [Next]_vars
  PROVE  OncePerReport'
  <1>. SUFFICES ASSUME NEW t \in AllTraces, NEW u \in AllTraces, NEW h \in Reports,
                       <<t, h>> \in shown', <<u, h>> \in shown', h \notin again'
                PROVE  t = u
    BY DEF OncePerReport
  <1>1. h \notin again
    BY HistoryGrows
  <1>2. CASE UNCHANGED <<shown, again>>
    BY <1>1, <1>2 DEF OncePerReport
  <1>3. CASE \E x \in AllTraces, hash \in Reports \cup {NULL} : Shows(x, hash)
    <2>1. PICK x \in AllTraces, hash \in Reports \cup {NULL} : Shows(x, hash)
      BY <1>3
    <2>2. CASE hash = h /\ h # NULL
      <3>1. \A y \in AllTraces : <<y, h>> \in shown => y = x
        BY <2>1, <2>2 DEF Shows, ComesAgain
      <3>2. \A y \in AllTraces : <<y, h>> \in shown' => y = x
        BY <2>1, <2>2, <3>1 DEF Shows
      <3>. QED
        BY <3>2
    <2>3. CASE ~(hash = h /\ h # NULL)
      <3>1. <<t, h>> \in shown /\ <<u, h>> \in shown
        BY <2>1, <2>3, NullIsNew DEF Shows
      <3>. QED
        BY <1>1, <3>1 DEF OncePerReport
    <2>. QED
      BY <2>2, <2>3
  <1>. QED
    BY <1>2, <1>3, HistoryChange

LEMMA RowShownStep ==
  ASSUME TypeOK, [Next]_vars, NEW r \in RunIds, RowShown(r)
  PROVE  RowShown(r)'
  BY RowChange, HistoryGrows DEF RowShown, Shows

LEMMA WatchingStep ==
  ASSUME IInv, TypeOK', [Next]_vars, NEW v \in Reviewers
  PROVE  Watching(v)'
  <1>0. TypeOK /\ tab[v] \in Tab /\ Watching(v)
    BY DEF IInv, TypeOK
  <1>1. CASE /\ tab'[v].trace = tab[v].trace /\ tab'[v].hash = tab[v].hash
             /\ tab'[v].shown = tab[v].shown
    <2>1. tab[v].hash # NULL => <<tab[v].trace, tab[v].hash>> \in shown'
      BY <1>0, HistoryGrows DEF Watching
    <2>2. ASSUME tab[v].shown # NULL
          PROVE  Pinned(tab[v].hash, tab[v].shown, tab[v].trace)'
      <3>1. PICK h \in Reports, t \in AllTraces, g \in Reports :
              h = tab[v].hash /\ t = tab[v].trace /\ g = tab[v].shown
        BY <1>0, <2>2 DEF Tab
      <3>2. Pinned(h, g, t)
        BY <1>0, <2>2, <3>1 DEF Watching
      <3>3. h = tab'[v].hash /\ t = tab'[v].trace /\ g = tab'[v].shown
        BY <1>1, <3>1
      <3>4. <<t, h>> \in shown' /\ (g = h \/ Gone(h, t)')
        BY <1>0, <3>2, PinnedStep
      <3>. QED
        BY <3>3, <3>4 DEF Pinned, Gone
    <2>. QED
      BY <1>1, <2>1, <2>2 DEF Watching
  <1>2. CASE tab'[v] = Blank
    BY <1>2 DEF Watching, Blank
  <1>3. CASE \E r \in RunIds :
               /\ UNCHANGED <<rows, shown, again>>
               /\ Live(r) /\ rows[r].hash # NULL
               /\ tab'[v].trace = rows[r].trace /\ tab'[v].hash = rows[r].hash
               /\ tab'[v].shown \in {NULL, rows[r].hash}
    BY <1>3 DEF IInv, RowShown, Watching, Pinned
  <1>4. CASE \E r \in RowsWith(tab[v].trace) :
               /\ UNCHANGED <<rows, shown, again>>
               /\ rows[r].hash # NULL /\ tab[v].pc = "page"
               /\ tab'[v].trace = tab[v].trace /\ tab'[v].hash = tab[v].hash
               /\ tab'[v].shown = rows[r].hash
    <2>1. PICK r \in RunIds :
            /\ UNCHANGED <<rows, shown, again>>
            /\ Live(r) /\ rows[r].trace = tab[v].trace
            /\ rows[r].hash # NULL /\ tab[v].pc = "page"
            /\ tab'[v].trace = tab[v].trace /\ tab'[v].hash = tab[v].hash
            /\ tab'[v].shown = rows[r].hash
      BY <1>4 DEF RowsWith
    <2>2. tab[v].hash # NULL /\ tab[v].trace # NULL
      BY <1>0, <2>1 DEF Tab
    <2>3. <<tab[v].trace, tab[v].hash>> \in shown
      BY <1>0, <2>2 DEF Watching
    <2>4. \A q \in RunIds : rows[q].trace = tab[v].trace => q = r
      BY <1>0, <2>1, <2>2 DEF IInv, OneRow, TypeOK, NoRow
    <2>5. rows[r].hash = tab[v].hash \/ Gone(tab[v].hash, tab[v].trace)
      BY <2>4 DEF Gone
    <2>. QED
      BY <2>1, <2>3, <2>5 DEF Watching, Pinned, Gone
  <1>. QED
    BY <1>0, <1>1, <1>2, <1>3, <1>4, TabChange

LEMMA DecidedStep ==
  ASSUME IInv, [Next]_vars, NEW d \in Submitted'
  PROVE  Decided(d)'
  <1>0. TypeOK
    BY DEF IInv
  <1>1. CASE d \in Submitted
    <2>1. d \in Review /\ Decided(d)
      BY <1>0, <1>1 DEF IInv, TypeOK, Submitted, Tab
    <2>2. d.hash \in Reports /\ d.trace \in AllTraces
      BY <2>1 DEF Review
    <2>. QED
      BY <1>0, <2>1, <2>2, PinnedStep DEF Decided, Pinned
  <1>2. CASE \E v \in Reviewers :
               /\ tab[v].pc = "reading"
               /\ d.trace = tab[v].trace /\ d.hash = tab[v].hash /\ d.saw = tab[v].shown
    <2>1. PICK v \in Reviewers :
               /\ tab[v].pc = "reading"
               /\ d.trace = tab[v].trace /\ d.hash = tab[v].hash /\ d.saw = tab[v].shown
      BY <1>2
    <2>2. /\ tab[v].hash \in Reports /\ tab[v].trace \in AllTraces /\ tab[v].shown # NULL
      BY <1>0, <2>1 DEF TypeOK, Tab
    <2>3. Pinned(tab[v].hash, tab[v].shown, tab[v].trace)
      BY <2>2 DEF IInv, Watching
    <2>. QED
      BY <1>0, <2>1, <2>2, <2>3, PinnedStep DEF Decided, Pinned
  <1>. QED
    BY <1>0, <1>1, <1>2, SubmittedChange

LEMMA InitIInv == Init => IInv
  <1>. SUFFICES ASSUME Init PROVE IInv
    OBVIOUS
  <1>1. TypeOK
    BY InitType
  <1>2. Submitted = {}
    BY DEF Init, Submitted, Blank
  <1>3. \A r \in RunIds : ~Live(r) /\ rows[r].hash = NULL
    BY DEF Init, Jobs!Init, Live, NoRow
  <1>4. \A v \in Reviewers : tab[v].shown = NULL /\ tab[v].hash = NULL
    BY DEF Init, Blank
  <1>. QED
    BY <1>1, <1>2, <1>3, <1>4 DEF Init, IInv, OneRow, OncePerReport, RowShown, Watching

LEMMA StepIInv == IInv /\ [Next]_vars => IInv'
  <1>. SUFFICES ASSUME IInv, [Next]_vars PROVE IInv'
    OBVIOUS
  <1>1. TypeOK /\ OneRow /\ OncePerReport /\ \A r \in RunIds : RowShown(r)
    BY DEF IInv
  <1>2. TypeOK' /\ OneRow' /\ OncePerReport' /\ \A r \in RunIds : RowShown(r)'
    BY <1>1, TypeStep, OneRowStep, OncePerReportStep, RowShownStep
  <1>. QED
    BY <1>2, WatchingStep, DecidedStep DEF IInv

(***************************************************************************)
(* A report that may leave the system was in front of the reviewer who     *)
(* approved it, for any number of reviewers, runs, rewrites and deletions, *)
(* although pages and frames are separate requests; a report that came     *)
(* again is the one exception.                                             *)
(***************************************************************************)
THEOREM ReleaseIsSeen == Spec => []ReleasedWasSeen
  <1>1. IInv => ReleasedWasSeen
    <2>. SUFFICES ASSUME IInv, NEW c \in Crds, NEW d \in reviews, NEW r \in RunIds,
                         Releases(d, r, c), rows[r].hash \notin again
                  PROVE  d.saw = rows[r].hash
      BY DEF ReleasedWasSeen
    <2>1. d \in Review /\ d \in Submitted /\ d.hash = rows[r].hash
      BY DEF IInv, TypeOK, Submitted, Releases
    <2>2. rows[r].hash \in Reports /\ rows[r].trace \in AllTraces
      <3>1. d.hash \in Reports /\ d.hash # NULL
        BY <2>1, NullIsNew DEF Review
      <3>2. Live(r)
        BY <2>1, <3>1 DEF IInv, TypeOK, NoRow
      <3>. QED
        BY <2>1, <3>1, <3>2 DEF IInv, TypeOK, Row
    <2>3. /\ <<rows[r].trace, rows[r].hash>> \in shown
          /\ <<d.trace, rows[r].hash>> \in shown
      BY <2>1, <2>2, NullIsNew DEF IInv, RowShown, Decided, Pinned
    <2>4. rows[r].trace = d.trace
      BY <2>1, <2>2, <2>3 DEF IInv, OncePerReport, Review
    <2>. QED
      BY <2>1, <2>4 DEF IInv, Decided, Pinned, Gone
  <1>. QED
    BY <1>1, InitIInv, StepIInv, PTL DEF Spec

-----------------------------------------------------------------------------
(***************************************************************************)
(* The strengthening of SupersedesWhatItSaw.  What a tab lists was time-   *)
(* stamped before now, and the stamp of a decision in flight was taken     *)
(* after everything its tab lists, whenever its commit comes.              *)
(***************************************************************************)
After(d) == d.ts <= clock /\ \A ts \in d.history : ts < d.ts

ListsThePast(v) == \A ts \in tab[v].history : ts <= clock

PostsAfter(v) == tab[v].pc = "posting" => After(tab[v].post)

StampInv ==
    /\ TypeOK
    /\ \A d \in reviews : After(d)
    /\ \A v \in Reviewers : ListsThePast(v)
    /\ \A v \in Reviewers : PostsAfter(v)

\* The page lists decisions that are in the table.
LEMMA HistoryIsPast ==
  ASSUME StampInv, NEW t, NEW ts \in HistoryOf(t)
  PROVE  ts <= clock
  BY DEF StampInv, After, HistoryOf

\* A step that builds no decision: some tab takes a new history of the past,
\* and what is in the table afterwards was there, or was in flight.
LEMMA StampKept ==
  ASSUME StampInv, TypeOK', clock' = clock,
         \A d \in reviews' :
            d \in reviews \/ \E v \in Reviewers : tab[v].pc = "posting" /\ d = tab[v].post,
         \A v \in Reviewers : \A ts \in tab'[v].history :
            ts \in tab[v].history \/ ts <= clock,
         \A v \in Reviewers : tab'[v].pc = "posting" =>
            tab[v].pc = "posting" /\ tab'[v].post = tab[v].post
  PROVE  StampInv'
  <1>1. \A d \in reviews' : After(d)'
    BY DEF StampInv, PostsAfter, After
  <1>2. \A v \in Reviewers : ListsThePast(v)'
    BY DEF StampInv, ListsThePast
  <1>3. \A v \in Reviewers : PostsAfter(v)'
    BY DEF StampInv, PostsAfter, After
  <1>. QED
    BY <1>1, <1>2, <1>3 DEF StampInv

LEMMA StampStep == StampInv /\ [Next]_vars => StampInv'
  <1>. SUFFICES ASSUME StampInv, [Next]_vars PROVE StampInv'
    OBVIOUS
  <1>0. /\ TypeOK' /\ tab \in [Reviewers -> Tab] /\ reviews \subseteq Review
        /\ clock \in Nat
    BY TypeStep DEF StampInv, TypeOK
  <1>1. CASE Table \/ UNCHANGED vars
    <2>1. UNCHANGED <<tab, reviews, clock>>
      BY <1>1 DEF Table, vars, Work, Complete, Purge, Submit, Seed, Refresh
    <2>. QED
      BY <1>0, <2>1, StampKept DEF StampInv
  <1>2. ASSUME NEW v \in Reviewers, NEW r \in RunIds, OpenPage(v, r) \/ FetchRun(v, r)
        PROVE  StampInv'
    <2>. DEFINE h == HistoryOf(rows[r].trace)
    <2>1. \A ts \in h : ts <= clock
      BY HistoryIsPast
    <2>. HIDE DEF h
    <2>2. \/ tab' = [tab EXCEPT ![v] =
                  [Blank EXCEPT !.pc = "page", !.trace = rows[r].trace,
                                !.hash = rows[r].hash, !.history = h]]
          \/ tab' = [tab EXCEPT ![v] =
                  [Blank EXCEPT !.pc = "reading", !.trace = rows[r].trace,
                                !.crd = rows[r].crd, !.hash = rows[r].hash,
                                !.shown = rows[r].hash]]
      BY <1>2 DEF OpenPage, FetchRun, h
    <2>3. \A u \in Reviewers : \/ tab'[u] = tab[u]
                               \/ /\ tab'[u].pc # "posting"
                                  /\ tab'[u].history \in {h, {}}
      BY <1>0, <2>2 DEF Blank
    <2>4. reviews' = reviews /\ clock' = clock
      BY <1>2 DEF OpenPage, FetchRun
    <2>. QED
      BY <1>0, <2>1, <2>3, <2>4, StampKept
  <1>3. ASSUME NEW v \in Reviewers, LoadFrame(v) \/ DecideNotFound(v) \/ RecordFails(v)
        PROVE  StampInv'
    <2>1. \A u \in Reviewers : \/ tab'[u] = tab[u]
                               \/ /\ tab'[u].pc # "posting"
                                  /\ tab'[u].history \in {tab[u].history, {}}
      BY <1>0, <1>3 DEF LoadFrame, DecideNotFound, RecordFails, Blank, Tab
    <2>2. reviews' = reviews /\ clock' = clock
      BY <1>3 DEF LoadFrame, DecideNotFound, RecordFails
    <2>. QED
      BY <1>0, <2>1, <2>2, StampKept
  <1>4. ASSUME NEW v \in Reviewers, ListDecisions(v)
        PROVE  StampInv'
    <2>. DEFINE h == HistoryOf(tab[v].trace)
    <2>1. \A ts \in h : ts <= clock
      BY HistoryIsPast
    <2>2. tab' = [tab EXCEPT ![v].history = h]
      BY <1>4 DEF ListDecisions
    <2>3. reviews' = reviews /\ clock' = clock /\ tab[v].pc = "reading"
      BY <1>4 DEF ListDecisions
    <2>. HIDE DEF h
    <2>4. \A u \in Reviewers : \/ tab'[u] = tab[u]
                               \/ tab'[u].pc # "posting" /\ tab'[u].history = h
      BY <1>0, <2>2, <2>3 DEF Tab
    <2>. QED
      BY <1>0, <2>1, <2>3, <2>4, StampKept
  <1>5. ASSUME NEW v \in Reviewers, Record(v)
        PROVE  StampInv'
    <2>. DEFINE h == HistoryOf(tab[v].trace)
    <2>1. \A ts \in h : ts <= clock
      BY HistoryIsPast
    <2>2. /\ tab' = [tab EXCEPT
                       ![v].pc = "reading", ![v].post = NULL,
                       ![v].history = {tab[v].post.ts} \cup
                           IF v \in ApiUsers THEN tab[v].history ELSE h]
          /\ reviews' = reviews \cup {tab[v].post} /\ clock' = clock
          /\ tab[v].pc = "posting"
      BY <1>5 DEF Record
    <2>. HIDE DEF h
    <2>3. tab[v].post.ts <= clock
      BY <2>2 DEF StampInv, PostsAfter, After
    <2>4. \A u \in Reviewers :
             \/ tab'[u] = tab[u]
             \/ /\ tab'[u].pc # "posting"
                /\ \A ts \in tab'[u].history : \/ ts \in tab[u].history
                                               \/ ts \in h \/ ts = tab[v].post.ts
      BY <1>0, <2>2 DEF Tab
    <2>. QED
      BY <1>0, <2>1, <2>2, <2>3, <2>4, StampKept
  <1>6. ASSUME NEW v \in Reviewers, NEW d \in Decisions, DecideForm(v, d) \/ DecideApi(v, d)
        PROVE  StampInv'
    <2>1. PICK post \in Review :
            /\ post.history = tab[v].history /\ post.ts = clock + 1 /\ Posts(v, post)
      BY <1>6, PostedRow DEF StampInv
    <2>2. /\ tab' = [tab EXCEPT ![v].pc = "posting", ![v].post = post]
          /\ clock' = clock + 1 /\ reviews' = reviews
      BY <2>1 DEF Posts
    <2>3. /\ \A e \in reviews : e.ts \in Nat
          /\ \A u \in Reviewers :
                /\ tab[u].history \subseteq Nat
                /\ tab[u].pc = "posting" => tab[u].post.ts \in Nat
      BY <1>0 DEF Tab, Review
    <2>4. \A u \in Reviewers :
             /\ tab'[u].history = tab[u].history
             /\ \/ tab'[u].pc = tab[u].pc /\ tab'[u].post = tab[u].post
                \/ u = v /\ tab'[u].post = post
      BY <1>0, <2>2 DEF Tab
    <2>5. \A e \in reviews' : After(e)'
      BY <1>0, <2>2, <2>3 DEF StampInv, After
    <2>6. \A u \in Reviewers : ListsThePast(u)'
      BY <1>0, <2>2, <2>3, <2>4 DEF StampInv, ListsThePast
    <2>7. After(post)'
      BY <1>0, <2>1, <2>2, <2>3 DEF StampInv, After, ListsThePast
    <2>8. \A u \in Reviewers : PostsAfter(u)'
      BY <1>0, <2>2, <2>3, <2>4, <2>7 DEF StampInv, PostsAfter, After
    <2>. QED
      BY <1>0, <2>5, <2>6, <2>8 DEF StampInv
  <1>. QED
    BY <1>1, <1>2, <1>3, <1>4, <1>5, <1>6 DEF Next, Reviewing

(***************************************************************************)
(* A decision sorts after every decision its reviewer could see, for any   *)
(* number of reviewers and in whatever order the commits come: the stamp   *)
(* is taken when the decision is built, and pages list committed ones.     *)
(***************************************************************************)
THEOREM DecisionsSupersede == Spec => []SupersedesWhatItSaw
  <1>1. Init => StampInv
    <2>. SUFFICES ASSUME Init PROVE StampInv
      OBVIOUS
    <2>1. TypeOK
      BY InitType
    <2>. QED
      BY <2>1 DEF Init, Blank, StampInv, ListsThePast, PostsAfter
  <1>2. StampInv => SupersedesWhatItSaw
    BY DEF StampInv, After, SupersedesWhatItSaw
  <1>. QED
    BY <1>1, <1>2, StampStep, PTL DEF Spec

-----------------------------------------------------------------------------
(* The rows, as JobTable has them. *)

SharedRow(r) == [trace |-> rows[r].trace, crd |-> rows[r].crd, result |-> rows[r].hash]

\* A step that writes the row of one run changes one row of JobTable.
LEMMA OneRowShared ==
  ASSUME TypeOK, NEW r \in RunIds, NEW row, rows' = [rows EXCEPT ![r] = row]
  PROVE  [q \in RunIds |-> SharedRow(q)]'
            = [[q \in RunIds |-> SharedRow(q)] EXCEPT ![r] =
                 [trace |-> row.trace, crd |-> row.crd, result |-> row.hash]]
  <1>. DEFINE seen == [q \in RunIds |-> SharedRow(q)]
  <1>1. \A q \in RunIds : seen'[q] = SharedRow(q)' /\ seen[q] = SharedRow(q)
    OBVIOUS
  <1>2. /\ SharedRow(r)' = [trace |-> row.trace, crd |-> row.crd, result |-> row.hash]
        /\ \A q \in RunIds \ {r} : SharedRow(q)' = SharedRow(q)
    BY DEF SharedRow, TypeOK
  <1>3. /\ DOMAIN seen = RunIds /\ DOMAIN seen' = RunIds
        /\ seen = [q \in RunIds |-> seen[q]] /\ seen' = [q \in RunIds |-> seen'[q]]
    OBVIOUS
  <1>. HIDE DEF seen
  <1>4. seen' = [seen EXCEPT ![r] =
                   [trace |-> row.trace, crd |-> row.crd, result |-> row.hash]]
    BY <1>1, <1>2, <1>3
  <1>. QED
    BY <1>4 DEF seen

LEMMA SharedStep ==
  ASSUME TypeOK, [Next]_vars
  PROVE  \/ Shared!TableNext
         \/ \E r \in RunIds, t \in SeedTraces, c \in Crds : Seed(r, t, c)
         \/ UNCHANGED <<status, rows>>
  <1>. DEFINE seen == [q \in RunIds |-> SharedRow(q)]
  <1>1. ASSUME NEW r \in RunIds, NEW t \in Traces, NEW c \in Crds, Submit(r, t, c)
        PROVE  Shared!TableNext
    <2>1. t \in AllTraces /\ t # NULL
      BY NullIsNew DEF AllTraces
    <2>2. \A q \in RunIds : rows[q].trace # t
      BY <1>1, <2>1 DEF Submit, RowsWith, TypeOK, NoRow
    <2>3. \A q \in RunIds : seen[q].trace # t
      BY <2>2 DEF SharedRow
    <2>. DEFINE row == [NoRow EXCEPT !.trace = t, !.crd = c]
    <2>4. rows' = [rows EXCEPT ![r] = row]
      BY <1>1 DEF Submit
    <2>5. row.trace = t /\ row.crd = c /\ row.hash = NULL
      BY DEF NoRow
    <2>. HIDE DEF row
    <2>6. seen' = [seen EXCEPT ![r] = [trace |-> t, crd |-> c, result |-> NULL]]
      BY <2>4, <2>5, OneRowShared
    <2>7. Shared!Enqueue(r)
      BY <1>1 DEF Submit, Jobs!Enqueue, Shared!Enqueue
    <2>8. Shared!Insert(r, t, c)
      BY <2>3, <2>6, <2>7 DEF Shared!Insert, SharedRow
    <2>. QED
      BY <2>1, <2>8 DEF Shared!TableNext
  <1>2. CASE Work
    <2>1. seen' = seen
      BY <1>2 DEF Work, SharedRow
    <2>2. \/ \E r \in RunIds : Shared!Start(r) \/ Shared!Settle(r, "failed")
          \/ \E S \in SUBSET RunIds : Shared!Sweep(S)
      BY <1>2 DEF Work, Jobs!Start, Jobs!Settle, Jobs!Sweep, Shared!Start,
         Shared!Settle, Shared!Sweep
    <2>. QED
      BY <2>1, <2>2 DEF Shared!TableNext, Shared!Proceed, SharedRow
  <1>3. ASSUME NEW r \in RunIds, Complete(r) PROVE Shared!TableNext
    <2>1. PICK hash \in Reports \cup {NULL} : rows' = [rows EXCEPT ![r] = Stored(@, hash)]
      BY <1>3 DEF Complete
    <2>3. rows[r] \in Row /\ rows[r].crd \in Crds
      BY <1>3 DEF Complete, Jobs!Settle, TypeOK, Live, Row
    <2>. DEFINE row == Stored(rows[r], hash)
                s == <<rows[r].crd, hash>>
    <2>4. [trace |-> row.trace, crd |-> row.crd, result |-> row.hash]
            = [SharedRow(r) EXCEPT !.result = s[2]]
      BY <2>3 DEF Stored, Row, SharedRow
    <2>5. /\ s \in Crds \X (Reports \cup {NULL})
          /\ s[1] = seen[r].crd
      BY <2>3 DEF SharedRow
    <2>6. rows' = [rows EXCEPT ![r] = row]
      BY <2>1
    <2>. HIDE DEF row, s
    <2>7. seen' = [seen EXCEPT ![r].result = s[2]]
      BY <2>4, <2>6, OneRowShared
    <2>8. Shared!Settle(r, "complete")
      BY <1>3 DEF Complete, Jobs!Settle, Shared!Settle
    <2>9. Shared!Complete(r)
      BY <2>5, <2>7, <2>8 DEF Shared!Complete, SharedRow
    <2>. QED
      BY <2>9 DEF Shared!TableNext
  <1>4. ASSUME NEW r \in RunIds, Purge(r) PROVE Shared!TableNext
    <2>1. rows' = [rows EXCEPT ![r] = NoRow]
      BY <1>4 DEF Purge
    <2>2. [trace |-> NoRow.trace, crd |-> NoRow.crd, result |-> NoRow.hash] = Shared!NoRow
      BY DEF NoRow, Shared!NoRow
    <2>3. seen' = [seen EXCEPT ![r] = Shared!NoRow]
      BY <2>1, <2>2, OneRowShared
    <2>4. Shared!Purge(r)
      BY <1>4 DEF Purge, Jobs!Purge, Shared!Purge, Jobs!Terminal, Shared!Terminal
    <2>5. Shared!Delete(r)
      BY <2>3, <2>4 DEF Shared!Delete, SharedRow
    <2>. QED
      BY <2>5 DEF Shared!TableNext
  <1>5. CASE \E t \in SeedTraces : Refresh(t)
    BY <1>5 DEF Refresh
  <1>6. CASE Reviewing
    BY <1>6 DEF Reviewing, OpenPage, LoadFrame, FetchRun, ListDecisions, Posts,
       DecideForm, DecideNotFound, DecideApi, Record, RecordFails
  <1>7. CASE UNCHANGED vars
    BY <1>7 DEF vars
  <1>. QED
    BY <1>1, <1>2, <1>3, <1>4, <1>5, <1>6, <1>7 DEF Next, Table

(***************************************************************************)
(* What the review surface assumes of the rows is what PipelineJobs is     *)
(* shown to implement (its theorem ImplementsTable): every step on them is *)
(* one of JobTable, the seed script's excepted.                            *)
(***************************************************************************)
THEOREM ReviewsASharedTable == Spec => RowsAreShared
  <1>1. Init => Shared!TableInit
    BY DEF Init, NoRow, Jobs!Init, Shared!TableInit, Shared!Init, Shared!NoRow
  <1>2. TypeOK /\ [Next]_vars =>
          [\/ Shared!TableNext
           \/ \E r \in RunIds, t \in SeedTraces, c \in Crds : Seed(r, t, c)]_<<status, rows>>
    BY SharedStep
  <1>. QED
    BY <1>1, <1>2, TypeCorrect, PTL DEF Spec, RowsAreShared
=============================================================================
