---------------------------- MODULE PipelineGraph ----------------------------
(***************************************************************************)
(* One run of the LangGraph pipeline (app/graph): fetch the brochure,      *)
(* segment it, possibly rescue Items with one LLM call, run the three      *)
(* extractors concurrently, join them, retrieve peers, write the redline   *)
(* report, and mark it for review.  A node that fails degrades the state   *)
(* and says so in `errors`; a node that raises ends the run.               *)
(*                                                                         *)
(* A section body is one of five classes, as far as any node can tell them *)
(* apart; the thirteen Items no extractor reads are one bit.  Every LLM    *)
(* call is a request, a reply or a failure, and an audit write.            *)
(***************************************************************************)
EXTENDS Naturals, FiniteSets

CONSTANTS
    Settings,     \* deployments: [key |-> anthropic_api_key is set,
                  \*               hitl |-> enable_hitl]
    Found,        \* Item -> the classes the segmenter may find it in
    NULL

Items == {5, 9, 10, 11, 12}              \* RESCUE_ITEMS

\* "placeholder" says "not applicable" in under 60 characters, "short" is
\* any other body below RESCUE_THRESHOLD_CHARS, "narrative" is above it.
Bodies == {"absent", "empty", "placeholder", "short", "narrative"}

Extractors == {"fee", "disciplinary", "conflicts"}

\* The Items each extractor reads.
Reads == [x \in Extractors |->
            CASE x = "fee" -> {5}
              [] x = "disciplinary" -> {9}
              [] x = "conflicts" -> {10, 11, 12}]

\* Everything that calls the LLM, and everything that reports an error.
Callers == Extractors \cup {"rescue", "writer"}

Nodes == Extractors \cup {"fetch", "segment", "peers", "writer"}

Setting == [key : BOOLEAN, hitl : BOOLEAN]

ASSUME SettingsAssumption == Settings \subseteq Setting
ASSUME FoundAssumption == Found \in [Items -> SUBSET Bodies]
ASSUME NullDistinct == NULL \notin {"llm", "default", "stub"} \cup [Items -> Bodies]

VARIABLES
    settings,  \* of the process, read once
    pc,        \* the node of the superstep under way
    local,     \* what the segment node found and has not returned yet
    state,     \* ADVState
    work,      \* how far each LLM call is
    writes,    \* what the extractors returned in this superstep
    audit      \* where the record of the call is: a row, or a line in the log

vars == <<settings, pc, local, state, work, writes, audit>>

Segmentations == [Items -> Bodies]

Values == {"llm", "default", NULL}

Extractions == [Extractors -> Values]

NoExtractions == [x \in Extractors |-> NULL]

Places == {"fetch", "segment", "rescue", "extract", "peers", "write", "gate",
           "done", "raised"}

ADVState ==
    [pdf           : BOOLEAN,
     sections      : Segmentations \cup {NULL},
     missing       : SUBSET Items,
     rescued       : BOOLEAN,                     \* backend: "+llm_fallback"
     extractions   : Extractions,
     peer_context  : BOOLEAN,                     \* there are hits
     redline       : {"llm", "stub", NULL},
     review_status : {"not_started", "pending_review", "approved", "rejected"},
     report_hash   : {"llm", "stub", NULL},       \* named by what it hashes
     errors        : SUBSET Nodes]

Updates == [extractions : Extractions, errors : SUBSET Nodes]

Progress == {"idle", "calling", "replied", "recorded", "done"}

Records == {"none", "row", "log"}

NoUpdate == [extractions |-> NoExtractions, errors |-> {}]

TypeOK ==
    /\ settings \in Settings
    /\ pc \in Places
    /\ local \in Segmentations \cup {NULL}
    /\ state \in ADVState
    /\ work \in [Callers -> Progress]
    /\ writes \in [Extractors -> Updates]
    /\ audit \in [Callers -> Records]

Init ==
    /\ settings \in Settings
    /\ pc = "fetch"
    /\ local = NULL
    /\ state = [pdf |-> FALSE, sections |-> NULL, missing |-> {},
                rescued |-> FALSE, extractions |-> NoExtractions,
                peer_context |-> FALSE, redline |-> NULL,
                review_status |-> "not_started", report_hash |-> NULL, errors |-> {}]
    /\ work = [c \in Callers |-> "idle"]
    /\ writes = [x \in Extractors |-> NoUpdate]
    /\ audit = [c \in Callers |-> "none"]

-----------------------------------------------------------------------------
(* The reducers of ADVState. *)

MergeLast(left, right) == right       \* mutant: the default, last write wins

MergeExtractions(left, right) ==
    [x \in Extractors |-> IF right[x] # NULL THEN right[x] ELSE left[x]]

AddLast(left, right) == right         \* mutant: the default, last write wins

AddErrors(left, right) == left \cup right

\* At the end of a superstep the updates are applied one after the other.
Apply(s, u) == [s EXCEPT !.extractions = MergeExtractions(@, u.extractions),
                         !.errors = AddErrors(@, u.errors)]

Fails(node) == [state EXCEPT !.errors = AddErrors(@, {node})]

-----------------------------------------------------------------------------
(* LLMClient.extract: a call fails, or it replies and is then recorded, and *)
(* the node that awaits it goes on.                                        *)

CallNotAwaited(c) ==    \* mutant: nobody waits for the answer
    /\ work[c] = "idle"
    /\ work' = [work EXCEPT ![c] = "done"]

Call(c) ==
    /\ work[c] = "idle"
    /\ work' = [work EXCEPT ![c] = "calling"]

CallRetried(c) ==       \* mutant: the call is free to be made again
    /\ work[c] = "calling"
    /\ work' = [work EXCEPT ![c] = "idle"]

CallFails(c) ==
    /\ work[c] = "calling"
    /\ work' = [work EXCEPT ![c] = "done"]

Reply(c) ==
    /\ work[c] = "calling"
    /\ work' = [work EXCEPT ![c] = "replied"]
    /\ UNCHANGED <<settings, pc, local, state, writes, audit>>

RecordOrRaise(c) ==     \* mutant: the call fails with the write
    /\ work[c] = "replied"
    /\ \/ /\ audit' = [audit EXCEPT ![c] = "row"]
          /\ work' = [work EXCEPT ![c] = "recorded"]
       \/ /\ audit' = [audit EXCEPT ![c] = "log"]
          /\ work' = [work EXCEPT ![c] = "calling"]
    /\ UNCHANGED <<settings, pc, local, state, writes>>

\* In a thread, which others do not wait for.  A write that fails is logged, and
\* the reply kept.
Record(c) ==
    /\ work[c] = "replied"
    /\ work' = [work EXCEPT ![c] = "recorded"]
    /\ \E place \in {"row", "log"} : audit' = [audit EXCEPT ![c] = place]
    /\ UNCHANGED <<settings, pc, local, state, writes>>

\* The node goes on with the result.
Resumes(c) ==
    /\ work[c] = "recorded"
    /\ work' = [work EXCEPT ![c] = "done"]
    /\ UNCHANGED audit

-----------------------------------------------------------------------------
(* fetch_brochure and segment_brochure. *)

Fetch ==
    /\ pc = "fetch"
    /\ pc' = "segment"
    /\ state' \in {[state EXCEPT !.pdf = TRUE], Fails("fetch")}
    /\ UNCHANGED <<settings, local, work, writes, audit>>

AfterSegment == IF settings.key THEN "extract" ELSE "done"

Absent(sections) == {i \in Items : sections[i] = "absent"}

NeedsRescue(sections) == {i \in Items : sections[i] # "narrative"}

SegmentFails ==
    /\ pc = "segment"
    /\ pc' = AfterSegment
    /\ state' = Fails("segment")
    /\ UNCHANGED <<settings, local, work, writes, audit>>

\* The node returns; missing Items, of the five or of the others, are an error.
Return(sections, missing, rescued, others) ==
    /\ pc' = AfterSegment
    /\ local' = NULL
    /\ state' = [state EXCEPT !.sections = sections, !.missing = missing, !.rescued = rescued,
                              !.errors = IF missing # {} \/ others
                                         THEN AddErrors(@, {"segment"}) ELSE @]

Segment ==
    /\ pc = "segment"
    /\ state.pdf
    /\ \E s \in {f \in Segmentations : \A i \in Items : f[i] \in Found[i]},
          others \in BOOLEAN :
          \/ /\ NeedsRescue(s) = {} \/ ~settings.key
             /\ Return(s, Absent(s), FALSE, others)
          \/ /\ NeedsRescue(s) # {} /\ settings.key
             /\ pc' = "rescue"
             /\ local' = s
             /\ UNCHANGED state
    /\ UNCHANGED <<settings, work, writes, audit>>

\* The text is extracted again for the prompt.
RescueStart ==
    /\ pc = "rescue"
    /\ Call("rescue")
    /\ UNCHANGED <<settings, pc, local, state, writes, audit>>

\* The text cannot be extracted again, or the call fails: the regex result
\* is kept.
RescueSkipped ==
    /\ pc = "rescue"
    /\ \/ work["rescue"] = "idle" /\ UNCHANGED work
       \/ CallFails("rescue")
    /\ \E others \in BOOLEAN : Return(local, Absent(local), FALSE, others)
    /\ UNCHANGED <<settings, writes, audit>>

\* The spans of the reply: within the text, and not tiny.
Spans == UNION {[S -> {"short", "narrative"}] : S \in SUBSET Items}

UsableAll(sections, spans) == DOMAIN spans    \* mutant: no allow-list

Usable(sections, spans) == DOMAIN spans \cap NeedsRescue(sections)

Rescued(sections, spans) ==
    [i \in Items |-> IF i \in Usable(sections, spans) THEN spans[i] ELSE sections[i]]

StaleMissing(sections, merged) == Absent(sections)   \* mutant: not recomputed

StillMissing(sections, merged) == Absent(sections) \cap Absent(merged)

Rescue ==
    /\ pc = "rescue"
    /\ Resumes("rescue")
    /\ \E spans \in Spans, others \in BOOLEAN :
          LET merged == Rescued(local, spans) IN
          Return(merged, StillMissing(local, merged), Usable(local, spans) # {}, others)
    /\ UNCHANGED <<settings, writes>>

\* Opening or closing the HTTP client raises, pypdf raises while it reads a
\* page, or the file is gone at the second read: no node catches it.
Raise ==
    /\ \/ pc = "fetch"
       \/ pc = "segment" /\ state.pdf
       \/ pc = "rescue" /\ work["rescue"] = "idle"
    /\ pc' = "raised"
    /\ UNCHANGED <<settings, local, state, work, writes, audit>>

-----------------------------------------------------------------------------
(* The three extractors and their join. *)

NothingToRead(x) ==
    state.sections # NULL =>
        \/ \A i \in Reads[x] : state.sections[i] = "absent"
        \/ x = "fee" /\ state.sections[5] = "placeholder"

\* The extractor answers without the LLM when there is only blank text.
OnlyBlank(x) == \A i \in Reads[x] : state.sections[i] \in {"absent", "empty"}

FailureOf(x) == [NoUpdate EXCEPT !.errors = {x}]

ValueOf(x, v) == [NoUpdate EXCEPT !.extractions[x] = v]

Returns(x, u) ==
    /\ writes' = [writes EXCEPT ![x] = u]
    /\ UNCHANGED <<settings, pc, local, state>>

Extract(x) ==
    /\ pc = "extract"
    /\ work[x] = "idle"
    /\ \/ /\ NothingToRead(x)
          /\ work' = [work EXCEPT ![x] = "done"]
          /\ Returns(x, FailureOf(x))
       \/ /\ ~NothingToRead(x)
          /\ OnlyBlank(x)
          /\ work' = [work EXCEPT ![x] = "done"]
          /\ Returns(x, ValueOf(x, "default"))
       \/ /\ ~NothingToRead(x)
          /\ ~OnlyBlank(x)
          /\ Call(x)
          /\ UNCHANGED <<settings, pc, local, state, writes>>
    /\ UNCHANGED audit

ExtractFails(x) ==
    /\ CallFails(x)
    /\ Returns(x, FailureOf(x))
    /\ UNCHANGED audit

ExtractDone(x) ==
    /\ Resumes(x)
    /\ Returns(x, ValueOf(x, "llm"))

\* LangGraph runs retrieve_peers when all three branches have returned.
Join ==
    /\ pc = "extract"
    /\ \A x \in Extractors : work[x] = "done"
    /\ pc' = "peers"
    /\ state' = Apply(Apply(Apply(state, writes["fee"]), writes["disciplinary"]),
                      writes["conflicts"])
    /\ UNCHANGED <<settings, local, work, writes, audit>>

-----------------------------------------------------------------------------
(* retrieve_peers, write_redline and hitl_gate. *)

HasExtraction == \E x \in Extractors : state.extractions[x] # NULL

ItemsToQuery == UNION {Reads[x] : x \in {y \in Extractors : state.extractions[y] # NULL}}

\* Queries of some Items fail, and the others have hits or none; a store that
\* cannot be built fails them all.
RetrievePeers ==
    /\ pc = "peers"
    /\ pc' = "write"
    /\ \E failed \in SUBSET ItemsToQuery, hits \in BOOLEAN :
          /\ hits => failed # ItemsToQuery
          /\ state' = [state EXCEPT
                         !.peer_context = hits,
                         !.errors = IF failed = {} THEN @ ELSE AddErrors(@, {"peers"})]
    /\ UNCHANGED <<settings, local, work, writes, audit>>

\* With no extraction the writer composes a report of its own.
Write ==
    /\ pc = "write"
    /\ work["writer"] = "idle"
    /\ \/ /\ ~HasExtraction
          /\ pc' = "gate"
          /\ state' = [state EXCEPT !.redline = "stub"]
          /\ UNCHANGED work
       \/ /\ HasExtraction
          /\ Call("writer")
          /\ UNCHANGED <<pc, state>>
    /\ UNCHANGED <<settings, local, writes, audit>>

WriteFails ==
    /\ CallFails("writer")
    /\ pc' = "gate"
    /\ state' = Fails("writer")
    /\ UNCHANGED <<settings, local, writes, audit>>

WriteDone ==
    /\ Resumes("writer")
    /\ pc' = "gate"
    /\ state' = [state EXCEPT !.redline = "llm"]
    /\ UNCHANGED <<settings, local, writes>>

MarkedPending(s) ==       \* mutant: not a value of ReviewStatus
    [s EXCEPT !.review_status = "pending", !.report_hash = s.redline]

Marked(s) ==
    IF ~settings.hitl THEN [s EXCEPT !.review_status = "approved"]
    ELSE IF s.redline = NULL THEN [s EXCEPT !.review_status = "rejected"]
    ELSE [s EXCEPT !.review_status = "pending_review", !.report_hash = s.redline]

HitlGate ==
    /\ pc = "gate"
    /\ pc' = "done"
    /\ state' = Marked(state)
    /\ UNCHANGED <<settings, local, work, writes, audit>>

-----------------------------------------------------------------------------
Next ==
    \/ Fetch \/ SegmentFails \/ Segment
    \/ RescueStart \/ RescueSkipped \/ Rescue \/ Raise
    \/ \E c \in Callers : Reply(c) \/ Record(c)
    \/ \E x \in Extractors : Extract(x) \/ ExtractFails(x) \/ ExtractDone(x)
    \/ Join \/ RetrievePeers \/ Write \/ WriteFails \/ WriteDone \/ HitlGate

Spec == Init /\ [][Next]_vars

\* Every node ends: HTTP and LLM calls have timeouts, and the loop is fair.
FairSpec == Spec /\ WF_vars(Next)

-----------------------------------------------------------------------------
(* Properties. *)

(***************************************************************************)
(* A reviewer of a finished run can tell why something is not there: every *)
(* absent output, and no present one, has an error of the node that failed *)
(* to produce it.  The three extractors append to `errors` and write to    *)
(* `extractions` in the same superstep, so both reducers must keep what    *)
(* the other branches returned (ADR 0006).                                 *)
(***************************************************************************)
GapsExplained ==
    pc = "done" =>
        /\ state.pdf <=> "fetch" \notin state.errors
        /\ state.sections = NULL \/ state.missing # {} => "segment" \in state.errors
        /\ settings.key => \A x \in Extractors :
               state.extractions[x] = NULL <=> x \in state.errors
        /\ settings.key => (state.redline = NULL <=> "writer" \in state.errors)

(***************************************************************************)
(* No extraction is lost at the join: what a branch returned is in the     *)
(* state, whichever branch finished first and whatever the others did.     *)
(***************************************************************************)
NoExtractionLost ==
    pc \in {"peers", "write", "gate", "done"} =>
        \A x \in Extractors : state.extractions[x] = writes[x].extractions[x]

(***************************************************************************)
(* A rescue only fills gaps (ADR 0014): a body the regex found in full     *)
(* stays, and no Item that had a section ends up without one.              *)
(***************************************************************************)
RescueFillsGaps ==
    [][pc = "rescue" /\ pc' = "extract" =>
         \A i \in Items :
            /\ local[i] = "narrative" => state'.sections[i] = "narrative"
            /\ local[i] # "absent" => state'.sections[i] # "absent"]_vars

(***************************************************************************)
(* missing_items and the sections agree, with and without a rescue.        *)
(***************************************************************************)
MissingIsAbsent ==
    state.sections # NULL => state.missing = Absent(state.sections)

(***************************************************************************)
(* The state and the audit trail agree, whatever is written where: what an *)
(* LLM said is in the state only when there is a record of it, as a row or *)
(* in the log, be it an extraction, the report or a rescued section; and   *)
(* what was recorded of an extractor or the writer is in the state at the  *)
(* end: no failed write loses it (client.py: "Audit failure must not lose  *)
(* the extraction"), and neither do the join and the nodes after it.       *)
(***************************************************************************)
RecordsMatchResults ==
    /\ \A x \in Extractors : state.extractions[x] = "llm" => audit[x] # "none"
    /\ state.redline = "llm" => audit["writer"] # "none"
    /\ state.rescued => audit["rescue"] # "none"
    /\ pc = "done" =>
          /\ \A x \in Extractors : audit[x] # "none" => state.extractions[x] = "llm"
          /\ audit["writer"] # "none" => state.redline = "llm"

(***************************************************************************)
(* The three branches, their LLM calls and the join amount to one          *)
(* superstep, and the rescue is part of its node: seen from the state, the *)
(* run goes node by node, and each node does to the state what GraphNodes  *)
(* says, whatever fails and in whatever order the replies come.            *)
(***************************************************************************)
NodeByNode == INSTANCE GraphNodes WITH
    node <- IF pc = "rescue" THEN "segment" ELSE pc

RunsNodeByNode == NodeByNode!Spec

(***************************************************************************)
(* A run takes a bounded number of steps, and calls the LLM at most once   *)
(* for each caller: no step leads back, and none waits for nothing.  So it *)
(* ends if only every node returns.                                        *)
(***************************************************************************)
PlacesLeft(p) ==
    CASE p = "fetch" -> 7 [] p = "segment" -> 6 [] p = "rescue" -> 5
      [] p = "extract" -> 4 [] p = "peers" -> 3 [] p = "write" -> 2
      [] p = "gate" -> 1 [] OTHER -> 0

CallLeft(w) ==
    CASE w = "idle" -> 4 [] w = "calling" -> 3 [] w = "replied" -> 2
      [] w = "recorded" -> 1 [] OTHER -> 0

StepsLeft ==
    PlacesLeft(pc) + CallLeft(work["rescue"]) + CallLeft(work["fee"])
        + CallLeft(work["disciplinary"]) + CallLeft(work["conflicts"])
        + CallLeft(work["writer"])

GoesForward ==
    /\ StepsLeft' < StepsLeft
    /\ \A c \in Callers : CallLeft(work'[c]) <= CallLeft(work[c])

OnlyForward == [][GoesForward]_vars

(***************************************************************************)
(* Every run ends, with a state or an exception.                           *)
(***************************************************************************)
RunEnds == <>(pc \in {"done", "raised"})

(***************************************************************************)
(* hitl_gate.py: "No blank report goes out under `pending_review` status." *)
(* Does not hold: when no extractor produced anything the writer composes  *)
(* a report that says so, and the gate sees a report.                      *)
(***************************************************************************)
NoBlankReportPending ==
    state.review_status = "pending_review" => HasExtraction
=============================================================================
