----------------------------- MODULE GraphNodes -----------------------------
(***************************************************************************)
(* The pipeline graph as app/graph/pipeline.py draws it: one node after    *)
(* the other, and the three extractors as one superstep whose updates are  *)
(* applied together.  No LLM call, audit write or interleaving is visible  *)
(* here: each step says what a node may make of the state it is given.     *)
(***************************************************************************)
CONSTANTS
    Items, Bodies,
    Extractors,
    Reads,        \* the Items each extractor reads
    Settings, Found, NULL

VARIABLES settings, node, state

run == <<settings, node, state>>

Errs(s, names) == [s EXCEPT !.errors = @ \cup names]

Init ==
    /\ settings \in Settings
    /\ node = "fetch"
    /\ state = [pdf |-> FALSE, sections |-> NULL, missing |-> {},
                rescued |-> FALSE, extractions |-> [x \in Extractors |-> NULL],
                peer_context |-> FALSE, redline |-> NULL,
                review_status |-> "not_started", report_hash |-> NULL, errors |-> {}]

Goes(from, to) == node = from /\ node' = to /\ settings' = settings

Fetch ==
    /\ Goes("fetch", "segment")
    /\ state' \in {[state EXCEPT !.pdf = TRUE], Errs(state, {"fetch"})}

\* What the regular expressions find, or a rescue puts where they did not find
\* an Item in full.
MayFind(i, body, rescued) ==
    \/ body \in Found[i]
    \/ rescued /\ Found[i] # {"narrative"} /\ body \in {"short", "narrative"}

Absent(sections) == {i \in Items : sections[i] = "absent"}

\* Sections are returned with the Items that have none; if there are such
\* Items, or others do not have one, that is an error.
Segment ==
    /\ Goes("segment", IF settings.key THEN "extract" ELSE "done")
    /\ \/ state' = Errs(state, {"segment"})
       \/ /\ state.pdf
          /\ LET found == state'.sections
                 rescued == state'.rescued
             IN
             /\ found \in [Items -> Bodies]
             /\ rescued \in BOOLEAN /\ (rescued => settings.key)
             /\ \A i \in Items : MayFind(i, found[i], rescued)
             /\ \E told \in SUBSET {"segment"} :
                   /\ Absent(found) # {} => told # {}
                   /\ state' = Errs([state EXCEPT !.sections = found,
                                                  !.missing = Absent(found),
                                                  !.rescued = rescued], told)

\* An exception no node catches.
Raise ==
    /\ node = "fetch" \/ (node = "segment" /\ state.pdf)
    /\ Goes(node, "raised")
    /\ state' = state

\* Without a text there is no extraction; blank text is extracted without
\* the LLM; from any other text there is what the LLM said, or nothing.
MayReturn(x, value) ==
    LET texts == IF state.sections = NULL THEN {}
                 ELSE {state.sections[i] : i \in Reads[x]} IN
    /\ value = "llm" => ~(texts \subseteq {"absent", "empty"})
    /\ value = "default" <=> texts \subseteq {"absent", "empty"}
                             /\ ~(texts \subseteq {"absent"})

Superstep ==
    /\ Goes("extract", "peers")
    /\ \E values \in [Extractors -> {"llm", "default", NULL}] :
          /\ \A x \in Extractors : MayReturn(x, values[x])
          /\ state' = Errs([state EXCEPT !.extractions = values],
                           {x \in Extractors : values[x] = NULL})

HasExtraction == \E x \in Extractors : state.extractions[x] # NULL

RetrievePeers ==
    /\ Goes("peers", "write")
    /\ \E hits \in BOOLEAN, told \in SUBSET {"peers"} :
          /\ hits \/ told # {} => HasExtraction
          /\ state' = Errs([state EXCEPT !.peer_context = hits], told)

Write ==
    /\ Goes("write", "gate")
    /\ state' \in IF HasExtraction
                  THEN {[state EXCEPT !.redline = "llm"], Errs(state, {"writer"})}
                  ELSE {[state EXCEPT !.redline = "stub"]}

Gate ==
    /\ Goes("gate", "done")
    /\ \/ /\ ~settings.hitl
          /\ state' = [state EXCEPT !.review_status = "approved"]
       \/ /\ settings.hitl /\ state.redline = NULL
          /\ state' = [state EXCEPT !.review_status = "rejected"]
       \/ /\ settings.hitl /\ state.redline # NULL
          /\ state' = [state EXCEPT !.review_status = "pending_review",
                                    !.report_hash = state.redline]

Next ==
    \/ Fetch \/ Segment \/ Raise \/ Superstep
    \/ RetrievePeers \/ Write \/ Gate

Spec == Init /\ [][Next]_run
=============================================================================
