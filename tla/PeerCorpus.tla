----------------------------- MODULE PeerCorpus -----------------------------
(***************************************************************************)
(* The Qdrant collection of peer sections: PeerStore                       *)
(* (retrieval/qdrant_store.py), seed_peers and its CLI (retrieval/seed.py, *)
(* cli.py), and those who ask: the node retrieve_peers of a pipeline run   *)
(* and the query CLI.  Seeders and askers are different processes, so      *)
(* every call to Qdrant is a step.                                         *)
(*                                                                         *)
(* A pipeline run that seeds is one step here: which version of the        *)
(* brochure it resolved, and what the Segmenter made of the text.  Vectors *)
(* and scores are left out: a ranking is any order.                        *)
(***************************************************************************)
EXTENDS Segmenter, Sequences, FiniteSets

CONSTANTS
    Seeders, Askers,
    Firms,
    Draft,         \* the CRD of an uploaded draft, no firm's
    Versions,      \* numbered as they are filed
    Filings,
    Bands,
    Populated,     \* the sets of Items extractors may have filled in
    CliQueries,    \* what operators ask
    SpecFiles,     \* peer lists an operator may pass
    TextsOf,       \* what a version of a brochure may be like
    Answers,       \* what the rescue model may answer
    PerItem,       \* peer_query_top_k_per_item
    Prefetch,      \* hybrid_prefetch_limit
    RerankTop,     \* rerank_top_k
    MaxBusy,       \* bound: processes at work at a time
    NULL

PeerSpec == [crd : Firms, vid : Versions \cup {NULL}, band : Bands \cup {NULL}]

ASSUME FilingsAssumption == Versions \subseteq Nat /\ Filings \subseteq Firms \X Versions
ASSUME SpecFilesAssumption == SpecFiles \subseteq Seq(PeerSpec)
ASSUME TextsAssumption ==
    \A f \in Filings : \A t \in TextsOf[f] : WellFormed(t)
ASSUME AnswersAssumption ==
    \A answer \in Answers : \A i \in DOMAIN answer : answer[i] \in Nat \X Nat
ASSUME LimitAssumption ==
    {PerItem, Prefetch, RerankTop, MaxBusy} \subseteq Nat
ASSUME QueriedAssumption ==
    /\ Draft \notin Firms
    /\ Populated \subseteq SUBSET Items
    /\ CliQueries \subseteq [own : Firms \cup {NULL}, band : Bands \cup {NULL},
                             item : Items \cup {NULL}, hybrid : BOOLEAN, rerank : BOOLEAN,
                             k : Nat]

VARIABLES
    text,          \* what the brochures say
    latest,        \* the version a firm has on file at the SEC
    collection,    \* adv_peers
    seeder,        \* processes of the seed-peers CLI
    asker          \* pipeline runs and processes of the query CLI

vars == <<text, latest, collection, seeder, asker>>

-----------------------------------------------------------------------------
PointIdWithoutVersion(crd, vid, item) ==   \* mutant: one brochure per firm
    <<crd, CHOOSE v \in Versions : TRUE, item>>

\* point_id_for
PointId(crd, vid, item) == <<crd, vid, item>>

Ids == Firms \X Versions \X Items

\* The payload, without what the id says already.
Point == [section : Section, band : Bands \cup {NULL}]

Collection == [sparse  : BOOLEAN,      \* has the vector hybrid queries need
               indexed : BOOLEAN,      \* has the payload indexes
               points  : [Ids -> Point \cup {NULL}]]

ASSUME NullAssumption ==
    /\ NULL \notin Versions \cup Items
    /\ NULL \notin SpecFiles
    /\ NULL \notin Point /\ NULL \notin Collection

NoPoints == [id \in Ids |-> NULL]

\* "lost" says that the collection was dropped under this process, "asked"
\* keeps the peer list and "seen" the versions on file while it ran; these
\* are not in the code.
SeederState ==
    [pc       : {"idle", "ensure", "create", "index", "next", "upsert", "ok"},
     asked    : SpecFiles \cup {NULL},
     done     : Nat,
     vid      : Versions \cup {NULL},            \* resolved
     sections : SUBSET Section,
     errors   : BOOLEAN,                         \* of the entry in hand
     report   : [Firms -> {NULL, "clean", "errors"}],
     lost     : BOOLEAN,
     seen     : SUBSET Filings]

NoSeeder == [pc |-> "idle", asked |-> NULL, done |-> 0, vid |-> NULL,
             sections |-> {}, errors |-> FALSE, report |-> [f \in Firms |-> NULL],
             lost |-> FALSE, seen |-> {}]

Hit == [id : Ids, section : Section]

\* "present" are the points there were for the Items when the asker began,
\* and "lost" is as above.
AskerState ==
    [pc       : {"idle", "query"},
     own      : Firms \cup {Draft, NULL},         \* exclude_crd
     band     : Bands \cup {NULL},
     hybrid   : BOOLEAN,
     rerank   : BOOLEAN,
     k        : Nat,                              \* hits wanted of a query
     todo     : SUBSET (Items \cup {NULL}),       \* NULL: whatever the Item
     hits     : SUBSET Hit,
     answered : SUBSET (Items \cup {NULL}),       \* the others are in errors
     present  : SUBSET Ids,
     lost     : BOOLEAN]

NoAsker == [pc |-> "idle", own |-> NULL, band |-> NULL, hybrid |-> TRUE, rerank |-> TRUE,
            k |-> 0, todo |-> {}, hits |-> {}, answered |-> {}, present |-> {}, lost |-> FALSE]

Filed(f, v) == <<f, v>> \in Filings

Busy == {s \in Seeders : seeder[s].pc # "idle"} \cup {a \in Askers : asker[a].pc # "idle"}

Present(coll) == IF coll = NULL THEN {} ELSE {id \in Ids : coll.points[id] # NULL}

TypeOK ==
    /\ text \in [Filings -> Texts]
    /\ latest \in [Firms -> Versions]
    /\ collection \in Collection \cup {NULL}
    /\ seeder \in [Seeders -> SeederState]
    /\ asker \in [Askers -> AskerState]
    /\ \A s \in Seeders :
          /\ seeder[s].pc = "idle" <=> seeder[s].asked = NULL
          /\ seeder[s].pc \in {"next", "upsert"} => seeder[s].done < Len(seeder[s].asked)
          /\ seeder[s].pc = "upsert" <=> seeder[s].vid # NULL
    /\ \A id \in Present(collection) : collection.points[id].section.item = id[3]

\* A collection of before ADR 0007 has dense vectors only.
Init ==
    /\ text \in {t \in [Filings -> UNION {TextsOf[f] : f \in Filings}] :
                   \A f \in Filings : t[f] \in TextsOf[f]}
    /\ latest \in [Firms -> Versions]
    /\ \A f \in Firms : Filed(f, latest[f]) /\ \A v \in Versions : v < latest[f] => ~Filed(f, v)
    /\ collection \in {NULL, [sparse |-> FALSE, indexed |-> TRUE, points |-> NoPoints]}
    /\ seeder = [s \in Seeders |-> NoSeeder]
    /\ asker = [a \in Askers |-> NoAsker]

-----------------------------------------------------------------------------
(* seed_peers *)

At(s, pc) == seeder[s].pc = pc

SeederBecomes(s, rec) ==
    /\ seeder' = [seeder EXCEPT ![s] = rec]
    /\ UNCHANGED <<text, latest, asker>>

Goes(s, pc) == SeederBecomes(s, [seeder[s] EXCEPT !.pc = pc])

Seed(s, file) ==
    /\ At(s, "idle")
    /\ Cardinality(Busy) < MaxBusy
    /\ SeederBecomes(s, [NoSeeder EXCEPT !.pc = "ensure", !.asked = file,
                                         !.seen = {<<f, latest[f]>> : f \in Firms}])
    /\ UNCHANGED collection

\* The exit code is 0 if no entry has errors; of another one nothing is kept.
Ended(s, report) ==
    IF \E f \in Firms : report[f] = "errors" THEN NoSeeder
    ELSE [NoSeeder EXCEPT !.pc = "ok", !.asked = seeder[s].asked,
                          !.seen = seeder[s].seen, !.lost = seeder[s].lost]

AfterOneTooMany(s, n, report) ==    \* mutant: one spec too many
    IF n > Len(seeder[s].asked) THEN Ended(s, report)
    ELSE [seeder[s] EXCEPT !.pc = "next", !.done = n, !.report = report, !.vid = NULL,
                           !.sections = {}, !.errors = FALSE]

\* What follows when n specs are done.
After(s, n, report) ==
    IF n = Len(seeder[s].asked) THEN Ended(s, report)
    ELSE [seeder[s] EXCEPT !.pc = "next", !.done = n, !.report = report, !.vid = NULL,
                           !.sections = {}, !.errors = FALSE]

\* An exception nobody catches.
Raised == NoSeeder

\* ensure_collection: whatever collection exists is taken as it is.
Ensure(s) ==
    /\ At(s, "ensure")
    /\ IF collection = NULL THEN Goes(s, "create")
                            ELSE SeederBecomes(s, After(s, 0, seeder[s].report))
    /\ UNCHANGED collection

\* Another seeder may have been faster, which is an error to Qdrant.
Create(s) ==
    /\ At(s, "create")
    /\ IF collection = NULL
       THEN /\ collection' = [sparse |-> TRUE, indexed |-> FALSE, points |-> NoPoints]
            /\ Goes(s, "index")
       ELSE SeederBecomes(s, Raised) /\ UNCHANGED collection

Index(s) ==
    /\ At(s, "index")
    /\ IF collection = NULL
       THEN SeederBecomes(s, Raised) /\ UNCHANGED collection
       ELSE /\ collection' = [collection EXCEPT !.indexed = TRUE]
            /\ SeederBecomes(s, After(s, 0, seeder[s].report))

SpecOf(s) == seeder[s].asked[seeder[s].done + 1]

Reported(s, errors) ==
    [seeder[s].report EXCEPT ![SpecOf(s).crd] = IF errors THEN "errors" ELSE "clean"]

SkippedSilently(s) ==               \* mutant: logged, not reported
    After(s, seeder[s].done + 1, Reported(s, FALSE))

Skipped(s) == After(s, seeder[s].done + 1, Reported(s, TRUE))

\* With --fail-fast the process ends.  Whether it runs with it is not kept: one
\* that goes on and ends at a later exception is one that died there.
OnException(s) == {Raised, Skipped(s)}

\* The pipeline raises.
PipelineRaises(s) ==
    /\ At(s, "next")
    /\ \E rec \in OnException(s) : SeederBecomes(s, rec)
    /\ UNCHANGED collection

\* No brochure, no text in it: nothing to index, but not an exception.
NotSegmented(s) ==
    /\ At(s, "next")
    /\ SeederBecomes(s, Skipped(s))
    /\ UNCHANGED collection

\* Errors of any node, missing Items among them, go into the entry.
Segmented(s) ==
    /\ At(s, "next")
    /\ LET crd == SpecOf(s).crd
           vid == IF SpecOf(s).vid = NULL THEN latest[crd] ELSE SpecOf(s).vid
           t == text[<<crd, vid>>]
       IN  /\ Filed(crd, vid)
           /\ \E answer \in Answers, others \in BOOLEAN :
                 LET sections == Rescued(t, Sections(t), answer)
                 IN  SeederBecomes(s, [seeder[s] EXCEPT
                        !.pc = "upsert", !.vid = vid, !.sections = sections,
                        !.errors = others \/ Missing(sections) # {}])
    /\ UNCHANGED collection

Meaningful(t, sections) == {sec \in sections : ~Placeholder(t, sec)}

\* upsert_sections
Written(s) ==
    LET crd == SpecOf(s).crd
        kept == Meaningful(text[<<crd, seeder[s].vid>>], seeder[s].sections)
    IN  [id \in {PointId(crd, seeder[s].vid, sec.item) : sec \in kept} |->
            [section |-> CHOOSE sec \in kept : sec.item = id[3], band |-> SpecOf(s).band]]

Upsert(s) ==
    /\ At(s, "upsert")
    /\ Written(s) # <<>> => collection # NULL /\ collection.sparse
    /\ IF Written(s) = <<>> THEN UNCHANGED collection
       ELSE collection' = [collection EXCEPT !.points =
               [id \in Ids |-> IF id \in DOMAIN Written(s) THEN Written(s)[id] ELSE @[id]]]
    /\ SeederBecomes(s, After(s, seeder[s].done + 1, Reported(s, seeder[s].errors)))

\* No such collection, no such vector, no Qdrant.
UpsertRaises(s) ==
    /\ At(s, "upsert")
    /\ \E rec \in OnException(s) : SeederBecomes(s, rec)
    /\ UNCHANGED collection

\* The process ends, or dies.
EndSeeder(s) ==
    /\ ~At(s, "idle")
    /\ SeederBecomes(s, NoSeeder)
    /\ UNCHANGED collection

-----------------------------------------------------------------------------
(* query_peers *)

AskerBecomes(a, rec) ==
    /\ asker' = [asker EXCEPT ![a] = rec]
    /\ UNCHANGED <<text, latest, collection, seeder>>

Asking(rec) == [rec EXCEPT !.pc = "query", !.present = Present(collection)]

\* retrieve_peers_node of a run whose extractors filled in these Items; nothing
\* sets a band there.
AskForRun(a, crd, items) ==
    /\ asker[a].pc = "idle"
    /\ Cardinality(Busy) < MaxBusy
    /\ items # {}
    /\ AskerBecomes(a, Asking([NoAsker EXCEPT !.own = crd, !.k = PerItem, !.todo = items]))

\* The query CLI.
AskFromCli(a, q) ==
    /\ asker[a].pc = "idle"
    /\ Cardinality(Busy) < MaxBusy
    /\ AskerBecomes(a, Asking([NoAsker EXCEPT !.own = q.own, !.band = q.band, !.todo = {q.item},
                                              !.hybrid = q.hybrid, !.rerank = q.rerank,
                                              !.k = q.k]))

\* _build_filter
Passes(a, item, id) ==
    /\ item # NULL => id[3] = item
    /\ asker[a].band # NULL => collection.points[id].band = asker[a].band
    /\ asker[a].own # id[1]

Least(m, n) == IF m < n THEN m ELSE n

\* The best n of S, in some ranking.
Best(S, n) == {B \in SUBSET S : Cardinality(B) = Least(n, Cardinality(S))}

FetchedUnfiltered(a, matching) ==   \* mutant: filtered when it is fetched
    {matching \cap B : B \in Best(Present(collection), Prefetch)}

\* Dense vectors are compared with all points; sparse ones find those that
\* share a word with the query.
Fetched(a, matching) ==
    IF asker[a].hybrid
    THEN UNION {Best(dense \cup sparse, IF RerankTop < Prefetch THEN Prefetch ELSE RerankTop) :
                   dense \in Best(matching, Prefetch),
                   sparse \in {S \in SUBSET matching : Cardinality(S) <= Prefetch}}
    ELSE Best(matching, IF asker[a].rerank /\ asker[a].k < RerankTop THEN RerankTop
                                                                    ELSE asker[a].k)

Reranked(a, fetched) == IF asker[a].rerank THEN Best(fetched, RerankTop) ELSE {fetched}

\* What a query may answer with.
Results(a, item) ==
    LET matching == {id \in Present(collection) : Passes(a, item, id)}
    IN  UNION {Best(top, asker[a].k) :
                  top \in UNION {Reranked(a, fetched) : fetched \in Fetched(a, matching)}}

\* The Items are asked for in order.
Turn(a, i) == \A j \in asker[a].todo : NULL \notin {i, j} => i <= j

Answered(a) ==
    /\ collection # NULL
    /\ asker[a].hybrid => collection.sparse
    /\ \E i \in asker[a].todo : Turn(a, i) /\ \E ids \in Results(a, i) :
          AskerBecomes(a, [asker[a] EXCEPT
             !.todo = @ \ {i},
             !.answered = @ \cup {i},
             !.hits = @ \cup {[id |-> id, section |-> collection.points[id].section] : id \in ids}])

\* An error for this Item; the run goes on with the next.
QueryRaises(a) ==
    \E i \in asker[a].todo : Turn(a, i) /\ AskerBecomes(a, [asker[a] EXCEPT !.todo = @ \ {i}])

\* The run goes on to the redline writer, the CLI prints.
EndAsker(a) ==
    /\ asker[a].pc = "query"
    /\ asker[a].todo = {}
    /\ AskerBecomes(a, NoAsker)

-----------------------------------------------------------------------------
(* The environment. *)

\* A firm files an amendment.
Amend(f) ==
    /\ Filed(f, latest[f] + 1)
    /\ latest' = [latest EXCEPT ![f] = @ + 1]
    /\ seeder' = [s \in Seeders |->
                     IF At(s, "idle") THEN seeder[s]
                     ELSE [seeder[s] EXCEPT !.seen = @ \cup {<<f, latest'[f]>>}]]
    /\ UNCHANGED <<text, collection, asker>>

\* "Blowing away the local collection and reseeding is fine" (ADR 0007).
Drop ==
    /\ collection # NULL
    /\ collection' = NULL
    /\ seeder' = [s \in Seeders |-> IF At(s, "idle") THEN seeder[s]
                                     ELSE [seeder[s] EXCEPT !.lost = TRUE]]
    /\ asker' = [a \in Askers |-> IF asker[a].pc = "idle" THEN asker[a]
                                   ELSE [asker[a] EXCEPT !.lost = TRUE]]
    /\ UNCHANGED <<text, latest>>

Ask(a) ==
    \/ \E crd \in Firms \cup {Draft}, items \in Populated : AskForRun(a, crd, items)
    \/ \E q \in CliQueries : AskFromCli(a, q)

Next ==
    \/ \E s \in Seeders :
          \/ \E file \in SpecFiles : Seed(s, file)
          \/ Ensure(s) \/ Create(s) \/ Index(s)
          \/ PipelineRaises(s) \/ NotSegmented(s) \/ Segmented(s)
          \/ Upsert(s) \/ UpsertRaises(s) \/ EndSeeder(s)
    \/ \E a \in Askers : Ask(a) \/ Answered(a) \/ QueryRaises(a) \/ EndAsker(a)
    \/ \E f \in Firms : Amend(f)
    \/ Drop

Spec == Init /\ [][Next]_vars

-----------------------------------------------------------------------------
(* Properties. *)

\* Entry i is the last on its firm among the first n of the list.
LastOnFirm(file, n, i) == \A j \in i + 1 .. n : file[j].crd # file[i].crd

InCorpus(crd, vid) ==
    \A sec \in Meaningful(text[<<crd, vid>>], Sections(text[<<crd, vid>>])) :
       LET id == PointId(crd, vid, sec.item)
       IN  /\ id \in Present(collection)
           /\ \/ collection.points[id].section = sec
              \/ collection.points[id].section.rescued

(***************************************************************************)
(* When seed-peers exits with 0, the corpus has every section of every     *)
(* brochure it was given, or of one the firm had on file meanwhile: no     *)
(* failed upsert, failed pipeline, dense-only collection or second seeder  *)
(* goes unnoticed.  It takes that nobody dropped the collection under it.  *)
(* Of the entries of one firm it is the last that counts, because the      *)
(* report has one per firm: what became of the others nobody learns.       *)
(***************************************************************************)
SuccessMeansSeeded ==
    \A s \in Seeders :
       At(s, "ok") /\ ~seeder[s].lost =>
          \A i \in DOMAIN seeder[s].asked :
             LastOnFirm(seeder[s].asked, Len(seeder[s].asked), i) =>
             LET spec == seeder[s].asked[i]
             IN  \E v \in Versions : /\ IF spec.vid = NULL THEN <<spec.crd, v>> \in seeder[s].seen
                                                          ELSE v = spec.vid
                                    /\ InCorpus(spec.crd, v)

(***************************************************************************)
(* What a run compares its brochure with is another firm's section on that *)
(* Item, from its head to the next: no entry of a table of contents and no *)
(* fragment, as far as the segmenter is meant for the text and unless the  *)
(* rescue model brought the section.                                       *)
(***************************************************************************)
PeersAreSections ==
    \A a \in Askers : \A h \in asker[a].hits :
       LET t == text[<<h.id[1], h.id[2]>>]
       IN  /\ h.id[1] # asker[a].own
           /\ h.section.item = h.id[3]
           /\ Regular(t) /\ ~h.section.rescued => h.section \in RealSections(t)

\* The least limit a query meets: the hits wanted, those each index is asked
\* for, those the reranker keeps.
Places(r) ==
    Least(r.k, Least(IF r.hybrid THEN Prefetch ELSE r.k, IF r.rerank THEN RerankTop ELSE r.k))

(***************************************************************************)
(* Peers the corpus had when an asker began are found, up to the least     *)
(* limit on the way and never more than wanted, whatever is seeded         *)
(* meanwhile: filters come before limits, so the own firm and other Items  *)
(* use up no places, in either index, and no limit comes twice.  With the  *)
(* settings' limits that is the number wanted; -k beyond rerank_top_k is   *)
(* not honoured.                                                           *)
(***************************************************************************)
PeersFound ==
    \A a \in Askers : ~asker[a].lost /\ asker[a].band = NULL =>
       \A i \in asker[a].answered :
          LET Of(S) == {id \in S : i = NULL \/ id[3] = i}
              there == {id \in Of(asker[a].present) : id[1] # asker[a].own}
              found == Of({h.id : h \in asker[a].hits})
          IN  /\ Cardinality(found) >= Least(Places(asker[a]), Cardinality(there))
              /\ Cardinality(found) <= asker[a].k

(***************************************************************************)
(* Seeding is idempotent: the same firms seeded again, by other seeders at *)
(* the same time, after an amendment, or over what an ended process left   *)
(* behind, take no point away and put no other section under its id, but   *)
(* for a section the rescue model brings or brought.                       *)
(***************************************************************************)
RefreshedInPlace ==
    \A id \in Present(collection) :
       /\ collection'.points[id] # NULL
       /\ LET old == collection.points[id].section
              new == collection'.points[id].section
          IN  old.rescued \/ new.rescued \/ new = old

ReseedsInPlace == [][~Drop => RefreshedInPlace]_vars
=============================================================================
