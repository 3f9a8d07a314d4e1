-------------------------- MODULE PeerCorpusProofs --------------------------
(***************************************************************************)
(* The corpus of peers, for any number of seeders and askers, any peer     *)
(* lists, any brochures and amendments.                                    *)
(*                                                                         *)
(* The invariant follows a section from the text it was cut from into the  *)
(* hands of a seeder, from there into the collection, and from there to an *)
(* asker: at each of these places it is a section of the brochure it is    *)
(* filed under, or the rescue model brought it.                            *)
(***************************************************************************)
EXTENDS PeerCorpus, SegmenterProofs, FiniteSetTheorems

Brochures ==
    /\ text \in [Filings -> Texts]
    /\ \A f \in Filings : WellFormed(text[f])
    /\ latest \in [Firms -> Versions]
    /\ \A f \in Firms : Filed(f, latest[f])

\* sec is what the brochure id names says on the Item id names.
Genuine(id, sec) ==
    /\ id \in Ids
    /\ Filed(id[1], id[2])
    /\ sec \in Section
    /\ sec.item = id[3]
    /\ sec.rescued \/ sec \in Sections(text[<<id[1], id[2]>>])

Stored ==
    /\ collection \in Collection \cup {NULL}
    /\ \A id \in Present(collection) : Genuine(id, collection.points[id].section)

\* A peer list with a specification still to do.
AtWork(r) ==
    /\ r.asked \in SpecFiles
    /\ r.done < Len(r.asked)

Resolved(r) ==
    LET spec == r.asked[r.done + 1]
    IN  /\ Filed(spec.crd, r.vid)
        /\ IF spec.vid = NULL THEN <<spec.crd, r.vid>> \in r.seen ELSE r.vid = spec.vid
        /\ \E answer \in Answers :
              LET t == text[<<spec.crd, r.vid>>]
              IN  r.sections = Rescued(t, Sections(t), answer)

\* r may be the state of a seeder.
Sound(r) ==
    /\ r \in SeederState
    /\ r.pc = "idle" <=> r.asked = NULL
    /\ r.pc \in {"next", "upsert"} => AtWork(r)
    /\ r.pc = "upsert" <=> r.vid # NULL
    /\ r.pc # "idle" => \A f \in Firms : <<f, latest[f]>> \in r.seen
    /\ r.pc = "upsert" => Resolved(r)

AskerSound(r) ==
    /\ r \in AskerState
    /\ \A h \in r.hits : Genuine(h.id, h.section) /\ h.id[1] # r.own

IInv ==
    /\ Brochures
    /\ Stored
    /\ seeder \in [Seeders -> SeederState]
    /\ \A s \in Seeders : Sound(seeder[s])
    /\ asker \in [Askers -> AskerState]
    /\ \A a \in Askers : AskerSound(asker[a])

-----------------------------------------------------------------------------
\* What the sections of a resolved seeder are.
LEMMA ResolvedSections ==
    ASSUME Brochures, NEW r \in SeederState, AtWork(r), Resolved(r), r.vid \in Versions
    PROVE  LET spec == r.asked[r.done + 1]
               t == text[<<spec.crd, r.vid>>]
           IN  /\ spec \in PeerSpec
               /\ WellFormed(t)
               /\ \A sec \in r.sections :
                     /\ Genuine(PointId(spec.crd, r.vid, sec.item), sec)
                     /\ sec \in Sections(t) \/ ~Placeholder(t, sec)
               /\ \A sec \in Sections(t) :
                     \/ sec \in r.sections
                     \/ \E new \in r.sections : new.item = sec.item /\ new.rescued
  <1> DEFINE spec == r.asked[r.done + 1]
             t == text[<<spec.crd, r.vid>>]
  <1>1. spec \in PeerSpec
    <2>1. r.asked \in Seq(PeerSpec) /\ r.done \in Nat /\ r.done < Len(r.asked)
      BY SpecFilesAssumption DEF AtWork, SeederState
    <2> QED
      BY <2>1
  <1>2. Filed(spec.crd, r.vid) /\ WellFormed(t)
    BY DEF Brochures, Resolved, Filed
  <1>3. PICK answer \in Answers : r.sections = Rescued(t, Sections(t), answer)
    BY DEF Resolved
  <1>4. \A i \in DOMAIN answer : answer[i] \in Nat \X Nat
    BY AnswersAssumption
  <1>5. ASSUME NEW sec \in r.sections
        PROVE  /\ Genuine(PointId(spec.crd, r.vid, sec.item), sec)
               /\ sec \in Sections(t) \/ ~Placeholder(t, sec)
    <2>1. /\ sec \in Section
          /\ sec \in Sections(t) \/ (sec.rescued /\ ~Placeholder(t, sec))
      BY <1>2, <1>3, <1>4, RescuedSections
    <2>2. spec.crd \in Firms /\ r.vid \in Versions /\ sec.item \in Items
      BY <1>1, <2>1 DEF PeerSpec, Section
    <2> HIDE DEF spec
    <2> QED
      BY <1>2, <2>1, <2>2 DEF Genuine, PointId, Ids
  <1>6. ASSUME NEW sec \in Sections(t)
        PROVE  \/ sec \in r.sections
               \/ \E new \in r.sections : new.item = sec.item /\ new.rescued
    BY <1>3, RescuedKeeps
  <1> QED
    BY <1>1, <1>2, <1>5, <1>6

\* The brochures do not change, versions are added.
LEMMA StaysGenuine ==
    ASSUME UNCHANGED text, NEW id, NEW sec, Genuine(id, sec)
    PROVE  Genuine(id, sec)'
  BY DEF Genuine, Filed

LEMMA StaysSound ==
    ASSUME UNCHANGED <<text, latest>>, NEW r, Sound(r)
    PROVE  Sound(r)'
  BY DEF Sound, Resolved, Filed, AtWork

LEMMA StaysAskerSound ==
    ASSUME UNCHANGED text, NEW r, AskerSound(r)
    PROVE  AskerSound(r)'
  BY StaysGenuine DEF AskerSound

-----------------------------------------------------------------------------
\* The states a seeder goes to.
LEMMA NoSeederSound == NoSeeder \in SeederState /\ Sound(NoSeeder)
  <1>1. NoSeeder \in SeederState
    BY DEF NoSeeder, SeederState
  <1> QED
    BY <1>1 DEF Sound, NoSeeder

LEMMA ReportSound ==
    ASSUME NEW r \in SeederState, AtWork(r), NEW e \in {"clean", "errors"}
    PROVE  /\ r.asked[r.done + 1] \in PeerSpec
           /\ [r.report EXCEPT ![r.asked[r.done + 1].crd] = e] \in
                 [Firms -> {NULL, "clean", "errors"}]
           /\ r.done + 1 \in Nat /\ r.done + 1 <= Len(r.asked)
  <1>1. r.asked \in Seq(PeerSpec) /\ r.done \in Nat /\ r.done < Len(r.asked)
    BY SpecFilesAssumption DEF AtWork, SeederState
  <1>2. r.asked[r.done + 1] \in PeerSpec
    BY <1>1
  <1>3. r.report \in [Firms -> {NULL, "clean", "errors"}]
    BY DEF SeederState
  <1>4. r.asked[r.done + 1].crd \in Firms
    BY <1>2 DEF PeerSpec
  <1> QED
    BY <1>1, <1>2, <1>3, <1>4

LEMMA AfterSound ==
    ASSUME NEW s \in Seeders, seeder[s] \in SeederState, Sound(seeder[s]), seeder[s].pc # "idle",
           NEW n \in Nat, n <= Len(seeder[s].asked),
           NEW report \in [Firms -> {NULL, "clean", "errors"}]
    PROVE  Sound(After(s, n, report))
  <1> DEFINE r == seeder[s]
  <1>1. /\ r \in SeederState /\ r.asked # NULL /\ r.asked \in SpecFiles
        /\ \A f \in Firms : <<f, latest[f]>> \in r.seen
    BY DEF Sound, SeederState
  <1>2. Len(r.asked) \in Nat
    BY <1>1, SpecFilesAssumption
  <1>3. CASE n = Len(r.asked)
    <2>1. Sound([NoSeeder EXCEPT !.pc = "ok", !.asked = r.asked, !.seen = r.seen, !.lost = r.lost])
      <3> DEFINE q == [NoSeeder EXCEPT !.pc = "ok", !.asked = r.asked,
                                       !.seen = r.seen, !.lost = r.lost]
      <3>1. q \in SeederState
        BY <1>1, NoSeederSound DEF SeederState
      <3>2. q.pc = "ok" /\ q.asked = r.asked /\ q.vid = NULL /\ q.seen = r.seen
        BY DEF NoSeeder
      <3> HIDE DEF q
      <3>3. Sound(q)
        BY <1>1, <3>1, <3>2 DEF Sound
      <3> QED
        BY <3>3 DEF q
    <2> QED
      BY <1>3, <2>1, NoSeederSound DEF After, Ended
  <1>4. CASE n # Len(r.asked)
    <2> DEFINE q == [r EXCEPT !.pc = "next", !.done = n, !.report = report, !.vid = NULL,
                              !.sections = {}, !.errors = FALSE]
    <2>1. q \in SeederState
      BY <1>1 DEF SeederState
    <2>2. q.pc = "next" /\ q.asked = r.asked /\ q.vid = NULL /\ q.seen = r.seen /\ q.done = n
      BY <1>1 DEF SeederState
    <2>3. After(s, n, report) = q
      BY <1>4 DEF After
    <2> HIDE DEF q
    <2>4. Sound(q)
      BY <1>1, <1>2, <1>4, <2>1, <2>2 DEF Sound, AtWork
    <2> QED
      BY <2>3, <2>4
  <1> QED
    BY <1>3, <1>4

LEMMA SkippedSound ==
    ASSUME NEW s \in Seeders, Sound(seeder[s]), seeder[s].pc \in {"next", "upsert"}
    PROVE  \A rec \in OnException(s) : Sound(rec)
  <1>1. Sound(Skipped(s))
    BY ReportSound, AfterSound DEF Sound, Skipped, Reported, SpecOf
  <1> QED
    BY <1>1, NoSeederSound DEF OnException, Raised

-----------------------------------------------------------------------------
LEMMA StoredStays ==
    ASSUME UNCHANGED <<text, collection>>, Stored
    PROVE  Stored'
  BY StaysGenuine DEF Stored, Present

\* A step of a seeder is sound when the state it goes to and what it leaves
\* in the collection are.
LEMMA SeederStep ==
    ASSUME IInv, NEW s \in Seeders, NEW rec, Sound(rec), SeederBecomes(s, rec),
           collection' = collection \/ Stored'
    PROVE  IInv'
  <1>1. /\ UNCHANGED <<text, latest, asker>>
        /\ seeder' = [seeder EXCEPT ![s] = rec]
    BY DEF SeederBecomes
  <1>2. Brochures'
    BY <1>1 DEF IInv, Brochures, Filed
  <1>3. Stored'
    BY <1>1, StoredStays DEF IInv
  <1>4. seeder' \in [Seeders -> SeederState] /\ \A q \in Seeders : Sound(seeder'[q])
    BY <1>1 DEF IInv, Sound
  <1>5. \A q \in Seeders : Sound(seeder[q])'
    BY <1>1, <1>4, StaysSound
  <1>6. \A a \in Askers : AskerSound(asker[a])'
    BY <1>1, StaysAskerSound DEF IInv
  <1> QED
    BY <1>1, <1>2, <1>3, <1>4, <1>5, <1>6 DEF IInv

LEMMA AskerStep ==
    ASSUME IInv, NEW a \in Askers, NEW rec, AskerSound(rec), AskerBecomes(a, rec)
    PROVE  IInv'
  <1>1. /\ UNCHANGED <<text, latest, collection, seeder>>
        /\ asker' = [asker EXCEPT ![a] = rec]
    BY DEF AskerBecomes
  <1>2. Brochures'
    BY <1>1 DEF IInv, Brochures, Filed
  <1>3. Stored'
    BY <1>1, StoredStays DEF IInv
  <1>4. asker' \in [Askers -> AskerState] /\ \A b \in Askers : AskerSound(asker'[b])
    BY <1>1 DEF IInv, AskerSound
  <1>5. \A b \in Askers : AskerSound(asker[b])'
    BY <1>1, <1>4, StaysAskerSound
  <1>6. \A s \in Seeders : Sound(seeder[s])'
    BY <1>1, StaysSound DEF IInv
  <1> QED
    BY <1>1, <1>2, <1>3, <1>4, <1>5, <1>6 DEF IInv

-----------------------------------------------------------------------------
LEMMA InitIInv == Init => IInv
  <1> SUFFICES ASSUME Init PROVE IInv
    OBVIOUS
  <1>1. Brochures
    <2>1. \A f \in Filings : WellFormed(text[f])
      BY TextsAssumption DEF Init
    <2>2. text \in [Filings -> Texts]
      BY <2>1 DEF Init, WellFormed
    <2> QED
      BY <2>1, <2>2 DEF Init, Brochures
  <1>2. Stored
    <2>1. NoPoints \in [Ids -> Point \cup {NULL}] /\ \A id \in Ids : NoPoints[id] = NULL
      BY DEF NoPoints
    <2>2. [sparse |-> FALSE, indexed |-> TRUE, points |-> NoPoints] \in Collection
      BY <2>1 DEF Collection
    <2>4. collection \in Collection \cup {NULL}
      BY <2>2 DEF Init
    <2>3. Present(collection) = {}
      BY <2>1 DEF Init, Present
    <2> QED
      BY <2>3, <2>4 DEF Stored
  <1>3. seeder \in [Seeders -> SeederState] /\ \A s \in Seeders : Sound(seeder[s])
    BY NoSeederSound DEF Init
  <1>4. NoAsker \in AskerState /\ NoAsker.hits = {}
    BY DEF NoAsker, AskerState
  <1>5. asker \in [Askers -> AskerState] /\ \A a \in Askers : AskerSound(asker[a])
    BY <1>4 DEF Init, AskerSound
  <1> QED
    BY <1>1, <1>2, <1>3, <1>5 DEF IInv

LEMMA SeedSound ==
    ASSUME IInv, NEW s \in Seeders, NEW file \in SpecFiles, Seed(s, file)
    PROVE  IInv'
  <1> DEFINE rec == [NoSeeder EXCEPT !.pc = "ensure", !.asked = file,
                                     !.seen = {<<f, latest[f]>> : f \in Firms}]
  <1>1. {<<f, latest[f]>> : f \in Firms} \in SUBSET Filings
    BY DEF IInv, Brochures, Filed
  <1>2. rec \in SeederState
    BY <1>1, NoSeederSound DEF SeederState
  <1>3. /\ rec.pc = "ensure" /\ rec.asked = file /\ rec.vid = NULL
        /\ rec.seen = {<<f, latest[f]>> : f \in Firms}
    BY DEF NoSeeder
  <1>4. SeederBecomes(s, rec) /\ collection' = collection
    BY DEF Seed
  <1> HIDE DEF rec
  <1>5. Sound(rec)
    BY <1>2, <1>3, NullAssumption DEF Sound
  <1> QED
    BY <1>4, <1>5, SeederStep

\* An empty collection, or one with indexes.
LEMMA EnsureSound ==
    ASSUME IInv, NEW s \in Seeders, Ensure(s) \/ Create(s) \/ Index(s)
    PROVE  IInv'
  <1> DEFINE r == seeder[s]
  <1>1. r \in SeederState /\ Sound(r) /\ r.pc \in {"ensure", "create", "index"}
    BY DEF IInv, Ensure, Create, Index, At
  <1>2. r.asked \in SpecFiles /\ Len(r.asked) \in Nat /\ r.vid = NULL
    BY <1>1, SpecFilesAssumption DEF Sound, SeederState
  <1>3. Sound(After(s, 0, r.report))
    BY <1>1, <1>2, AfterSound DEF SeederState
  <1>4. ASSUME NEW pc \in {"create", "index"}
        PROVE  Sound([r EXCEPT !.pc = pc])
    <2> DEFINE q == [r EXCEPT !.pc = pc]
    <2>1. q \in SeederState /\ q.pc = pc /\ q.asked = r.asked /\ q.vid = r.vid /\ q.seen = r.seen
      BY <1>1 DEF SeederState
    <2> HIDE DEF q
    <2>2. Sound(q)
      BY <1>1, <1>2, <2>1, NullAssumption DEF Sound
    <2> QED
      BY <2>2 DEF q
  <1>5. CASE Ensure(s)
    BY <1>3, <1>4, <1>5, SeederStep DEF Ensure, Goes
  <1>6. CASE Create(s) /\ collection = NULL
    <2>1. collection' = [sparse |-> TRUE, indexed |-> FALSE, points |-> NoPoints]
      BY <1>6 DEF Create
    <2>2. NoPoints \in [Ids -> Point \cup {NULL}] /\ \A id \in Ids : NoPoints[id] = NULL
      BY DEF NoPoints
    <2>3. Stored'
      BY <2>1, <2>2 DEF Stored, Present, Collection
    <2> QED
      BY <1>4, <1>6, <2>3, SeederStep DEF Create, Goes
  <1>7. CASE Index(s) /\ collection # NULL
    <2>1. collection' = [collection EXCEPT !.indexed = TRUE] /\ text' = text
      BY <1>7 DEF Index, SeederBecomes
    <2>2. collection \in Collection
      BY <1>7 DEF IInv, Stored
    <2>3. collection' \in Collection /\ collection'.points = collection.points
      BY <2>1, <2>2 DEF Collection
    <2>4. Present(collection)' = Present(collection) \/ collection' = NULL
      BY <1>7, <2>3 DEF Present
    <2>5. ASSUME NEW id \in Present(collection)'
          PROVE  Genuine(id, collection.points[id].section)'
      <3>1. collection' # NULL
        BY DEF Present
      <3>2. id \in Present(collection)
        BY <2>4, <3>1
      <3>3. Genuine(id, collection.points[id].section)
        BY <3>2 DEF IInv, Stored
      <3> QED
        BY <2>1, <2>3, <3>3 DEF Genuine, Filed
    <2>6. Stored'
      BY <2>3, <2>5 DEF Stored, Present
    <2> QED
      BY <1>3, <1>7, <2>6, SeederStep DEF Index
  <1>8. CASE (Create(s) /\ collection # NULL) \/ (Index(s) /\ collection = NULL)
    BY <1>8, NoSeederSound, SeederStep DEF Create, Index, Raised
  <1> QED
    BY <1>5, <1>6, <1>7, <1>8

LEMMA SkipSound ==
    ASSUME IInv, NEW s \in Seeders,
           PipelineRaises(s) \/ NotSegmented(s) \/ UpsertRaises(s) \/ EndSeeder(s)
    PROVE  IInv'
  <1>1. Sound(seeder[s])
    BY DEF IInv
  <1>2. CASE PipelineRaises(s) \/ NotSegmented(s) \/ UpsertRaises(s)
    <2>1. seeder[s].pc \in {"next", "upsert"}
      BY <1>2 DEF PipelineRaises, NotSegmented, UpsertRaises, At
    <2>2. \A rec \in OnException(s) : Sound(rec)
      BY <1>1, <2>1, SkippedSound
    <2>3. Skipped(s) \in OnException(s)
      BY DEF OnException
    <2>4. /\ \E rec \in OnException(s) : SeederBecomes(s, rec)
          /\ collection' = collection
      BY <1>2, <2>3 DEF PipelineRaises, NotSegmented, UpsertRaises
    <2> QED
      BY <2>2, <2>4, SeederStep
  <1>3. CASE EndSeeder(s)
    BY <1>3, NoSeederSound, SeederStep DEF EndSeeder
  <1> QED
    BY <1>2, <1>3

LEMMA SegmentedSound ==
    ASSUME IInv, NEW s \in Seeders, Segmented(s)
    PROVE  IInv'
  <1> DEFINE r == seeder[s]
             crd == SpecOf(s).crd
             vid == IF SpecOf(s).vid = NULL THEN latest[crd] ELSE SpecOf(s).vid
             t == text[<<crd, vid>>]
  <1>1. PICK answer \in Answers, others \in BOOLEAN :
           SeederBecomes(s, [r EXCEPT
              !.pc = "upsert", !.vid = vid, !.sections = Rescued(t, Sections(t), answer),
              !.errors = others \/ Missing(Rescued(t, Sections(t), answer)) # {}])
    BY DEF Segmented
  <1>2. Filed(crd, vid) /\ collection' = collection /\ r.pc = "next"
    BY DEF Segmented, At
  <1>3. r \in SeederState /\ Sound(r) /\ AtWork(r)
    BY <1>2 DEF IInv, Sound
  <1>4. /\ SpecOf(s) \in PeerSpec
        /\ SpecOf(s) = r.asked[r.done + 1]
    BY <1>3, ReportSound DEF SpecOf
  <1>5. vid \in Versions /\ vid # NULL
    BY <1>2, FilingsAssumption, NullAssumption DEF Filed
  <1>6. WellFormed(t)
    BY <1>2 DEF IInv, Brochures, Filed
  <1>7. \A i \in DOMAIN answer : answer[i] \in Nat \X Nat
    BY AnswersAssumption
  <1>8. Rescued(t, Sections(t), answer) \in SUBSET Section
    BY <1>6, <1>7, RescuedSections
  <1>9. SpecOf(s).vid = NULL => <<crd, vid>> \in r.seen
    BY <1>2, <1>3, <1>4 DEF Sound, PeerSpec
  <1> HIDE DEF vid, t
  <1> DEFINE errors == others \/ Missing(Rescued(t, Sections(t), answer)) # {}
             q == [r EXCEPT !.pc = "upsert", !.vid = vid,
                            !.sections = Rescued(t, Sections(t), answer), !.errors = errors]
  <1>10. errors \in BOOLEAN
    OBVIOUS
  <1> HIDE DEF errors
  <1>11. /\ q \in SeederState
         /\ q.pc = "upsert" /\ q.asked = r.asked /\ q.vid = vid /\ q.seen = r.seen
         /\ q.done = r.done /\ q.sections = Rescued(t, Sections(t), answer)
    BY <1>3, <1>5, <1>8, <1>10 DEF SeederState
  <1>12. SeederBecomes(s, q)
    BY <1>1 DEF vid, t, errors
  <1> HIDE DEF q
  <1>13. AtWork(q)
    BY <1>3, <1>11 DEF AtWork
  <1>14. Resolved(q)
    <2>1. Filed(crd, q.vid)
      BY <1>2, <1>11 DEF vid
    <2>2. IF SpecOf(s).vid = NULL THEN <<crd, q.vid>> \in q.seen ELSE q.vid = SpecOf(s).vid
      BY <1>9, <1>11 DEF vid
    <2>3. q.sections = Rescued(text[<<crd, q.vid>>], Sections(text[<<crd, q.vid>>]), answer)
      BY <1>11 DEF t
    <2>4. q.asked[q.done + 1] = SpecOf(s)
      BY <1>4, <1>11
    <2> QED
      BY <2>1, <2>2, <2>3, <2>4 DEF Resolved
  <1>15. q.asked # NULL /\ \A f \in Firms : <<f, latest[f]>> \in q.seen
    BY <1>2, <1>3, <1>11 DEF Sound
  <1>16. Sound(q)
    BY <1>5, <1>11, <1>13, <1>14, <1>15 DEF Sound
  <1> QED
    BY <1>2, <1>12, <1>16, SeederStep

\* What is known of a seeder about to write, and what it writes.
LEMMA ToWrite ==
    ASSUME IInv, NEW s \in Seeders, seeder[s].pc = "upsert"
    PROVE  /\ seeder[s] \in SeederState
           /\ AtWork(seeder[s]) /\ Resolved(seeder[s])
           /\ seeder[s].vid \in Versions
           /\ SpecOf(s) = seeder[s].asked[seeder[s].done + 1]
           /\ SpecOf(s) \in PeerSpec
  <1>1. seeder[s] \in SeederState /\ Sound(seeder[s])
    BY DEF IInv
  <1> QED
    BY <1>1, ReportSound DEF Sound, SpecOf, SeederState

LEMMA WrittenGenuine ==
    ASSUME IInv, NEW s \in Seeders, seeder[s].pc = "upsert", NEW id \in DOMAIN Written(s)
    PROVE  /\ Written(s)[id] \in Point
           /\ Genuine(id, Written(s)[id].section)
  <1> DEFINE r == seeder[s]
             crd == SpecOf(s).crd
             kept == Meaningful(text[<<crd, r.vid>>], r.sections)
  <1>1. PICK sec \in kept : id = PointId(crd, r.vid, sec.item)
    BY DEF Written
  <1>2. id[3] = sec.item
    BY <1>1 DEF PointId
  <1> DEFINE new == CHOOSE n \in kept : n.item = id[3]
  <1>3. new \in kept /\ new.item = id[3]
    BY <1>1, <1>2
  <1>4. Written(s)[id] = [section |-> new, band |-> SpecOf(s).band]
    BY DEF Written
  <1> HIDE DEF new
  <1>5. new \in r.sections
    BY <1>3 DEF Meaningful
  <1>6. Genuine(PointId(crd, r.vid, new.item), new)
    BY <1>5, ToWrite, ResolvedSections DEF IInv
  <1>7. Genuine(id, new)
    BY <1>1, <1>2, <1>3, <1>6
  <1>8. SpecOf(s).band \in Bands \cup {NULL}
    BY ToWrite DEF PeerSpec
  <1> QED
    BY <1>4, <1>7, <1>8 DEF Genuine, Point

\* What an upsert leaves.
LEMMA UpsertPoints ==
    ASSUME IInv, NEW s \in Seeders, Upsert(s), Written(s) # <<>>
    PROVE  /\ collection \in Collection /\ collection' \in Collection
           /\ \A id \in Ids : collection'.points[id] =
                 IF id \in DOMAIN Written(s) THEN Written(s)[id] ELSE collection.points[id]
  <1>1. /\ collection # NULL
        /\ collection' = [collection EXCEPT !.points =
               [id \in Ids |-> IF id \in DOMAIN Written(s) THEN Written(s)[id] ELSE @[id]]]
    BY DEF Upsert
  <1>2. collection \in Collection
    BY <1>1 DEF IInv, Stored
  <1>3. \A id \in DOMAIN Written(s) : Written(s)[id] \in Point
    BY WrittenGenuine DEF Upsert, At
  <1> DEFINE new == [id \in Ids |-> IF id \in DOMAIN Written(s) THEN Written(s)[id]
                                    ELSE collection.points[id]]
  <1>4. new \in [Ids -> Point \cup {NULL}]
    BY <1>2, <1>3 DEF Collection
  <1>5. collection' = [collection EXCEPT !.points = new]
    BY <1>1
  <1>6. \A id \in Ids : new[id] = IF id \in DOMAIN Written(s) THEN Written(s)[id]
                                  ELSE collection.points[id]
    OBVIOUS
  <1> HIDE DEF new
  <1> QED
    BY <1>2, <1>4, <1>5, <1>6 DEF Collection

LEMMA UpsertSound ==
    ASSUME IInv, NEW s \in Seeders, Upsert(s)
    PROVE  IInv'
  <1>1. /\ seeder[s].pc = "upsert"
        /\ seeder[s] \in SeederState
        /\ Sound(seeder[s])
        /\ text' = text
    BY DEF IInv, Upsert, At, SeederBecomes
  <1>2. Sound(After(s, seeder[s].done + 1, Reported(s, seeder[s].errors)))
    BY <1>1, ToWrite, ReportSound, AfterSound DEF Reported, SeederState
  <1>3. CASE Written(s) = <<>>
    BY <1>2, <1>3, SeederStep DEF Upsert
  <1>4. CASE Written(s) # <<>>
    <2>1. ASSUME NEW id \in Present(collection)'
          PROVE  Genuine(id, collection.points[id].section)'
      <3>1. id \in Ids /\ collection'.points[id] # NULL
        BY DEF Present
      <3>2. CASE id \in DOMAIN Written(s)
        <4>1. collection'.points[id] = Written(s)[id]
          BY <1>4, <3>1, <3>2, UpsertPoints
        <4>2. Genuine(id, Written(s)[id].section)
          BY <1>1, <3>2, WrittenGenuine
        <4> QED
          BY <1>1, <4>1, <4>2 DEF Genuine, Filed
      <3>3. CASE id \notin DOMAIN Written(s)
        <4>1. collection'.points[id] = collection.points[id]
          BY <1>4, <3>1, <3>3, UpsertPoints
        <4>2. collection # NULL
          BY <1>4 DEF Upsert
        <4>3. id \in Present(collection)
          BY <3>1, <4>1, <4>2 DEF Present
        <4>4. Genuine(id, collection.points[id].section)
          BY <4>3 DEF IInv, Stored
        <4> QED
          BY <1>1, <4>1, <4>4 DEF Genuine, Filed
      <3> QED
        BY <3>2, <3>3
    <2>2. Stored'
      BY <1>4, <2>1, UpsertPoints DEF Stored, Present
    <2> QED
      BY <1>2, <2>2, SeederStep DEF Upsert
  <1> QED
    BY <1>3, <1>4

-----------------------------------------------------------------------------
LEMMA NoAskerSound == NoAsker \in AskerState /\ NoAsker.hits = {} /\ AskerSound(NoAsker)
  BY DEF NoAsker, AskerState, AskerSound

LEMMA AskSound ==
    ASSUME IInv, NEW a \in Askers, Ask(a)
    PROVE  IInv'
  <1>0. Present(collection) \in SUBSET Ids
    BY DEF Present
  <1>1. CASE \E crd \in Firms \cup {Draft}, items \in Populated : AskForRun(a, crd, items)
    <2>1. PICK crd \in Firms \cup {Draft}, items \in Populated : AskForRun(a, crd, items)
      BY <1>1
    <2> DEFINE q == Asking([NoAsker EXCEPT !.own = crd, !.k = PerItem, !.todo = items])
    <2>2. q \in AskerState /\ q.hits = {}
      BY <1>0, NoAskerSound, QueriedAssumption, LimitAssumption DEF Asking, AskerState
    <2>3. AskerBecomes(a, q)
      BY <2>1 DEF AskForRun
    <2> HIDE DEF q
    <2> QED
      BY <2>2, <2>3, AskerStep DEF AskerSound
  <1>2. CASE \E cli \in CliQueries : AskFromCli(a, cli)
    <2>1. PICK cli \in CliQueries : AskFromCli(a, cli)
      BY <1>2
    <2> DEFINE p == [NoAsker EXCEPT !.own = cli.own, !.band = cli.band, !.todo = {cli.item},
                                    !.hybrid = cli.hybrid, !.rerank = cli.rerank, !.k = cli.k]
               q == Asking(p)
    <2>2. /\ cli.k \in Nat /\ cli.own \in Firms \cup {NULL} /\ cli.band \in Bands \cup {NULL}
          /\ cli.item \in Items \cup {NULL} /\ cli.hybrid \in BOOLEAN /\ cli.rerank \in BOOLEAN
      BY QueriedAssumption
    <2>3. p \in AskerState /\ p.hits = {}
      BY <2>2, NoAskerSound DEF AskerState
    <2>4. q \in AskerState /\ q.hits = {}
      <3> HIDE DEF p
      <3> QED
        BY <1>0, <2>3 DEF Asking, AskerState
    <2>5. AskerBecomes(a, q)
      BY <2>1 DEF AskFromCli
    <2> HIDE DEF q
    <2> QED
      BY <2>4, <2>5, AskerStep DEF AskerSound
  <1> QED
    BY <1>1, <1>2 DEF Ask

\* A query answers with points that pass its filter.
LEMMA ResultsPass ==
    ASSUME NEW a, NEW i, NEW ids \in Results(a, i), NEW id \in ids
    PROVE  id \in Present(collection) /\ Passes(a, i, id)
  <1> DEFINE matching == {m \in Present(collection) : Passes(a, i, m)}
  <1>1. PICK fetched \in Fetched(a, matching) :
           \E top \in Reranked(a, fetched) : ids \in Best(top, asker[a].k)
    BY DEF Results
  <1>2. ids \subseteq fetched
    BY <1>1 DEF Reranked, Best
  <1> HIDE DEF matching
  <1>3. fetched \subseteq matching
    <2>1. CASE asker[a].hybrid
      <3>1. PICK dense \in Best(matching, Prefetch),
                 sparse \in {S \in SUBSET matching : Cardinality(S) <= Prefetch} :
              fetched \in Best(dense \cup sparse, IF RerankTop < Prefetch THEN Prefetch ELSE RerankTop)
        BY <1>1, <2>1 DEF Fetched
      <3> QED
        BY <3>1 DEF Best
    <2>2. CASE ~asker[a].hybrid
      BY <1>1, <2>2 DEF Fetched, Best
    <2> QED
      BY <2>1, <2>2
  <1> QED
    BY <1>2, <1>3 DEF matching

LEMMA AnsweredSound ==
    ASSUME IInv, NEW a \in Askers, Answered(a)
    PROVE  IInv'
  <1>0. collection \in Collection /\ asker[a] \in AskerState /\ AskerSound(asker[a])
    BY DEF Answered, IInv, Stored
  <1>i. PICK i \in asker[a].todo : \E ids \in Results(a, i) :
           AskerBecomes(a, [asker[a] EXCEPT
             !.todo = @ \ {i},
             !.answered = @ \cup {i},
             !.hits = @ \cup {[id |-> id, section |-> collection.points[id].section] : id \in ids}])
    BY DEF Answered
  <1>1. PICK ids \in Results(a, i) :
           AskerBecomes(a, [asker[a] EXCEPT
             !.todo = @ \ {i},
             !.answered = @ \cup {i},
             !.hits = @ \cup {[id |-> id, section |-> collection.points[id].section] : id \in ids}])
    BY <1>i
  <1>2. ASSUME NEW id \in ids
        PROVE  /\ id \in Ids
               /\ id[1] # asker[a].own
               /\ Genuine(id, collection.points[id].section)
    <2>1. id \in Present(collection) /\ Passes(a, i, id)
      BY ResultsPass
    <2> QED
      BY <2>1 DEF IInv, Stored, Present, Passes
  <1> DEFINE new == {[id |-> id, section |-> collection.points[id].section] : id \in ids}
             q == [asker[a] EXCEPT !.todo = @ \ {i}, !.answered = @ \cup {i},
                                   !.hits = @ \cup new]
  <1>3. \A h \in new : h \in Hit /\ Genuine(h.id, h.section) /\ h.id[1] # asker[a].own
    BY <1>2 DEF Hit, Genuine
  <1>4. AskerBecomes(a, q)
    BY <1>1
  <1> HIDE DEF new
  <1>5. i \in Items \cup {NULL}
    BY <1>0 DEF AskerState
  <1>6. /\ q \in AskerState
        /\ q.own = asker[a].own
        /\ q.hits = asker[a].hits \cup new
    BY <1>0, <1>3, <1>5 DEF AskerState
  <1> HIDE DEF q
  <1>7. AskerSound(q)
    BY <1>0, <1>3, <1>6 DEF AskerSound
  <1> QED
    BY <1>4, <1>7, AskerStep

LEMMA QueryEndsSound ==
    ASSUME IInv, NEW a \in Askers, QueryRaises(a) \/ EndAsker(a)
    PROVE  IInv'
  <1>1. CASE QueryRaises(a)
    <2>0. asker[a] \in AskerState /\ AskerSound(asker[a])
      BY DEF IInv
    <2>1. PICK i \in asker[a].todo : AskerBecomes(a, [asker[a] EXCEPT !.todo = @ \ {i}])
      BY <1>1 DEF QueryRaises
    <2> DEFINE q == [asker[a] EXCEPT !.todo = @ \ {i}]
    <2>2. q \in AskerState /\ q.own = asker[a].own /\ q.hits = asker[a].hits
      BY <2>0 DEF AskerState
    <2>3. AskerBecomes(a, q)
      BY <2>1
    <2> HIDE DEF q
    <2> QED
      BY <2>0, <2>2, <2>3, AskerStep DEF AskerSound
  <1>2. CASE EndAsker(a)
    BY <1>2, NoAskerSound, AskerStep DEF EndAsker
  <1> QED
    BY <1>1, <1>2

-----------------------------------------------------------------------------
LEMMA AmendSound ==
    ASSUME IInv, NEW f \in Firms, Amend(f)
    PROVE  IInv'
  <1>1. /\ Filed(f, latest[f] + 1)
        /\ latest' = [latest EXCEPT ![f] = @ + 1]
        /\ seeder' = [s \in Seeders |->
                     IF At(s, "idle") THEN seeder[s]
                     ELSE [seeder[s] EXCEPT !.seen = @ \cup {<<f, latest'[f]>>}]]
        /\ UNCHANGED <<text, collection, asker>>
    BY DEF Amend
  <1>2. latest[f] + 1 \in Versions /\ latest'[f] = latest[f] + 1
    BY <1>1, FilingsAssumption DEF Filed, IInv, Brochures
  <1>3. Brochures'
    BY <1>1, <1>2 DEF IInv, Brochures, Filed
  <1>4. Stored'
    BY <1>1, StoredStays DEF IInv
  <1>5. \A a \in Askers : AskerSound(asker[a])'
    BY <1>1, StaysAskerSound DEF IInv
  <1>6. ASSUME NEW s \in Seeders
        PROVE  seeder'[s] \in SeederState /\ Sound(seeder[s])'
    <2>1. seeder[s] \in SeederState /\ Sound(seeder[s])
      BY DEF IInv
    <2>2. CASE At(s, "idle")
      <3>1. seeder'[s] = seeder[s]
        BY <1>1, <2>2
      <3> QED
        BY <2>1, <2>2, <3>1 DEF Sound, At
    <2>3. CASE ~At(s, "idle")
      <3> DEFINE q == [seeder[s] EXCEPT !.seen = @ \cup {<<f, latest[f] + 1>>}]
      <3>1. seeder'[s] = q
        BY <1>1, <1>2, <2>3
      <3>2. <<f, latest[f] + 1>> \in Filings
        BY <1>1 DEF Filed
      <3>3. /\ q \in SeederState
            /\ q.pc = seeder[s].pc /\ q.asked = seeder[s].asked /\ q.vid = seeder[s].vid
            /\ q.done = seeder[s].done /\ q.sections = seeder[s].sections
            /\ q.seen = seeder[s].seen \cup {<<f, latest[f] + 1>>}
        BY <2>1, <3>2 DEF SeederState
      <3> HIDE DEF q
      <3>4. \A g \in Firms : <<g, latest'[g]>> \in q.seen
        BY <1>1, <1>2, <2>1, <2>3, <3>3 DEF Sound, At, IInv, Brochures
      <3>5. q.pc = "upsert" => Resolved(q)
        BY <2>1, <3>3 DEF Sound, Resolved
      <3>6. q.pc \in {"next", "upsert"} => AtWork(q)
        BY <2>1, <3>3 DEF Sound, AtWork
      <3>7. q.pc = "upsert" => Resolved(seeder[s])'
        BY <1>1, <3>1, <3>5 DEF Resolved, Filed
      <3>8. (q.pc \in {"next", "upsert"} => AtWork(seeder[s])')
        BY <3>1, <3>6 DEF AtWork
      <3> QED
        BY <2>1, <3>1, <3>3, <3>4, <3>7, <3>8 DEF Sound
    <2> QED
      BY <2>2, <2>3
  <1>7. seeder' \in [Seeders -> SeederState]
    BY <1>1, <1>6
  <1> QED
    BY <1>1, <1>3, <1>4, <1>5, <1>6, <1>7 DEF IInv

LEMMA DropSound ==
    ASSUME IInv, Drop
    PROVE  IInv'
  <1>1. /\ collection' = NULL
        /\ seeder' = [s \in Seeders |-> IF At(s, "idle") THEN seeder[s]
                                     ELSE [seeder[s] EXCEPT !.lost = TRUE]]
        /\ asker' = [a \in Askers |-> IF asker[a].pc = "idle" THEN asker[a]
                                   ELSE [asker[a] EXCEPT !.lost = TRUE]]
        /\ UNCHANGED <<text, latest>>
    BY DEF Drop
  <1>2. Brochures'
    BY <1>1 DEF IInv, Brochures, Filed
  <1>3. Stored'
    BY <1>1 DEF Stored, Present
  <1>4. ASSUME NEW s \in Seeders
        PROVE  seeder'[s] \in SeederState /\ Sound(seeder'[s])
    <2>1. seeder[s] \in SeederState /\ Sound(seeder[s])
      BY DEF IInv
    <2> DEFINE q == [seeder[s] EXCEPT !.lost = TRUE]
    <2>2. /\ q \in SeederState
          /\ q.pc = seeder[s].pc /\ q.asked = seeder[s].asked /\ q.vid = seeder[s].vid
          /\ q.done = seeder[s].done /\ q.sections = seeder[s].sections /\ q.seen = seeder[s].seen
      BY <2>1 DEF SeederState
    <2>3. seeder'[s] = seeder[s] \/ seeder'[s] = q
      BY <1>1
    <2> HIDE DEF q
    <2>4. Sound(q)
      BY <2>1, <2>2 DEF Sound, AtWork, Resolved
    <2> QED
      BY <2>1, <2>2, <2>3, <2>4
  <1>5. ASSUME NEW a \in Askers
        PROVE  asker'[a] \in AskerState /\ AskerSound(asker'[a])
    <2>1. asker[a] \in AskerState /\ AskerSound(asker[a])
      BY DEF IInv
    <2> DEFINE q == [asker[a] EXCEPT !.lost = TRUE]
    <2>2. q \in AskerState /\ q.hits = asker[a].hits /\ q.own = asker[a].own
      BY <2>1 DEF AskerState
    <2>3. asker'[a] = asker[a] \/ asker'[a] = q
      BY <1>1
    <2> HIDE DEF q
    <2> QED
      BY <2>1, <2>2, <2>3 DEF AskerSound
  <1>6. \A s \in Seeders : Sound(seeder[s])'
    BY <1>1, <1>4, StaysSound
  <1>7. \A a \in Askers : AskerSound(asker[a])'
    BY <1>1, <1>5, StaysAskerSound
  <1>8. seeder' \in [Seeders -> SeederState] /\ asker' \in [Askers -> AskerState]
    BY <1>1, <1>4, <1>5
  <1> QED
    BY <1>2, <1>3, <1>6, <1>7, <1>8 DEF IInv

-----------------------------------------------------------------------------
LEMMA NextIInv == IInv /\ [Next]_vars => IInv'
  <1> SUFFICES ASSUME IInv, [Next]_vars PROVE IInv'
    OBVIOUS
  <1>1. ASSUME NEW s \in Seeders, NEW file \in SpecFiles, Seed(s, file)
        PROVE  IInv'
    BY <1>1, SeedSound
  <1>2. ASSUME NEW s \in Seeders, Ensure(s) \/ Create(s) \/ Index(s)
        PROVE  IInv'
    BY <1>2, EnsureSound
  <1>3. ASSUME NEW s \in Seeders,
               PipelineRaises(s) \/ NotSegmented(s) \/ UpsertRaises(s) \/ EndSeeder(s)
        PROVE  IInv'
    BY <1>3, SkipSound
  <1>4. ASSUME NEW s \in Seeders, Segmented(s)
        PROVE  IInv'
    BY <1>4, SegmentedSound
  <1>5. ASSUME NEW s \in Seeders, Upsert(s)
        PROVE  IInv'
    BY <1>5, UpsertSound
  <1>6. ASSUME NEW a \in Askers, Ask(a)
        PROVE  IInv'
    BY <1>6, AskSound
  <1>7. ASSUME NEW a \in Askers, Answered(a)
        PROVE  IInv'
    BY <1>7, AnsweredSound
  <1>8. ASSUME NEW a \in Askers, QueryRaises(a) \/ EndAsker(a)
        PROVE  IInv'
    BY <1>8, QueryEndsSound
  <1>9. ASSUME NEW f \in Firms, Amend(f)
        PROVE  IInv'
    BY <1>9, AmendSound
  <1>10. CASE Drop
    BY <1>10, DropSound
  <1>11. CASE UNCHANGED vars
    <2>1. UNCHANGED <<text, latest, collection, seeder, asker>>
      BY <1>11 DEF vars
    <2>2. Brochures'
      BY <2>1 DEF IInv, Brochures, Filed
    <2>3. Stored'
      BY <2>1, StoredStays DEF IInv
    <2>4. \A s \in Seeders : Sound(seeder[s])'
      BY <2>1, StaysSound DEF IInv
    <2>5. \A a \in Askers : AskerSound(asker[a])'
      BY <2>1, StaysAskerSound DEF IInv
    <2> QED
      BY <2>1, <2>2, <2>3, <2>4, <2>5 DEF IInv
  <1> QED
    BY <1>1, <1>2, <1>3, <1>4, <1>5, <1>6, <1>7, <1>8, <1>9, <1>10, <1>11 DEF Next

LEMMA Invariant == Spec => []IInv
  BY InitIInv, NextIInv, PTL DEF Spec

\* The types of the corpus, of those who fill it and of those who ask.
THEOREM TypeCorrect == Spec => []TypeOK
  <1>1. IInv => TypeOK
    <2> SUFFICES ASSUME IInv PROVE TypeOK
      OBVIOUS
    <2>1. \A id \in Present(collection) : collection.points[id].section.item = id[3]
      BY DEF IInv, Stored, Genuine
    <2>2. \A s \in Seeders :
             /\ seeder[s].pc = "idle" <=> seeder[s].asked = NULL
             /\ seeder[s].pc \in {"next", "upsert"} => seeder[s].done < Len(seeder[s].asked)
             /\ seeder[s].pc = "upsert" <=> seeder[s].vid # NULL
      BY DEF IInv, Sound, AtWork
    <2> QED
      BY <2>1, <2>2 DEF IInv, Brochures, Stored, TypeOK
  <1> QED
    BY <1>1, Invariant, PTL

(***************************************************************************)
(* What a run compares its brochure with is another firm's section on that *)
(* Item, from its head to the next, whatever seeders, amendments and       *)
(* deletions go on at the same time.                                       *)
(***************************************************************************)
THEOREM ComparesWithSections == Spec => []PeersAreSections
  <1>1. IInv => PeersAreSections
    <2> SUFFICES ASSUME IInv, NEW a \in Askers, NEW h \in asker[a].hits
                 PROVE  LET t == text[<<h.id[1], h.id[2]>>]
                        IN  /\ h.id[1] # asker[a].own
                            /\ h.section.item = h.id[3]
                            /\ Regular(t) /\ ~h.section.rescued => h.section \in RealSections(t)
      BY DEF PeersAreSections
    <2>1. Genuine(h.id, h.section) /\ h.id[1] # asker[a].own
      BY DEF IInv, AskerSound
    <2>2. WellFormed(text[<<h.id[1], h.id[2]>>])
      BY <2>1 DEF Genuine, Filed, IInv, Brochures
    <2> QED
      BY <2>1, <2>2, RegularSections DEF Genuine
  <1> QED
    BY <1>1, Invariant, PTL

-----------------------------------------------------------------------------
(***************************************************************************)
(* What an exit code of 0 is worth.  The entries a seeder reports as clean *)
(* are in the corpus, and stay there until the collection is dropped.      *)
(***************************************************************************)
InPlace ==
    {f \in Filings :
       \A sec \in Meaningful(text[f], Sections(text[f])) :
          PointId(f[1], f[2], sec.item) \in Present(collection)}

SeededIn(r, i, S) ==
    \E v \in Versions :
       /\ <<r.asked[i].crd, v>> \in S
       /\ IF r.asked[i].vid = NULL THEN <<r.asked[i].crd, v>> \in r.seen
                                  ELSE v = r.asked[i].vid

\* With the brochures in S in the corpus, what r reports is true.
Honest(r, S) ==
    ~r.lost =>
       /\ r.pc \in {"next", "upsert"} =>
             \A i \in 1 .. r.done : LastOnFirm(r.asked, r.done, i) =>
                \/ r.report[r.asked[i].crd] = "errors"
                \/ r.report[r.asked[i].crd] = "clean" /\ SeededIn(r, i, S)
       /\ r.pc = "ok" =>
             \A i \in 1 .. Len(r.asked) :
                LastOnFirm(r.asked, Len(r.asked), i) => SeededIn(r, i, S)

AllHonest == \A s \in Seeders : Honest(seeder[s], InPlace)

\* Sections once in place are the right ones.
LEMMA InPlaceInCorpus ==
    ASSUME IInv, NEW crd, NEW vid, <<crd, vid>> \in InPlace
    PROVE  InCorpus(crd, vid)
  <1> DEFINE t == text[<<crd, vid>>]
  <1>1. <<crd, vid>> \in Filings /\ WellFormed(t)
    BY DEF InPlace, IInv, Brochures
  <1>2. ASSUME NEW sec \in Meaningful(t, Sections(t))
        PROVE  LET id == PointId(crd, vid, sec.item)
               IN  /\ id \in Present(collection)
                   /\ \/ collection.points[id].section = sec
                      \/ collection.points[id].section.rescued
    <2> DEFINE id == PointId(crd, vid, sec.item)
    <2>1. id \in Present(collection)
      BY DEF InPlace
    <2>2. Genuine(id, collection.points[id].section)
      BY <2>1 DEF IInv, Stored
    <2>3. /\ id[1] = crd /\ id[2] = vid /\ id[3] = sec.item
          /\ sec \in Sections(t)
      BY DEF PointId, Meaningful
    <2> QED
      BY <1>1, <2>1, <2>2, <2>3, SectionsApart DEF Genuine
  <1> QED
    BY <1>2 DEF InCorpus

LEMMA MoreInPlace ==
    ASSUME NEW r, NEW S, NEW T, S \subseteq T, Honest(r, S)
    PROVE  Honest(r, T)
  BY DEF Honest, SeededIn

\* A seeder is done with one entry more.
LEMMA AfterHonest ==
    ASSUME NEW s \in Seeders, seeder[s] \in SeederState, AtWork(seeder[s]),
           seeder[s].pc \in {"next", "upsert"},
           NEW S, Honest(seeder[s], S),
           NEW e \in BOOLEAN, ~e => SeededIn(seeder[s], seeder[s].done + 1, S)
    PROVE  Honest(After(s, seeder[s].done + 1, Reported(s, e)), S)
  <1> DEFINE r == seeder[s]
             n == r.done + 1
             report == Reported(s, e)
  <1>1. /\ r.asked \in Seq(PeerSpec) /\ r.done \in Nat /\ n \in 1 .. Len(r.asked)
        /\ DOMAIN r.asked = 1 .. Len(r.asked) /\ Len(r.asked) \in Nat
        /\ r.asked # NULL
    BY SpecFilesAssumption, NullAssumption DEF AtWork, SeederState
  <1>a. \A i \in 1 .. Len(r.asked) : r.asked[i] \in PeerSpec
    BY <1>1
  <1>2. /\ SpecOf(s) = r.asked[n]
        /\ \A i \in 1 .. Len(r.asked) : r.asked[i].crd \in Firms
    BY <1>a DEF SpecOf, PeerSpec
  <1>3. /\ report[r.asked[n].crd] = IF e THEN "errors" ELSE "clean"
        /\ \A f \in Firms : f # r.asked[n].crd => report[f] = r.report[f]
    BY <1>1, <1>2 DEF Reported, SeederState
  \* The report so far.
  <1>4. ASSUME ~r.lost, NEW i \in 1 .. n, LastOnFirm(r.asked, n, i)
        PROVE  \/ report[r.asked[i].crd] = "errors"
               \/ report[r.asked[i].crd] = "clean" /\ SeededIn(r, i, S)
    <2>1. CASE i = n
      BY <1>3, <2>1
    <2>2. CASE i # n
      <3>1. i \in 1 .. r.done /\ i \in 1 .. Len(r.asked)
        BY <1>1, <2>2
      <3>2. r.asked[i].crd # r.asked[n].crd /\ LastOnFirm(r.asked, r.done, i)
        BY <1>1, <1>4, <2>2, <3>1 DEF LastOnFirm
      <3>3. report[r.asked[i].crd] = r.report[r.asked[i].crd]
        BY <1>2, <1>3, <3>1, <3>2
      <3> QED
        BY <1>4, <3>1, <3>2, <3>3 DEF Honest
    <2> QED
      BY <2>1, <2>2
  <1> HIDE DEF report
  <1>5. CASE n = Len(r.asked) /\ \A f \in Firms : report[f] # "errors"
    <2> DEFINE q == [NoSeeder EXCEPT !.pc = "ok", !.asked = r.asked,
                                     !.seen = r.seen, !.lost = r.lost]
    <2>1. q.pc = "ok" /\ q.asked = r.asked /\ q.seen = r.seen /\ q.lost = r.lost
      BY DEF NoSeeder
    <2>2. After(s, n, report) = q
      BY <1>5 DEF After, Ended
    <2> HIDE DEF q
    <2>3. ASSUME ~r.lost, NEW i \in 1 .. Len(r.asked),
                 LastOnFirm(r.asked, Len(r.asked), i)
          PROVE  SeededIn(r, i, S)
      BY <1>2, <1>4, <1>5, <2>3
    <2>4. Honest(q, S)
      BY <2>1, <2>3 DEF Honest, SeededIn
    <2> QED
      BY <2>2, <2>4 DEF report
  <1>6. CASE n = Len(r.asked) /\ \E f \in Firms : report[f] = "errors"
    <2>1. After(s, n, report) = NoSeeder
      BY <1>6 DEF After, Ended
    <2>2. Honest(NoSeeder, S)
      BY DEF Honest, NoSeeder
    <2> QED
      BY <2>1, <2>2 DEF report
  <1>7. CASE n # Len(r.asked)
    <2> DEFINE q == [r EXCEPT !.pc = "next", !.done = n, !.report = report, !.vid = NULL,
                              !.sections = {}, !.errors = FALSE]
    <2>1. /\ q.pc = "next" /\ q.asked = r.asked /\ q.seen = r.seen /\ q.lost = r.lost
          /\ q.done = n /\ q.report = report
      BY DEF SeederState
    <2>2. After(s, n, report) = q
      BY <1>7 DEF After
    <2> HIDE DEF q
    <2>3. Honest(q, S)
      BY <1>4, <2>1 DEF Honest, SeededIn
    <2> QED
      BY <2>2, <2>3 DEF report
  <1> QED
    BY <1>5, <1>6, <1>7

\* Only dropping the collection takes points away.
LEMMA PresentStays ==
    ASSUME IInv, [Next]_vars, ~Drop
    PROVE  /\ text' = text
           /\ Present(collection) \subseteq Present(collection)'
           /\ InPlace \subseteq InPlace'
  <1>0. text' = text
    BY DEF Next, vars, Seed, Ensure, Create, Index, PipelineRaises, NotSegmented, Segmented,
           Upsert, UpsertRaises, EndSeeder, Goes, SeederBecomes, Ask, AskForRun, AskFromCli,
           Answered, QueryRaises, EndAsker, AskerBecomes, Amend
  <1>1. Present(collection) \subseteq Present(collection)'
    <2>1. CASE collection' = collection
      BY <2>1 DEF Present
    <2>2. ASSUME NEW s \in Seeders, Create(s)
          PROVE  Present(collection) \subseteq Present(collection)'
      BY <2>2 DEF Create, Present
    <2>3. ASSUME NEW s \in Seeders, Index(s)
          PROVE  Present(collection) \subseteq Present(collection)'
      <3>1. CASE collection # NULL
        <4>1. collection' = [collection EXCEPT !.indexed = TRUE] /\ collection \in Collection
          BY <2>3, <3>1 DEF Index, IInv, Stored
        <4>2. collection'.points = collection.points /\ collection' \in Collection
          BY <4>1 DEF Collection
        <4> QED
          BY <4>2, NullAssumption DEF Present
      <3> QED
        BY <2>3, <3>1 DEF Index, Present
    <2>4. ASSUME NEW s \in Seeders, Upsert(s), Written(s) # <<>>
          PROVE  Present(collection) \subseteq Present(collection)'
      <3>1. \A id \in DOMAIN Written(s) : Written(s)[id] \in Point
        BY <2>4, WrittenGenuine DEF Upsert, At
      <3>2. /\ collection' \in Collection
            /\ \A id \in Ids : collection'.points[id] =
                 IF id \in DOMAIN Written(s) THEN Written(s)[id] ELSE collection.points[id]
        BY <2>4, UpsertPoints
      <3> QED
        BY <3>1, <3>2, NullAssumption DEF Present
    <2> QED
      BY <2>1, <2>2, <2>3, <2>4
         DEF Next, vars, Seed, Ensure, PipelineRaises, NotSegmented, Segmented,
             Upsert, UpsertRaises, EndSeeder, Goes, SeederBecomes, Ask, AskForRun, AskFromCli,
             Answered, QueryRaises, EndAsker, AskerBecomes, Amend
  <1> QED
    BY <1>0, <1>1 DEF InPlace

\* Nothing is reported yet, or any more.
LEMMA SilentHonest ==
    ASSUME NEW r, NEW S, r.pc \in {"idle", "ensure", "create", "index"}
    PROVE  Honest(r, S)
  BY DEF Honest

LEMMA HonestBecomes ==
    ASSUME seeder \in [Seeders -> SeederState], NEW s \in Seeders, NEW rec, SeederBecomes(s, rec),
           NEW S, \A q \in Seeders : Honest(seeder[q], S), Honest(rec, S)
    PROVE  \A q \in Seeders : Honest(seeder'[q], S)
  <1>1. \A q \in Seeders : seeder'[q] = IF q = s THEN rec ELSE seeder[q]
    BY DEF SeederBecomes
  <1> QED
    BY <1>1

LEMMA EnsureHonest ==
    ASSUME IInv, NEW s \in Seeders, NEW S, \A q \in Seeders : Honest(seeder[q], S),
           Ensure(s) \/ Create(s) \/ Index(s)
    PROVE  \A q \in Seeders : Honest(seeder'[q], S)
  <1> DEFINE r == seeder[s]
  <1>1. /\ seeder \in [Seeders -> SeederState]
        /\ r \in SeederState /\ r.asked \in SpecFiles /\ Len(r.asked) \in Nat
    BY SpecFilesAssumption DEF IInv, Sound, SeederState, Ensure, Create, Index, At
  <1>2. Honest(After(s, 0, r.report), S)
    <2>1. Honest(NoSeeder, S)
      BY SilentHonest DEF NoSeeder
    <2>2. CASE 0 = Len(r.asked)
      <3> DEFINE q == [NoSeeder EXCEPT !.pc = "ok", !.asked = r.asked,
                                       !.seen = r.seen, !.lost = r.lost]
      <3>1. q.pc = "ok" /\ q.asked = r.asked
        BY DEF NoSeeder
      <3> HIDE DEF q
      <3>2. Honest(q, S)
        BY <2>2, <3>1 DEF Honest
      <3> QED
        BY <2>1, <2>2, <3>2 DEF After, Ended, q
    <2>3. CASE 0 # Len(r.asked)
      <3> DEFINE q == [r EXCEPT !.pc = "next", !.done = 0, !.report = r.report, !.vid = NULL,
                                !.sections = {}, !.errors = FALSE]
      <3>1. q.pc = "next" /\ q.done = 0
        BY <1>1 DEF SeederState
      <3> HIDE DEF q
      <3>2. Honest(q, S)
        BY <3>1 DEF Honest
      <3> QED
        BY <2>3, <3>2 DEF After, q
    <2> QED
      BY <2>2, <2>3
  <1>3. \A pc \in {"create", "index"} : Honest([r EXCEPT !.pc = pc], S)
    <2> SUFFICES ASSUME NEW pc \in {"create", "index"} PROVE Honest([r EXCEPT !.pc = pc], S)
      OBVIOUS
    <2> DEFINE q == [r EXCEPT !.pc = pc]
    <2>1. q.pc = pc
      BY <1>1 DEF SeederState
    <2> HIDE DEF q
    <2>2. Honest(q, S)
      BY <2>1, SilentHonest
    <2> QED
      BY <2>2 DEF q
  <1>4. Honest(Raised, S)
    BY SilentHonest DEF Raised, NoSeeder
  <1>5. \/ SeederBecomes(s, After(s, 0, r.report))
        \/ \E pc \in {"create", "index"} : SeederBecomes(s, [r EXCEPT !.pc = pc])
        \/ SeederBecomes(s, Raised)
    BY DEF Ensure, Create, Index, Goes
  <1> QED
    BY <1>1, <1>2, <1>3, <1>4, <1>5, HonestBecomes

LEMMA SkipHonest ==
    ASSUME IInv, NEW s \in Seeders, NEW S, \A q \in Seeders : Honest(seeder[q], S),
           PipelineRaises(s) \/ NotSegmented(s) \/ UpsertRaises(s) \/ EndSeeder(s)
    PROVE  \A q \in Seeders : Honest(seeder'[q], S)
  <1>1. seeder \in [Seeders -> SeederState] /\ seeder[s] \in SeederState /\ Sound(seeder[s])
    BY DEF IInv
  <1>2. Honest(NoSeeder, S)
    BY SilentHonest DEF NoSeeder
  <1>3. CASE EndSeeder(s)
    BY <1>1, <1>2, <1>3, HonestBecomes DEF EndSeeder
  <1>4. CASE PipelineRaises(s) \/ NotSegmented(s) \/ UpsertRaises(s)
    <2>1. seeder[s].pc \in {"next", "upsert"} /\ AtWork(seeder[s])
      BY <1>1, <1>4 DEF PipelineRaises, NotSegmented, UpsertRaises, At, Sound
    <2>2. Honest(Skipped(s), S)
      BY <1>1, <2>1, AfterHonest DEF Skipped
    <2>3. SeederBecomes(s, Raised) \/ SeederBecomes(s, Skipped(s))
      BY <1>4 DEF PipelineRaises, NotSegmented, UpsertRaises, OnException
    <2> QED
      BY <1>1, <1>2, <2>2, <2>3, HonestBecomes DEF Raised
  <1> QED
    BY <1>3, <1>4

LEMMA SegmentedHonest ==
    ASSUME IInv, NEW s \in Seeders, NEW S, \A q \in Seeders : Honest(seeder[q], S), Segmented(s)
    PROVE  \A q \in Seeders : Honest(seeder'[q], S)
  <1> DEFINE r == seeder[s]
  <1>1. seeder \in [Seeders -> SeederState] /\ r \in SeederState /\ r.pc = "next"
    BY DEF IInv, Segmented, At
  <1>2. ASSUME NEW vid, NEW sections, NEW errors
        PROVE  Honest([r EXCEPT !.pc = "upsert", !.vid = vid,
                                !.sections = sections, !.errors = errors], S)
    <2> DEFINE q == [r EXCEPT !.pc = "upsert", !.vid = vid,
                              !.sections = sections, !.errors = errors]
    <2>1. /\ q.pc = "upsert" /\ q.asked = r.asked /\ q.seen = r.seen /\ q.lost = r.lost
          /\ q.done = r.done /\ q.report = r.report
      BY <1>1 DEF SeederState
    <2>2. Honest(r, S)
      OBVIOUS
    <2> HIDE DEF q
    <2>3. Honest(q, S)
      BY <1>1, <2>1, <2>2 DEF Honest, SeededIn
    <2> QED
      BY <2>3 DEF q
  <1>3. \E vid, sections, errors :
           SeederBecomes(s, [r EXCEPT !.pc = "upsert", !.vid = vid,
                                      !.sections = sections, !.errors = errors])
    BY DEF Segmented
  <1> QED
    BY <1>1, <1>2, <1>3, HonestBecomes

\* What is written is what there is to write.
LEMMA UpsertInPlace ==
    ASSUME IInv, NEW s \in Seeders, Upsert(s)
    PROVE  SeededIn(seeder[s], seeder[s].done + 1, InPlace')
  <1> DEFINE r == seeder[s]
             crd == SpecOf(s).crd
             t == text[<<crd, r.vid>>]
             kept == Meaningful(t, r.sections)
  <1>1. /\ r.pc = "upsert" /\ r \in SeederState /\ AtWork(r) /\ Resolved(r)
        /\ r.vid \in Versions /\ SpecOf(s) = r.asked[r.done + 1]
        /\ text' = text
    BY ToWrite DEF Upsert, At, SeederBecomes
  <1>2. /\ WellFormed(t)
        /\ \A sec \in r.sections : sec \in Sections(t) \/ ~Placeholder(t, sec)
        /\ \A sec \in Sections(t) :
              \/ sec \in r.sections
              \/ \E new \in r.sections : new.item = sec.item /\ new.rescued
        /\ \A sec \in r.sections : Genuine(PointId(crd, r.vid, sec.item), sec)
    BY <1>1, ResolvedSections DEF IInv
  <1>3. ASSUME NEW sec \in Meaningful(t, Sections(t))
        PROVE  PointId(crd, r.vid, sec.item) \in Present(collection)'
    <2>1. PICK new \in kept : new.item = sec.item
      <3>1. sec \in Sections(t) /\ ~Placeholder(t, sec)
        BY DEF Meaningful
      <3>2. CASE sec \in r.sections
        BY <3>1, <3>2 DEF Meaningful
      <3>3. CASE sec \notin r.sections
        <4>1. PICK new \in r.sections : new.item = sec.item /\ new.rescued
          BY <1>2, <3>1, <3>3
        <4>2. new \notin Sections(t)
          BY <1>2, <4>1, HeadsAreHits, CutSection DEF Sections
        <4> QED
          BY <1>2, <4>1, <4>2 DEF Meaningful
      <3> QED
        BY <3>2, <3>3
    <2> DEFINE id == PointId(crd, r.vid, sec.item)
    <2>2. id \in DOMAIN Written(s)
      BY <2>1 DEF Written
    <2>3. Written(s) # <<>>
      BY <2>2
    <2>4. id \in Ids /\ Written(s)[id] \in Point
      BY <1>1, <2>2, WrittenGenuine DEF Genuine
    <2>5. collection' \in Collection /\ collection'.points[id] = Written(s)[id]
      BY <2>2, <2>3, <2>4, UpsertPoints
    <2> QED
      BY <2>4, <2>5, NullAssumption DEF Present
  <1>4. <<crd, r.vid>> \in Filings
    BY <1>1 DEF Resolved, Filed
  <1>5. <<crd, r.vid>> \in InPlace'
    BY <1>1, <1>3, <1>4 DEF InPlace
  <1> QED
    BY <1>1, <1>5 DEF SeededIn, Resolved

LEMMA HonestStep ==
    ASSUME IInv, AllHonest, [Next]_vars
    PROVE  AllHonest'
  <1>1. CASE Drop
    <2>1. ASSUME NEW s \in Seeders
          PROVE  Honest(seeder'[s], InPlace')
      <3>1. seeder'[s] = IF At(s, "idle") THEN seeder[s] ELSE [seeder[s] EXCEPT !.lost = TRUE]
        BY <1>1 DEF Drop
      <3>2. CASE At(s, "idle")
        BY <3>1, <3>2, SilentHonest DEF At
      <3>3. CASE ~At(s, "idle")
        <4>1. seeder'[s].lost
          BY <3>1, <3>3 DEF IInv, SeederState
        <4> QED
          BY <4>1 DEF Honest
      <3> QED
        BY <3>2, <3>3
    <2> QED
      BY <2>1 DEF AllHonest
  <1>2. CASE ~Drop
    <2> DEFINE S == InPlace'
    <2>1. \A q \in Seeders : Honest(seeder[q], S)
      BY <1>2, PresentStays, MoreInPlace DEF AllHonest
    <2>2. seeder \in [Seeders -> SeederState]
      BY DEF IInv
    <2>3. ASSUME NEW s \in Seeders, NEW file \in SpecFiles, Seed(s, file)
          PROVE  \A q \in Seeders : Honest(seeder'[q], S)
      <3> DEFINE rec == [NoSeeder EXCEPT !.pc = "ensure", !.asked = file,
                                         !.seen = {<<f, latest[f]>> : f \in Firms}]
      <3>1. rec.pc = "ensure"
        BY DEF NoSeeder
      <3>2. SeederBecomes(s, rec)
        BY <2>3 DEF Seed
      <3> HIDE DEF rec, S
      <3> QED
        BY <2>1, <2>2, <3>1, <3>2, SilentHonest, HonestBecomes
    <2>4. ASSUME NEW s \in Seeders, Upsert(s)
          PROVE  \A q \in Seeders : Honest(seeder'[q], S)
      <3>1. SeededIn(seeder[s], seeder[s].done + 1, S)
        BY <2>4, UpsertInPlace
      <3>2. /\ seeder[s] \in SeederState /\ AtWork(seeder[s]) /\ seeder[s].pc = "upsert"
            /\ seeder[s].errors \in BOOLEAN
        BY <2>4, ToWrite DEF Upsert, At, SeederState
      <3>3. SeederBecomes(s, After(s, seeder[s].done + 1, Reported(s, seeder[s].errors)))
        BY <2>4 DEF Upsert
      <3> HIDE DEF S
      <3>4. Honest(After(s, seeder[s].done + 1, Reported(s, seeder[s].errors)), S)
        BY <2>1, <3>1, <3>2, AfterHonest
      <3> QED
        BY <2>1, <2>2, <3>3, <3>4, HonestBecomes
    <2>5. ASSUME NEW f \in Firms, Amend(f)
          PROVE  \A q \in Seeders : Honest(seeder'[q], S)
      <3> SUFFICES ASSUME NEW q \in Seeders PROVE Honest(seeder'[q], S)
        OBVIOUS
      <3> DEFINE new == [seeder[q] EXCEPT !.seen = @ \cup {<<f, latest'[f]>>}]
      <3>1. seeder'[q] = seeder[q] \/ seeder'[q] = new
        BY <2>5 DEF Amend
      <3>2. /\ new.pc = seeder[q].pc /\ new.asked = seeder[q].asked /\ new.lost = seeder[q].lost
            /\ new.done = seeder[q].done /\ new.report = seeder[q].report
            /\ seeder[q].seen \subseteq new.seen
        BY <2>2 DEF SeederState
      <3> HIDE DEF new, S
      <3>3. Honest(seeder[q], S)
        BY <2>1
      <3>4. Honest(new, S)
        BY <3>2, <3>3 DEF Honest, SeededIn
      <3> QED
        BY <3>1, <3>3, <3>4
    <2>6. ASSUME seeder' = seeder
          PROVE  \A q \in Seeders : Honest(seeder'[q], S)
      BY <2>1, <2>6
    <2>7. ASSUME NEW s \in Seeders, Ensure(s) \/ Create(s) \/ Index(s)
          PROVE  \A q \in Seeders : Honest(seeder'[q], S)
      BY <2>1, <2>7, EnsureHonest
    <2>8. ASSUME NEW s \in Seeders,
                 PipelineRaises(s) \/ NotSegmented(s) \/ UpsertRaises(s) \/ EndSeeder(s)
          PROVE  \A q \in Seeders : Honest(seeder'[q], S)
      BY <2>1, <2>8, SkipHonest
    <2>9. ASSUME NEW s \in Seeders, Segmented(s)
          PROVE  \A q \in Seeders : Honest(seeder'[q], S)
      BY <2>1, <2>9, SegmentedHonest
    <2>10. ASSUME NEW a \in Askers, Ask(a) \/ Answered(a) \/ QueryRaises(a) \/ EndAsker(a)
           PROVE  seeder' = seeder
      BY <2>10 DEF Ask, AskForRun, AskFromCli, Answered, QueryRaises, EndAsker, AskerBecomes
    <2>11. \A q \in Seeders : Honest(seeder'[q], S)
      BY <1>2, <2>3, <2>4, <2>5, <2>6, <2>7, <2>8, <2>9, <2>10 DEF Next, vars
    <2> QED
      BY <2>11 DEF AllHonest
  <1> QED
    BY <1>1, <1>2

(***************************************************************************)
(* When seed-peers exits with 0, the corpus has every section of every     *)
(* brochure it was given, of a firm named twice the last one: no failed    *)
(* upsert, no failed pipeline and no second seeder goes unnoticed.         *)
(***************************************************************************)
THEOREM ExitCodeIsHonest == Spec => []SuccessMeansSeeded
  <1>1. Init => AllHonest
    <2>1. NoSeeder.pc = "idle"
      BY DEF NoSeeder
    <2> QED
      BY <2>1, SilentHonest DEF Init, AllHonest
  <1>2. IInv /\ AllHonest /\ [Next]_vars => AllHonest'
    BY HonestStep
  <1>3. IInv /\ AllHonest => SuccessMeansSeeded
    <2> SUFFICES ASSUME IInv, AllHonest, NEW s \in Seeders,
                        At(s, "ok"), ~seeder[s].lost, NEW i \in DOMAIN seeder[s].asked,
                        LastOnFirm(seeder[s].asked, Len(seeder[s].asked), i)
                 PROVE  LET spec == seeder[s].asked[i]
                        IN  \E v \in Versions :
                               /\ IF spec.vid = NULL THEN <<spec.crd, v>> \in seeder[s].seen
                                                     ELSE v = spec.vid
                               /\ InCorpus(spec.crd, v)
      BY DEF SuccessMeansSeeded
    <2>1. seeder[s].asked \in Seq(PeerSpec)
      BY SpecFilesAssumption DEF IInv, Sound, SeederState, At
    <2>2. i \in 1 .. Len(seeder[s].asked)
      BY <2>1
    <2>3. SeededIn(seeder[s], i, InPlace)
      BY <2>2 DEF AllHonest, Honest, At
    <2> QED
      BY <2>3, InPlaceInCorpus DEF SeededIn
  <1> QED
    BY <1>1, <1>2, <1>3, Invariant, PTL DEF Spec
-----------------------------------------------------------------------------
(***************************************************************************)
(* Enough peers.  There are finitely many brochures; a point that was      *)
(* there when an asker began stays until the collection is dropped, and    *)
(* passes every filter an asker without a band sets.                       *)
(***************************************************************************)
About(i, S) == {id \in S : i = NULL \/ id[3] = i}

Peers(r, i) == {id \in About(i, r.present) : id[1] # r.own}

Got(r, i) == About(i, {h.id : h \in r.hits})

EnoughFor(r, i) ==
    /\ Cardinality(Got(r, i)) >= Least(Places(r), Cardinality(Peers(r, i)))
    /\ Cardinality(Got(r, i)) <= r.k

\* Each Item is asked for once, or whatever the Item, once.
AskedOnce(r) ==
    /\ \/ r.todo \cup r.answered \subseteq Items
       \/ r.todo \cup r.answered \subseteq {NULL}
    /\ r.todo \cap r.answered = {}
    /\ \A h \in r.hits : h.id[3] \in r.answered \/ NULL \in r.answered
    /\ r.pc = "idle" => r.todo = {} /\ r.present = {} /\ r.answered = {}

Served(r, S) ==
    /\ AskedOnce(r)
    /\ ~r.lost => r.present \subseteq S
    /\ ~r.lost /\ r.band = NULL => \A i \in r.answered : EnoughFor(r, i)

AllServed == \A a \in Askers : Served(asker[a], Present(collection))

LEMMA BestIs ==
    ASSUME NEW S, IsFiniteSet(S), NEW n \in Nat, NEW B \in Best(S, n)
    PROVE  /\ B \subseteq S /\ IsFiniteSet(B)
           /\ Cardinality(S) \in Nat
           /\ Cardinality(B) = Least(n, Cardinality(S))
  BY FS_Subset, FS_CardinalityType DEF Best

LEMMA PlacesIs ==
    ASSUME NEW r, r.k \in Nat
    PROVE  /\ Places(r) \in Nat /\ Places(r) <= r.k
           /\ r.hybrid => Places(r) <= Prefetch
           /\ r.rerank => Places(r) <= RerankTop
  BY LimitAssumption DEF Places, Least

\* The least limit is all that an answer loses to limits.
LEMMA ResultsEnough ==
    ASSUME IsFiniteSet(Ids), NEW a, asker[a].k \in Nat, NEW i, NEW ids \in Results(a, i)
    PROVE  LET matching == {id \in Present(collection) : Passes(a, i, id)}
           IN  /\ Cardinality(ids) <= asker[a].k
               /\ Cardinality(ids) >= Least(Places(asker[a]), Cardinality(matching))
  <1> DEFINE k == asker[a].k
             p == Places(asker[a])
  <1> DEFINE matching == {id \in Present(collection) : Passes(a, i, id)}
  <1>0. /\ Prefetch \in Nat /\ RerankTop \in Nat /\ k \in Nat
        /\ p \in Nat /\ p <= k
        /\ asker[a].hybrid => p <= Prefetch
        /\ asker[a].rerank => p <= RerankTop
    BY LimitAssumption, PlacesIs
  <1>m. IsFiniteSet(matching) /\ Cardinality(matching) \in Nat
    <2>1. matching \in SUBSET Ids
      BY DEF Present
    <2> HIDE DEF matching
    <2> QED
      BY <2>1, FS_Subset, FS_CardinalityType
  <1>f. PICK fetched \in Fetched(a, matching) :
           \E top \in Reranked(a, fetched) : ids \in Best(top, k)
    BY DEF Results
  <1>1. PICK top \in Reranked(a, fetched) : ids \in Best(top, k)
    BY <1>f
  <1> HIDE DEF matching, k, p
  <1> DEFINE m == Least(p, Cardinality(matching))
  <1>2. IsFiniteSet(fetched) /\ Cardinality(fetched) \in Nat /\ m <= Cardinality(fetched)
    <2>1. CASE asker[a].hybrid
      <3> DEFINE n == IF RerankTop < Prefetch THEN Prefetch ELSE RerankTop
      <3>1. PICK dense \in Best(matching, Prefetch),
                 sparse \in {S \in SUBSET matching : Cardinality(S) <= Prefetch} :
              fetched \in Best(dense \cup sparse, n)
        <4>1. fetched \in Fetched(a, matching)
          BY <1>f
        <4> DEFINE Piece(d, e) == Best(d \cup e, n)
                   some == {S \in SUBSET matching : Cardinality(S) <= Prefetch}
        <4>2. Fetched(a, matching) =
                 UNION {Piece(d, e) : d \in Best(matching, Prefetch), e \in some}
          BY <2>1 DEF Fetched
        <4>3. \E d \in Best(matching, Prefetch), e \in some : fetched \in Piece(d, e)
          <5> HIDE DEF Piece, some, n
          <5> QED
            BY <4>1, <4>2
        <4> QED
          BY <4>3
      <3>2. n \in Nat /\ p <= n
        BY <1>0, <2>1
      <3> HIDE DEF n
      <3>3. dense \subseteq matching /\ Cardinality(dense) = Least(Prefetch, Cardinality(matching))
        BY <1>0, <1>m, <3>1, BestIs
      <3>4. dense \cup sparse \in SUBSET matching
        BY <3>1, <3>3
      <3>5. IsFiniteSet(dense \cup sparse)
        BY <1>m, <3>4, FS_Subset
      <3>6. Cardinality(dense) <= Cardinality(dense \cup sparse)
        <4>1. dense \in SUBSET (dense \cup sparse)
          OBVIOUS
        <4> QED
          BY <3>5, <4>1, FS_Subset
      <3>7. /\ IsFiniteSet(fetched) /\ Cardinality(dense \cup sparse) \in Nat
            /\ Cardinality(fetched) = Least(n, Cardinality(dense \cup sparse))
        BY <3>1, <3>2, <3>5, BestIs
      <3> QED
        BY <1>0, <1>m, <2>1, <3>2, <3>3, <3>6, <3>7 DEF Least
    <2>2. CASE ~asker[a].hybrid
      <3> DEFINE n == IF asker[a].rerank /\ k < RerankTop THEN RerankTop ELSE k
      <3>1. n \in Nat /\ p <= n
        BY <1>0
      <3>2. fetched \in Best(matching, n)
        BY <1>f, <2>2 DEF Fetched, k
      <3> HIDE DEF n
      <3>3. IsFiniteSet(fetched) /\ Cardinality(fetched) = Least(n, Cardinality(matching))
        BY <1>m, <3>1, <3>2, BestIs
      <3> QED
        BY <1>0, <1>m, <3>1, <3>3 DEF Least
    <2> QED
      BY <2>1, <2>2
  <1>3. IsFiniteSet(top) /\ Cardinality(top) \in Nat /\ m <= Cardinality(top)
    <2>1. CASE top = fetched
      BY <1>2, <2>1
    <2>2. CASE asker[a].rerank /\ top \in Best(fetched, RerankTop)
      <3>1. IsFiniteSet(top) /\ Cardinality(top) = Least(RerankTop, Cardinality(fetched))
        BY <1>0, <1>2, <2>2, BestIs
      <3> QED
        BY <1>0, <1>2, <1>m, <2>2, <3>1 DEF Least
    <2> QED
      BY <1>1, <2>1, <2>2 DEF Reranked
  <1>4. Cardinality(ids) = Least(k, Cardinality(top))
    BY <1>0, <1>1, <1>3, BestIs
  <1> QED
    BY <1>0, <1>m, <1>3, <1>4 DEF Least, matching, k, p

\* More points do no harm.
LEMMA ServedStays ==
    ASSUME NEW r, NEW S, NEW T, S \subseteq T, Served(r, S)
    PROVE  Served(r, T)
  BY DEF Served

LEMMA AskServed ==
    ASSUME IInv, NEW a \in Askers, Ask(a)
    PROVE  Served(asker'[a], Present(collection)) /\ \A b \in Askers \ {a} : asker'[b] = asker[b]
  <1> DEFINE S == Present(collection)
  <1>0. asker \in [Askers -> AskerState]
    BY DEF IInv
  <1>1. PICK p \in AskerState :
          /\ asker' = [asker EXCEPT ![a] = Asking(p)]
          /\ p.todo \subseteq Items \/ p.todo \subseteq {NULL}
          /\ p.answered = {} /\ p.hits = {} /\ ~p.lost
    <2>1. ASSUME NEW crd \in Firms \cup {Draft}, NEW items \in Populated,
                 AskForRun(a, crd, items)
          PROVE  \E p \in AskerState :
                    /\ asker' = [asker EXCEPT ![a] = Asking(p)]
                    /\ p.todo \subseteq Items \/ p.todo \subseteq {NULL}
                    /\ p.answered = {} /\ p.hits = {} /\ ~p.lost
      <3> DEFINE p == [NoAsker EXCEPT !.own = crd, !.k = PerItem, !.todo = items]
      <3>1. items \subseteq Items
        BY QueriedAssumption
      <3>2. /\ p \in AskerState
            /\ p.todo \subseteq Items /\ p.answered = {} /\ p.hits = {} /\ ~p.lost
        BY <3>1, NoAskerSound, LimitAssumption DEF AskerState, NoAsker
      <3>3. asker' = [asker EXCEPT ![a] = Asking(p)]
        BY <2>1 DEF AskForRun, AskerBecomes
      <3> HIDE DEF p
      <3> QED
        BY <3>2, <3>3
    <2>2. ASSUME NEW q \in CliQueries, AskFromCli(a, q)
          PROVE  \E p \in AskerState :
                    /\ asker' = [asker EXCEPT ![a] = Asking(p)]
                    /\ p.todo \subseteq Items \/ p.todo \subseteq {NULL}
                    /\ p.answered = {} /\ p.hits = {} /\ ~p.lost
      <3> DEFINE p == [NoAsker EXCEPT !.own = q.own, !.band = q.band, !.todo = {q.item},
                                      !.hybrid = q.hybrid, !.rerank = q.rerank, !.k = q.k]
      <3>1. /\ q.k \in Nat /\ q.own \in Firms \cup {NULL} /\ q.band \in Bands \cup {NULL}
            /\ q.item \in Items \cup {NULL} /\ q.hybrid \in BOOLEAN /\ q.rerank \in BOOLEAN
        BY QueriedAssumption
      <3>2. /\ p \in AskerState
            /\ p.todo = {q.item} /\ p.answered = {} /\ p.hits = {} /\ ~p.lost
        BY <3>1, NoAskerSound DEF AskerState, NoAsker
      <3>3. asker' = [asker EXCEPT ![a] = Asking(p)]
        BY <2>2 DEF AskFromCli, AskerBecomes
      <3> HIDE DEF p
      <3>4. p.todo \subseteq Items \/ p.todo \subseteq {NULL}
        BY <3>1, <3>2
      <3> QED
        BY <3>2, <3>3, <3>4
    <2> QED
      BY <2>1, <2>2 DEF Ask
  <1> DEFINE r == Asking(p)
  <1>2. /\ r.todo = p.todo /\ r.answered = {} /\ r.hits = {}
        /\ r.pc = "query" /\ r.present = S
    BY <1>1 DEF Asking, AskerState
  <1>3. asker'[a] = r /\ \A b \in Askers \ {a} : asker'[b] = asker[b]
    BY <1>0, <1>1
  <1> HIDE DEF r
  <1>4. Served(r, S)
    BY <1>1, <1>2 DEF Served, AskedOnce
  <1> QED
    BY <1>3, <1>4

LEMMA AnsweredServed ==
    ASSUME IsFiniteSet(Ids), IInv, NEW a \in Askers,
           Served(asker[a], Present(collection)), Answered(a)
    PROVE  Served(asker'[a], Present(collection)) /\ \A b \in Askers \ {a} : asker'[b] = asker[b]
  <1> DEFINE old == asker[a]
             S == Present(collection)
  <1>0. asker \in [Askers -> AskerState] /\ old \in AskerState
    BY DEF IInv
  <1>i. PICK i \in old.todo : \E ids \in Results(a, i) :
           asker' = [asker EXCEPT ![a] = [old EXCEPT
             !.todo = @ \ {i},
             !.answered = @ \cup {i},
             !.hits = @ \cup {[id |-> id, section |-> collection.points[id].section] : id \in ids}]]
    BY DEF Answered, AskerBecomes
  <1>1. PICK ids \in Results(a, i) :
           asker' = [asker EXCEPT ![a] = [old EXCEPT
             !.todo = @ \ {i},
             !.answered = @ \cup {i},
             !.hits = @ \cup {[id |-> id, section |-> collection.points[id].section] : id \in ids}]]
    BY <1>i
  <1> DEFINE new == {[id |-> id, section |-> collection.points[id].section] : id \in ids}
             r == [old EXCEPT !.todo = @ \ {i}, !.answered = @ \cup {i}, !.hits = @ \cup new]
  <1>2. asker'[a] = r /\ \A b \in Askers \ {a} : asker'[b] = asker[b]
    BY <1>0, <1>1
  <1>3. {h.id : h \in new} = ids
    <2>1. \A h \in new : h.id \in ids
      OBVIOUS
    <2>2. ASSUME NEW id \in ids PROVE \E h \in new : h.id = id
      <3> DEFINE h == [id |-> id, section |-> collection.points[id].section]
      <3>1. h \in new /\ h.id = id
        OBVIOUS
      <3> QED
        BY <3>1
    <2> HIDE DEF new
    <2> QED
      BY <2>1, <2>2
  <1> HIDE DEF new
  <1>4. /\ r.todo = old.todo \ {i} /\ r.answered = old.answered \cup {i}
        /\ r.hits = old.hits \cup new
        /\ r.pc = old.pc /\ r.own = old.own /\ r.band = old.band
        /\ r.present = old.present /\ r.lost = old.lost
        /\ r.k = old.k /\ r.hybrid = old.hybrid /\ r.rerank = old.rerank
    BY <1>0 DEF AskerState
  <1> HIDE DEF r
  <1>15. Places(r) = Places(old)
    BY <1>4 DEF Places
  <1>5. AskedOnce(old) /\ (~old.lost => old.present \subseteq S)
    BY DEF Served
  <1>6. \A id \in ids : id \in S /\ Passes(a, i, id)
    BY ResultsPass
  <1>7. i \notin old.answered /\ i \in Items \cup {NULL} /\ old.pc # "idle" /\ NULL \notin Items
    <2>1. old.pc # "idle"
      BY <1>5 DEF IInv, AskedOnce, Answered
    <2> QED
      BY <1>5, <2>1, NullAssumption DEF AskedOnce
  <1>8. AskedOnce(r)
    <2>1. \A h \in new : h.id \in ids
      BY <1>3
    <2>2. \A h \in new : i = NULL \/ h.id[3] = i
      BY <1>6, <2>1 DEF Passes
    <2> QED
      BY <1>4, <1>5, <1>7, <2>2 DEF AskedOnce
  <1>9. {h.id : h \in r.hits} = {h.id : h \in old.hits} \cup ids
    BY <1>3, <1>4
  <1>10. Got(r, i) = ids
    <2>1. \A h \in old.hits : ~(i = NULL \/ h.id[3] = i)
      BY <1>5, <1>7 DEF AskedOnce
    <2>2. \A id \in ids : i = NULL \/ id[3] = i
      BY <1>6 DEF Passes
    <2> QED
      BY <1>9, <2>1, <2>2 DEF Got, About
  <1>11. ASSUME NEW j \in old.answered
         PROVE  Got(r, j) = Got(old, j)
    <2>1. j # NULL /\ i # NULL /\ i # j
      BY <1>5, <1>7 DEF AskedOnce
    <2>2. \A id \in ids : id[3] = i
      BY <1>6, <2>1 DEF Passes
    <2> QED
      BY <1>9, <2>1, <2>2 DEF Got, About
  <1>12. \A j : Peers(r, j) = Peers(old, j)
    BY <1>4 DEF Peers
  <1>13. ASSUME ~r.lost, r.band = NULL
         PROVE  EnoughFor(r, i)
    <2> DEFINE matching == {id \in S : Passes(a, i, id)}
    <2>1. Peers(r, i) \in SUBSET matching
      BY <1>4, <1>5, <1>13 DEF Peers, About, Passes
    <2>2. /\ Cardinality(ids) <= old.k
          /\ Cardinality(ids) >= Least(Places(old), Cardinality(matching))
          /\ Places(old) \in Nat
      BY <1>0, ResultsEnough, PlacesIs DEF AskerState
    <2>3. matching \in SUBSET Ids
      BY DEF Present
    <2> HIDE DEF matching
    <2>4. /\ IsFiniteSet(matching) /\ Cardinality(matching) \in Nat
          /\ Cardinality(Peers(r, i)) <= Cardinality(matching)
          /\ Cardinality(Peers(r, i)) \in Nat
      BY <2>1, <2>3, FS_Subset, FS_CardinalityType
    <2>5. IsFiniteSet(ids) /\ Cardinality(ids) \in Nat
      <3>1. ids \in SUBSET Ids
        BY <1>6 DEF Present
      <3> QED
        BY <3>1, FS_Subset, FS_CardinalityType
    <2> QED
      BY <1>4, <1>15, <1>10, <2>2, <2>4, <2>5 DEF EnoughFor, Least
  <1>14. ~r.lost /\ r.band = NULL => \A j \in r.answered : EnoughFor(r, j)
    BY <1>4, <1>15, <1>11, <1>12, <1>13 DEF Served, EnoughFor
  <1> QED
    BY <1>2, <1>4, <1>5, <1>8, <1>14 DEF Served

LEMMA ServedStep ==
    ASSUME IsFiniteSet(Ids), IInv, AllServed, [Next]_vars
    PROVE  AllServed'
  <1>0. asker \in [Askers -> AskerState]
    BY DEF IInv
  <1>1. CASE Drop
    <2> SUFFICES ASSUME NEW a \in Askers PROVE Served(asker'[a], Present(collection)')
      BY DEF AllServed
    <2>1. Served(asker[a], Present(collection)) /\ asker[a] \in AskerState
      BY <1>0 DEF AllServed
    <2>2. asker'[a] = IF asker[a].pc = "idle" THEN asker[a] ELSE [asker[a] EXCEPT !.lost = TRUE]
      BY <1>1 DEF Drop
    <2>3. CASE asker[a].pc = "idle"
      BY <2>1, <2>2, <2>3 DEF Served, AskedOnce
    <2>4. CASE asker[a].pc # "idle"
      <3> DEFINE r == [asker[a] EXCEPT !.lost = TRUE]
      <3>1. /\ r.lost /\ r.todo = asker[a].todo /\ r.answered = asker[a].answered
            /\ r.hits = asker[a].hits /\ r.pc = asker[a].pc /\ r.present = asker[a].present
        BY <2>1 DEF AskerState
      <3>2. asker'[a] = r
        BY <2>2, <2>4
      <3> HIDE DEF r
      <3> QED
        BY <2>1, <3>1, <3>2 DEF Served, AskedOnce
    <2> QED
      BY <2>3, <2>4
  <1>2. CASE ~Drop
    <2>1. Present(collection) \subseteq Present(collection)'
      BY <1>2, PresentStays
    <2>2. SUFFICES \A a \in Askers : Served(asker'[a], Present(collection))
      BY <2>1, ServedStays DEF AllServed
    <2>3. ASSUME NEW a \in Askers, Ask(a) \/ Answered(a)
          PROVE  \A b \in Askers : Served(asker'[b], Present(collection))
      BY <2>3, AskServed, AnsweredServed DEF AllServed
    <2>4. ASSUME NEW a \in Askers, QueryRaises(a)
          PROVE  \A b \in Askers : Served(asker'[b], Present(collection))
      <3>1. PICK i \in asker[a].todo : asker' = [asker EXCEPT ![a] = [asker[a] EXCEPT !.todo = @ \ {i}]]
        BY <2>4 DEF QueryRaises, AskerBecomes
      <3> DEFINE r == [asker[a] EXCEPT !.todo = @ \ {i}]
      <3>2. /\ r.todo \subseteq asker[a].todo /\ r.answered = asker[a].answered
            /\ r.hits = asker[a].hits /\ r.pc = asker[a].pc /\ r.present = asker[a].present
            /\ r.k = asker[a].k /\ r.hybrid = asker[a].hybrid /\ r.rerank = asker[a].rerank
            /\ r.lost = asker[a].lost /\ r.band = asker[a].band /\ r.own = asker[a].own
        BY <1>0 DEF AskerState
      <3>3. asker'[a] = r /\ \A b \in Askers \ {a} : asker'[b] = asker[b]
        BY <1>0, <3>1
      <3> HIDE DEF r
      <3>4. Served(r, Present(collection))
        <4>1. Served(asker[a], Present(collection))
          BY DEF AllServed
        <4>2. \A i_1 : EnoughFor(asker[a], i_1) => EnoughFor(r, i_1)
          BY <3>2 DEF EnoughFor, Got, Peers, Places
        <4> QED
          BY <3>2, <4>1, <4>2 DEF Served, AskedOnce
      <3> QED
        BY <3>3, <3>4 DEF AllServed
    <2>5. ASSUME NEW a \in Askers, EndAsker(a)
          PROVE  \A b \in Askers : Served(asker'[b], Present(collection))
      <3>1. asker'[a] = NoAsker /\ \A b \in Askers \ {a} : asker'[b] = asker[b]
        BY <1>0, <2>5 DEF EndAsker, AskerBecomes
      <3>2. Served(NoAsker, Present(collection))
        BY DEF NoAsker, Served, AskedOnce
      <3> QED
        BY <3>1, <3>2 DEF AllServed
    <2>6. ASSUME asker' = asker
          PROVE  \A b \in Askers : Served(asker'[b], Present(collection))
      BY <2>6 DEF AllServed
    <2>7. ASSUME NEW s \in Seeders,
                 \/ \E file \in SpecFiles : Seed(s, file)
                 \/ Ensure(s) \/ Create(s) \/ Index(s)
                 \/ PipelineRaises(s) \/ NotSegmented(s) \/ Segmented(s)
                 \/ Upsert(s) \/ UpsertRaises(s) \/ EndSeeder(s)
          PROVE  asker' = asker
      BY <2>7 DEF Seed, Ensure, Create, Index, PipelineRaises, NotSegmented, Segmented,
                  Upsert, UpsertRaises, EndSeeder, Goes, SeederBecomes
    <2>8. ASSUME UNCHANGED vars \/ \E f \in Firms : Amend(f)
          PROVE  asker' = asker
      BY <2>8 DEF vars, Amend
    <2> QED
      BY <1>2, <2>3, <2>4, <2>5, <2>6, <2>7, <2>8 DEF Next
  <1> QED
    BY <1>1, <1>2

(***************************************************************************)
(* A peer the corpus had when an asker began is found unless the least     *)
(* limit on the way is met without it, in either index, reranked or not,   *)
(* for limits of any size and whatever is seeded meanwhile.                *)
(***************************************************************************)
THEOREM PeersAreFound ==
    ASSUME IsFiniteSet(Ids)
    PROVE  Spec => []PeersFound
  <1>1. Init => AllServed
    BY DEF Init, AllServed, NoAsker, Served, AskedOnce
  <1>2. AllServed => PeersFound
    BY DEF AllServed, Served, EnoughFor, Got, Peers, About, PeersFound
  <1> QED
    BY <1>1, <1>2, InitIInv, NextIInv, ServedStep, PTL DEF Spec

-----------------------------------------------------------------------------
(***************************************************************************)
(* Why seeding again changes nothing.  What is stored under an id was cut  *)
(* from one brochure for one Item, brochures do not change, and no Item    *)
(* has two sections.                                                       *)
(***************************************************************************)
LEMMA GenuineIsOne ==
    ASSUME Brochures, NEW id, NEW old, NEW new, Genuine(id, old), Genuine(id, new),
           ~old.rescued, ~new.rescued
    PROVE  old = new
  <1>1. WellFormed(text[<<id[1], id[2]>>])
    BY DEF Brochures, Genuine, Filed
  <1> QED
    BY <1>1, SectionsApart DEF Genuine

(***************************************************************************)
(* Nothing but dropping the collection takes a point away or puts another  *)
(* section under its id, however often, in whatever order and by however   *)
(* many seeders the firms are seeded.                                      *)
(***************************************************************************)
THEOREM SeedingIsIdempotent == Spec => ReseedsInPlace
  <1>1. ASSUME IInv, IInv', [Next]_vars, ~Drop
        PROVE  RefreshedInPlace
    <2>1. SUFFICES ASSUME NEW id \in Present(collection)
                   PROVE  /\ collection'.points[id] # NULL
                          /\ LET old == collection.points[id].section
                                 new == collection'.points[id].section
                             IN  old.rescued \/ new.rescued \/ new = old
      BY DEF RefreshedInPlace
    <2>2. text' = text /\ id \in Present(collection)'
      BY <1>1, <2>1, PresentStays
    <2>3. collection'.points[id] # NULL
      BY <2>2 DEF Present
    <2>4. Genuine(id, collection.points[id].section)
      BY <1>1, <2>1 DEF IInv, Stored
    <2>5. Genuine(id, collection.points[id].section)'
      BY <1>1, <2>2 DEF IInv, Stored
    <2>6. Genuine(id, collection'.points[id].section)
      BY <2>2, <2>5 DEF Genuine, Filed
    <2> QED
      BY <1>1, <2>3, <2>4, <2>6, GenuineIsOne DEF IInv
  <1>2. IInv /\ IInv' /\ [Next]_vars => [~Drop => RefreshedInPlace]_vars
    BY <1>1
  <1> QED
    BY <1>2, Invariant, PTL DEF Spec, ReseedsInPlace
=============================================================================
