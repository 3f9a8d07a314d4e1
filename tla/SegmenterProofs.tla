-------------------------- MODULE SegmenterProofs --------------------------
(***************************************************************************)
(* What the segmenter returns, for any text, however many Items and lines. *)
(***************************************************************************)
EXTENDS Segmenter, FiniteSetTheorems, TLAPS

LEMMA LineType ==
    ASSUME NEW t, WellFormed(t), NEW l \in t.lines
    PROVE  l \in Line /\ l.at \in Nat /\ l.at < t.total /\ t.total \in Nat
  BY DEF WellFormed, Texts, Line

LEMMA HeadsAreHits ==
    ASSUME NEW t
    PROVE  Heads(t) \subseteq Hits(t) /\ Hits(t) \subseteq t.lines
  BY DEF Heads, Hits

\* No Item has two heads.
LEMMA OneHead ==
    ASSUME NEW t, WellFormed(t), NEW l \in Heads(t), NEW m \in Heads(t), l.item = m.item
    PROVE  l = m
  <1>1. l \in Hits(t) /\ m \in Hits(t) /\ Picked(t, l) /\ Picked(t, m)
    BY DEF Heads
  <1>2. l.at \in Nat /\ m.at \in Nat
    BY HeadsAreHits, LineType
  <1>3. SUFFICES ASSUME l # m PROVE FALSE
    OBVIOUS
  <1>4. /\ IF AfterToc(t, l) THEN ~AfterToc(t, m) \/ l.at < m.at
                             ELSE ~AfterToc(t, m) /\ l.at < m.at
        /\ IF AfterToc(t, m) THEN ~AfterToc(t, l) \/ m.at < l.at
                             ELSE ~AfterToc(t, l) /\ m.at < l.at
    BY <1>1, <1>3 DEF Picked
  <1> QED
    BY <1>2, <1>4

(***************************************************************************)
(* _pick_real_headers takes the heads a reader would take, in every text   *)
(* the 40% rule is meant for.                                              *)
(***************************************************************************)
LEMMA RegularHeads ==
    ASSUME NEW t, WellFormed(t), Regular(t)
    PROVE  Heads(t) = RealHeads(t)
  <1>1. ASSUME NEW h \in RealHeads(t)
        PROVE  h \in Heads(t)
    <2>1. h \in Hits(t) /\ h.at \in Nat /\ h.kind = "head"
      BY LineType DEF RealHeads, Regular
    <2>2. SUFFICES ASSUME NEW m \in Hits(t) \ {h}, m.item = h.item
                   PROVE  IF AfterToc(t, h) THEN ~AfterToc(t, m) \/ h.at < m.at
                                            ELSE ~AfterToc(t, m) /\ h.at < m.at
      BY <2>1 DEF Heads, Picked
    <2>3. /\ m.kind # "head"
          /\ m.kind = "toc" => AfterToc(t, h) /\ ~AfterToc(t, m)
          /\ m.kind = "mention" => h.at < m.at /\ (AfterToc(t, m) => AfterToc(t, h))
      BY <2>2 DEF Regular
    <2>4. m.kind \in {"head", "toc", "mention"}
      BY <2>2, HeadsAreHits, LineType DEF Line
    <2> QED
      BY <2>3, <2>4
  <1>2. ASSUME NEW l \in Heads(t)
        PROVE  l \in RealHeads(t)
    <2>1. l \in Hits(t)
      BY DEF Heads
    <2>2. PICK h \in RealHeads(t) : h.item = l.item
      BY <2>1 DEF Regular
    <2>3. h \in Heads(t)
      BY <1>1
    <2> QED
      BY <2>2, <2>3, OneHead
  <1> QED
    BY <1>1, <1>2

(***************************************************************************)
(* The sections of a text the 40% rule is meant for are, from head to      *)
(* head, those a reader would mark.                                        *)
(***************************************************************************)
THEOREM RegularSections ==
    ASSUME NEW t, WellFormed(t), Regular(t)
    PROVE  Sections(t) = RealSections(t)
  BY RegularHeads DEF Sections, RealSections

\* What is known of a section.
LEMMA CutSection ==
    ASSUME NEW t, WellFormed(t), NEW heads \in SUBSET t.lines,
           NEW s \in Cut(heads, t.total)
    PROVE  /\ s \in Section
           /\ s.from < s.to
           /\ s.to <= t.total
           /\ ~s.rescued
           /\ \E l \in heads : s.item = l.item /\ s.from = l.at
           /\ \A h \in heads : h.at <= s.from \/ s.to <= h.at
  <1>1. PICK l \in heads, e \in {h.at : h \in heads} \cup {t.total} :
           s = [item |-> l.item, from |-> l.at, to |-> e, rescued |-> FALSE]
    BY DEF Cut
  <1>2. /\ l \in Line /\ l.item \in Items /\ l.at \in Nat
        /\ \A h \in heads : h.at \in Nat /\ h.at < t.total
        /\ t.total \in Nat
    BY LineType DEF Line
  <1>3. e \in Nat /\ e <= t.total
    BY <1>2
  <1> QED
    BY <1>1, <1>2, <1>3 DEF Cut, Section

(***************************************************************************)
(* Whatever the text, no Item has two sections and no two sections have a  *)
(* place in common.                                                        *)
(***************************************************************************)
THEOREM SectionsApart ==
    ASSUME NEW t, WellFormed(t), NEW r \in Sections(t), NEW s \in Sections(t), r # s
    PROVE  /\ r.item # s.item
           /\ r.to <= s.from \/ s.to <= r.from
  <1>0. Heads(t) \in SUBSET t.lines
    BY HeadsAreHits
  <1>1. /\ r \in Section /\ r.from < r.to /\ r.to <= t.total /\ ~r.rescued
        /\ \A h \in Heads(t) : h.at <= r.from \/ r.to <= h.at
        /\ s \in Section /\ s.from < s.to /\ s.to <= t.total /\ ~s.rescued
        /\ \A h \in Heads(t) : h.at <= s.from \/ s.to <= h.at
    BY <1>0, CutSection DEF Sections
  <1>2. PICK l \in Heads(t) : r.item = l.item /\ r.from = l.at
    BY <1>0, CutSection DEF Sections
  <1>3. PICK m \in Heads(t) : s.item = m.item /\ s.from = m.at
    BY <1>0, CutSection DEF Sections
  <1>4. /\ r.to = t.total \/ \E h \in Heads(t) : r.to = h.at
        /\ s.to = t.total \/ \E h \in Heads(t) : s.to = h.at
    BY DEF Sections, Cut
  <1>5. /\ r.from \in Nat /\ r.to \in Nat /\ s.from \in Nat /\ s.to \in Nat
        /\ t.total \in Nat
    BY <1>1, <1>2, <1>0, LineType DEF Section
  <1>6. r = [item |-> r.item, from |-> r.from, to |-> r.to, rescued |-> r.rescued]
        /\ s = [item |-> s.item, from |-> s.from, to |-> s.to, rescued |-> s.rescued]
    BY <1>1 DEF Section
  <1>7. CASE l = m
    <2>1. r.from = s.from /\ r.item = s.item /\ r.rescued = s.rescued
      BY <1>1, <1>2, <1>3, <1>7 DEF Section
    <2>2. r.to # s.to
      BY <2>1, <1>6
    <2>3. CASE r.to < s.to
      BY <2>1, <2>3, <1>1, <1>4, <1>5
    <2>4. CASE s.to < r.to
      BY <2>1, <2>4, <1>1, <1>4, <1>5
    <2> QED
      BY <2>2, <2>3, <2>4, <1>5
  <1>8. CASE l # m
    <2>1. l.item # m.item
      BY <1>8, OneHead
    <2>2. m.at <= r.from \/ r.to <= m.at
      BY <1>1
    <2>3. l.at <= s.from \/ s.to <= l.at
      BY <1>1
    <2>4. l.at # m.at
      BY <1>8, <1>0 DEF WellFormed
    <2>5. r.from # s.from
      BY <2>4, <1>2, <1>3
    <2> QED
      BY <2>1, <2>2, <2>3, <2>5, <1>2, <1>3, <1>5
  <1> QED
    BY <1>7, <1>8

-----------------------------------------------------------------------------
\* What a rescue leaves of the sections, and what it brings.
LEMMA RescuedSections ==
    ASSUME NEW t, WellFormed(t), NEW answer,
           \A i \in DOMAIN answer : answer[i] \in Nat \X Nat,
           NEW s \in Rescued(t, Sections(t), answer)
    PROVE  /\ s \in Section
           /\ s \in Sections(t) \/ (s.rescued /\ ~Placeholder(t, s))
  <1>0. Heads(t) \in SUBSET t.lines
    BY HeadsAreHits
  <1>1. CASE s \in Sections(t)
    BY <1>0, <1>1, CutSection DEF Sections
  <1>2. CASE s \notin Sections(t)
    <2>1. PICK i \in DOMAIN answer \cap NeedingRescue(Sections(t)) :
             /\ Usable(t, answer[i])
             /\ s = [item |-> i, from |-> answer[i][1], to |-> answer[i][2], rescued |-> TRUE]
      BY <1>2 DEF Rescued
    <2>2. i \in Items
      BY <2>1, RescueAssumption DEF NeedingRescue
    <2>3. answer[i][1] \in Nat /\ answer[i][2] \in Nat
      BY <2>1
    <2>4. PlaceholderLength \in Nat /\ RescuedLength \in Nat /\ PlaceholderLength <= RescuedLength
      BY RescueAssumption
    <2>5. s.to - s.from >= RescuedLength
      BY <2>1, <2>3 DEF Usable
    <2> QED
      BY <2>1, <2>2, <2>3, <2>4, <2>5 DEF Section, Placeholder, Length, BodyFrom
  <1> QED
    BY <1>1, <1>2

\* Rescues take the place of sections, they do not remove any.
LEMMA RescuedKeeps ==
    ASSUME NEW t, NEW sections, NEW answer, NEW s \in sections
    PROVE  \/ s \in Rescued(t, sections, answer)
           \/ \E r \in Rescued(t, sections, answer) : r.item = s.item /\ r.rescued
  <1> DEFINE rescued == {i \in DOMAIN answer \cap NeedingRescue(sections) : Usable(t, answer[i])}
             r == [item |-> s.item, from |-> answer[s.item][1], to |-> answer[s.item][2],
                   rescued |-> TRUE]
  <1>1. CASE s.item \in rescued
    <2>1. r \in Rescued(t, sections, answer)
      BY <1>1 DEF Rescued
    <2>2. r.item = s.item /\ r.rescued
      OBVIOUS
    <2> HIDE DEF r, rescued
    <2> QED
      BY <2>1, <2>2
  <1>2. CASE s.item \notin rescued
    BY <1>2 DEF Rescued
  <1> QED
    BY <1>1, <1>2

(***************************************************************************)
(* After a rescue, too, an Item has one section, so no two of a brochure   *)
(* claim the same point of the corpus; they may overlap, as the model may  *)
(* point at a stretch another section has.                                 *)
(***************************************************************************)
THEOREM OneSectionEach ==
    ASSUME NEW t, WellFormed(t), NEW answer,
           NEW r \in Rescued(t, Sections(t), answer),
           NEW s \in Rescued(t, Sections(t), answer), r.item = s.item
    PROVE  r = s
  <1> DEFINE rescued == {i \in DOMAIN answer \cap NeedingRescue(Sections(t)) :
                           Usable(t, answer[i])}
             brought(i) == [item |-> i, from |-> answer[i][1], to |-> answer[i][2],
                            rescued |-> TRUE]
  <1>1. \A q \in Rescued(t, Sections(t), answer) :
           \/ q.item \notin rescued /\ q \in Sections(t)
           \/ q.item \in rescued /\ q = brought(q.item)
    BY DEF Rescued
  <1>2. CASE r.item \in rescued
    BY <1>1, <1>2
  <1>3. CASE r.item \notin rescued
    BY <1>1, <1>3, SectionsApart
  <1> QED
    BY <1>2, <1>3

-----------------------------------------------------------------------------
\* Of some places in a text there is a first.  (That intervals are finite, and
\* inclusion well-founded on finite sets, is what the library offers for it.)
LEMMA FirstOf ==
    ASSUME NEW S, S \subseteq Nat, S # {}
    PROVE  \E n \in S : \A m \in S : n <= m
  <1> DEFINE upTo == {0 .. n : n \in S}
  <1>1. upTo \subseteq FiniteSubsetsOf(Nat) /\ upTo # {}
    <2>1. ASSUME NEW n \in S
          PROVE  0 .. n \in FiniteSubsetsOf(Nat)
      <3>1. n \in Int /\ 0 \in Int /\ 0 .. n \in SUBSET Nat
        OBVIOUS
      <3>2. IsFiniteSet(0 .. n)
        BY <3>1, FS_Interval
      <3> QED
        BY <3>1, <3>2 DEF FiniteSubsetsOf
    <2> QED
      BY <2>1
  <1>2. IsWellFoundedOn(StrictSubsetOrdering(Nat), FiniteSubsetsOf(Nat))
    BY FS_StrictSubsetOrderingWellFounded
  <1>3. \E I \in upTo : \A J \in upTo : <<J, I>> \notin StrictSubsetOrdering(Nat)
    <2> HIDE DEF upTo
    <2> QED
      BY <1>1, <1>2, WFMin
  <1>4. PICK n \in S : \A m \in S : <<0 .. m, 0 .. n>> \notin StrictSubsetOrdering(Nat)
    BY <1>3
  <1>5. ASSUME NEW m \in S, m < n
        PROVE  FALSE
    <2>1. m \in Nat /\ n \in Nat
      OBVIOUS
    <2>2. /\ 0 .. m \in SUBSET Nat /\ 0 .. n \in SUBSET Nat
          /\ 0 .. m \subseteq 0 .. n
          /\ n \in 0 .. n /\ n \notin 0 .. m
      BY <2>1, <1>5
    <2>3. <<0 .. m, 0 .. n>> \in StrictSubsetOrdering(Nat)
      BY <2>2 DEF StrictSubsetOrdering
    <2> QED
      BY <2>3, <1>4
  <1> QED
    BY <1>5

\* Of some lines there is an earliest, and of some before p a latest.
LEMMA EarliestOf ==
    ASSUME NEW L, L # {}, \A l \in L : l.at \in Nat
    PROVE  \E h \in L : \A l \in L : h.at <= l.at
  <1> DEFINE places == {l.at : l \in L}
  <1>1. places \subseteq Nat /\ places # {}
    OBVIOUS
  <1>2. \E n \in places : \A m \in places : n <= m
    <2> HIDE DEF places
    <2> QED
      BY <1>1, FirstOf
  <1>3. PICK n \in places : \A m \in places : n <= m
    BY <1>2
  <1>4. PICK h \in L : h.at = n
    BY <1>3
  <1>5. \A l \in L : n <= l.at
    BY <1>3
  <1> QED
    BY <1>4, <1>5

LEMMA LatestOf ==
    ASSUME NEW L, L # {}, NEW p \in Nat, \A l \in L : l.at \in Nat /\ l.at <= p
    PROVE  \E h \in L : \A l \in L : l.at <= h.at
  <1> DEFINE back == {p - l.at : l \in L}
  <1>1. back \subseteq Nat /\ back # {}
    OBVIOUS
  <1>2. \E n \in back : \A m \in back : n <= m
    <2> HIDE DEF back
    <2> QED
      BY <1>1, FirstOf
  <1>3. PICK n \in back : \A m \in back : n <= m
    BY <1>2
  <1>4. PICK h \in L : p - h.at = n
    BY <1>3
  <1>5. \A l \in L : n <= p - l.at
    BY <1>3
  <1> QED
    BY <1>4, <1>5

\* An Item that some match names has a head.
LEMMA HitHasHead ==
    ASSUME NEW t, WellFormed(t), NEW m \in Hits(t)
    PROVE  \E h \in Heads(t) : h.item = m.item
  <1> DEFINE lines == {l \in Hits(t) : l.item = m.item}
             after == {l \in lines : AfterToc(t, l)}
  <1>1. \A l \in lines : l \in Hits(t) /\ l \in t.lines /\ l.item = m.item /\ l.at \in Nat
    BY HeadsAreHits, LineType
  <1>2. CASE after # {}
    <2>1. \A l \in after : l.at \in Nat
      BY <1>1
    <2>2. \E h \in after : \A l \in after : h.at <= l.at
      <3> HIDE DEF after
      <3> QED
        BY <2>1, <1>2, EarliestOf
    <2> PICK h \in after : \A l \in after : h.at <= l.at
      BY <2>2
    <2>3. ASSUME NEW l \in Hits(t) \ {h}, l.item = h.item, AfterToc(t, l)
          PROVE  h.at < l.at
      <3>1. l \in after /\ h \in t.lines /\ l \in t.lines
        BY <2>3, <1>1, HeadsAreHits
      <3>2. l.at # h.at
        BY <3>1, <2>3 DEF WellFormed
      <3> QED
        BY <3>1, <3>2, <2>2, <1>1
    <2>4. Picked(t, h)
      BY <2>3 DEF Picked
    <2> QED
      BY <2>4, <1>1 DEF Heads
  <1>3. CASE after = {}
    <2>1. (\A l \in lines : l.at \in Nat) /\ lines # {}
      BY <1>1
    <2>2. \E h \in lines : \A l \in lines : h.at <= l.at
      <3> HIDE DEF lines
      <3> QED
        BY <2>1, EarliestOf
    <2> PICK h \in lines : \A l \in lines : h.at <= l.at
      BY <2>2
    <2>3. ASSUME NEW l \in Hits(t) \ {h}, l.item = h.item
          PROVE  ~AfterToc(t, l) /\ h.at < l.at
      <3>1. l \in lines /\ h \in t.lines /\ l \in t.lines
        BY <2>3, <1>1, HeadsAreHits
      <3>2. l.at # h.at
        BY <3>1, <2>3 DEF WellFormed
      <3> QED
        BY <3>1, <3>2, <2>2, <1>1, <1>3
    <2>4. ~AfterToc(t, h)
      BY <1>3
    <2>5. Picked(t, h)
      BY <2>3, <2>4 DEF Picked
    <2> QED
      BY <2>5, <1>1 DEF Heads
  <1> QED
    BY <1>2, <1>3

\* What Cut keeps: the piece from a head to an end with no head in between.
LEMMA PieceOfCut ==
    ASSUME NEW H, NEW n, NEW l \in H, NEW e \in {h.at : h \in H} \cup {n},
           l.at < e, \A h \in H : h.at <= l.at \/ e <= h.at
    PROVE  \E s \in Cut(H, n) : s.item = l.item /\ s.from = l.at
  <1> DEFINE ends        == {h.at : h \in H} \cup {n}
             Piece(h, d) == [item |-> h.item, from |-> h.at, to |-> d, rescued |-> FALSE]
             pieces      == {Piece(h, d) : h \in H, d \in ends}
             Kept(s)     == /\ s.from < s.to
                            /\ \A h \in H : h.at <= s.from \/ s.to <= h.at
  <1>1. Cut(H, n) = {s \in pieces : Kept(s)}
    BY DEF Cut
  <1>2. Kept(Piece(l, e)) /\ Piece(l, e).item = l.item /\ Piece(l, e).from = l.at
    OBVIOUS
  <1>3. e \in ends
    OBVIOUS
  <1> HIDE DEF ends, Piece, Kept
  <1>4. Piece(l, e) \in pieces
    BY <1>3
  <1> HIDE DEF pieces
  <1> QED
    BY <1>1, <1>2, <1>4

\* A head has a section: it ends at the first head that follows, or with the text.
LEMMA HeadHasSection ==
    ASSUME NEW t, WellFormed(t), NEW l \in Heads(t)
    PROVE  \E s \in Sections(t) : s.item = l.item /\ s.from = l.at
  <1> DEFINE ends == {h.at : h \in Heads(t)} \cup {t.total}
             later == {e \in ends : l.at < e}
  <1>1. /\ \A h \in Heads(t) : h.at \in Nat
        /\ l.at \in Nat /\ t.total \in Nat /\ l.at < t.total
    BY LineType, HeadsAreHits
  <1>2. later \subseteq Nat /\ later # {}
    BY <1>1
  <1>3. PICK e \in later : \A d \in later : e <= d
    BY <1>2, FirstOf
  <1>4. \A h \in Heads(t) : h.at <= l.at \/ e <= h.at
    BY <1>1, <1>3
  <1>5. e \in ends /\ l.at < e
    BY <1>3
  <1> QED
    BY <1>4, <1>5, PieceOfCut DEF Sections

\* A line that is not matched comes right after a bare one.
LEMMA UnmatchedIsTitle ==
    ASSUME NEW t, WellFormed(t), NEW l \in t.lines \ Hits(t)
    PROVE  \E m \in t.lines : /\ m.bare /\ m.at < l.at
                              /\ \A n \in t.lines : ~(m.at < n.at /\ n.at < l.at)
  <1> DEFINE before == BareBefore(t, l)
  <1>1. before # {}
    <2>1. Cardinality({}) % 2 = 0
      BY FS_EmptySet
    <2> QED
      BY <2>1 DEF Hits
  <1>2. \A n \in t.lines : n.at \in Nat
    BY LineType
  <1>3. /\ before \subseteq t.lines
        /\ \A m \in before : m.at \in Nat /\ m.at <= l.at
    BY <1>2 DEF BareBefore
  <1>4. \E m \in before : \A n \in before : n.at <= m.at
    <2> HIDE DEF before
    <2> QED
      BY <1>1, <1>2, <1>3, LatestOf
  <1>5. PICK m \in before : \A n \in before : n.at <= m.at
    BY <1>4
  <1>6. m \in t.lines /\ m.bare /\ m.at < l.at
    BY <1>2, <1>5 DEF BareBefore
  <1>7. ASSUME NEW n \in t.lines, m.at < n.at, n.at < l.at
        PROVE  FALSE
    <2>1. n \in before
      BY <1>2, <1>5, <1>7 DEF BareBefore
    <2> QED
      BY <1>2, <1>5, <1>6, <1>7, <2>1
  <1> QED
    BY <1>6, <1>7

(***************************************************************************)
(* An Item in missing_items has no line in the text, or only lines that    *)
(* come right after a bare one, which took them for its title; an Item     *)
(* with a section is named by a line.  The heads that are lost are lost to *)
(* the regular expression and never to the 40% rule.                       *)
(***************************************************************************)
THEOREM MissingIsUnmatched ==
    ASSUME NEW t, WellFormed(t), NEW i \in Items
    PROVE  IF i \in Missing(Sections(t))
           THEN \A l \in t.lines : l.item = i =>
                   \E m \in t.lines : /\ m.bare /\ m.at < l.at
                                      /\ \A n \in t.lines : ~(m.at < n.at /\ n.at < l.at)
           ELSE \E l \in Hits(t) : l.item = i
  <1>1. ASSUME NEW m \in Hits(t)
        PROVE  \E s \in Sections(t) : s.item = m.item
    BY HitHasHead, HeadHasSection
  <1>2. ASSUME NEW s \in Sections(t)
        PROVE  \E l \in Hits(t) : l.item = s.item
    BY <1>2, HeadsAreHits, CutSection DEF Sections
  <1>3. CASE i \in Missing(Sections(t))
    <2>1. \A l \in Hits(t) : l.item # i
      BY <1>1, <1>3 DEF Missing
    <2> QED
      BY <1>3, <2>1, UnmatchedIsTitle
  <1>4. CASE i \notin Missing(Sections(t))
    <2>1. PICK s \in Sections(t) : s.item = i
      BY <1>4 DEF Missing
    <2> QED
      BY <1>2, <1>4, <2>1
  <1> QED
    BY <1>3, <1>4

(***************************************************************************)
(* From the first head on, no place of the text is lost: it is in some     *)
(* section, and by SectionsApart in no other.                              *)
(***************************************************************************)
THEOREM NothingIsLost ==
    ASSUME NEW t, WellFormed(t), NEW p \in Nat, p < t.total,
           NEW first \in Heads(t), first.at <= p
    PROVE  \E s \in Sections(t) : s.from <= p /\ p < s.to
  <1> DEFINE before == {h \in Heads(t) : h.at <= p}
  <1>1. \A h \in Heads(t) : h.at \in Nat
    BY LineType, HeadsAreHits
  <1>2. before # {} /\ \A h \in before : h.at \in Nat /\ h.at <= p
    BY <1>1
  <1>3. \E l \in before : \A h \in before : h.at <= l.at
    <2> HIDE DEF before
    <2> QED
      BY <1>2, LatestOf
  <1> PICK l \in before : \A h \in before : h.at <= l.at
    BY <1>3
  <1>4. PICK s \in Sections(t) : s.from = l.at
    BY HeadHasSection
  <1>5. /\ s.from < s.to
        /\ s.to = t.total \/ \E h \in Heads(t) : s.to = h.at
    BY DEF Sections, Cut
  <1>6. ASSUME NEW h \in Heads(t), s.to = h.at
        PROVE  p < h.at
    <2>1. l.at < h.at
      BY <1>4, <1>5, <1>6
    <2>2. SUFFICES ASSUME h.at <= p PROVE FALSE
      BY <1>1
    <2>3. h.at <= l.at
      BY <2>2
    <2> QED
      BY <2>1, <2>3, <1>1
  <1> QED
    BY <1>1, <1>4, <1>5, <1>6
=============================================================================
