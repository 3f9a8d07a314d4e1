----------------------------- MODULE Segmenter -----------------------------
(***************************************************************************)
(* From the text of a brochure to its Items: HeuristicSegmenter            *)
(* (segmenter/heuristic.py), and the rescue of Items it did not find or    *)
(* found too short (segmenter/llm_fallback.py).                            *)
(*                                                                         *)
(* A text is the lines in it that read "Item N ...": the head of an Item's *)
(* section, an entry of the table of contents, or a mention that happens   *)
(* to begin a line.  Of which kind it is the code cannot see, and it does  *)
(* not see all of them.  Positions and lengths are in blocks of            *)
(* characters; a head and its title take the first of its section.  Where  *)
(* the title is a line "Item N ..." of its own, that counts as text.       *)
(***************************************************************************)
EXTENDS Naturals, FiniteSets

CONSTANTS
    Items,
    RescueItems,      \* those an extractor reads
    RescueLength,     \* RESCUE_THRESHOLD_CHARS
    RescuedLength,    \* the least a rescue may bring, a quarter of it
    PlaceholderLength

ASSUME RescueAssumption ==
    /\ RescueItems \subseteq Items
    /\ {RescueLength, RescuedLength, PlaceholderLength} \subseteq Nat
    /\ PlaceholderLength <= RescuedLength

-----------------------------------------------------------------------------
\* "bare" says that there is no title, and no other text before the next one of
\* these lines.
Line == [item : Items, at : Nat, kind : {"head", "toc", "mention"}, bare : BOOLEAN]

Texts == [lines : SUBSET Line,
          na    : SUBSET Nat,       \* where it says "not applicable"
          total : Nat]

\* Lines are at different places, before the end.
WellFormed(t) ==
    /\ t \in Texts
    /\ \A l \in t.lines : l.at < t.total
    /\ \A l, m \in t.lines : l.at = m.at => l = m

Section == [item : Items, from : Nat, to : Nat, rescued : BOOLEAN]

-----------------------------------------------------------------------------
(* HeuristicSegmenter *)

\* The bare lines right before l.
BareBefore(t, l) ==
    {m \in t.lines : /\ m.at < l.at
                     /\ \A n \in t.lines : m.at <= n.at /\ n.at < l.at => n.bare}

\* The matches of the regular expression.  The separators it skips in front of a
\* title include line ends, so a bare line takes the next line for its title,
\* and the next match begins after that.
Hits(t) == {l \in t.lines : Cardinality(BareBefore(t, l)) % 2 = 0}

Cutoff(t) == (t.total * 2) \div 5

AfterToc(t, l) == l.at >= Cutoff(t)

PickedFirst(t, l) ==      \* mutant: whatever the cutoff
    \A m \in Hits(t) \ {l} : m.item = l.item => l.at < m.at

\* l is the match of its Item to take: the first at or after the cutoff, or the
\* first if there is none.
Picked(t, l) ==
    \A m \in Hits(t) \ {l} : m.item = l.item =>
       IF AfterToc(t, l) THEN ~AfterToc(t, m) \/ l.at < m.at
                         ELSE ~AfterToc(t, m) /\ l.at < m.at

Heads(t) == {l \in Hits(t) : Picked(t, l)}

\* A section lasts until the next head, or the end of the text.
Cut(heads, total) ==
    {s \in {[item |-> l.item, from |-> l.at, to |-> e, rescued |-> FALSE] :
               l \in heads, e \in {h.at : h \in heads} \cup {total}} :
       /\ s.from < s.to
       /\ \A h \in heads : h.at <= s.from \/ s.to <= h.at}

Sections(t) == Cut(Heads(t), t.total)

Missing(sections) == Items \ {s.item : s \in sections}

-----------------------------------------------------------------------------
(* rescue_missing_items *)

\* The body of a section that is not rescued begins after its head.
BodyFrom(s) == IF s.rescued THEN s.from ELSE s.from + 1

Length(s) == s.to - BodyFrom(s)

NeedingRescue(sections) ==
    {i \in RescueItems : \A s \in sections : s.item = i => Length(s) < RescueLength}

Usable(t, span) ==
    /\ span[1] < span[2]
    /\ span[2] <= t.total
    /\ span[2] - span[1] >= RescuedLength

\* The model answers with spans for some Items; those that were not asked for
\* or are of no use are dropped.
Rescued(t, sections, answer) ==
    LET rescued == {i \in DOMAIN answer \cap NeedingRescue(sections) : Usable(t, answer[i])}
    IN  {s \in sections : s.item \notin rescued}
        \cup {[item |-> i, from |-> answer[i][1], to |-> answer[i][2], rescued |-> TRUE] :
                 i \in rescued}

\* The text is short and says that the Item does not apply.
Placeholder(t, s) ==
    Length(s) < PlaceholderLength /\ \E p \in t.na : BodyFrom(s) <= p /\ p < s.to

-----------------------------------------------------------------------------
(* What the segmenter is for; none of this is in the code. *)

RealHeads(t) == {l \in t.lines : l.kind = "head"}

\* The sections as a reader would mark them.
RealSections(t) == Cut(RealHeads(t), t.total)

(***************************************************************************)
(* The texts the 40% rule is meant for.  No head is the title of a bare    *)
(* line.  The table of contents is before the cutoff, an Item that is      *)
(* listed or mentioned has one section, and it is mentioned after its head *)
(* only.  An Item whose section begins before the cutoff is not listed,    *)
(* and not mentioned after the cutoff: the rule would take the entry, or   *)
(* the mention, for the head.                                              *)
(***************************************************************************)
Regular(t) ==
    /\ RealHeads(t) \subseteq Hits(t)
    /\ \A l \in Hits(t) : \E h \in RealHeads(t) : h.item = l.item
    /\ \A h \in RealHeads(t) : \A l \in Hits(t) \ {h} : h.item = l.item =>
          /\ l.kind # "head"
          /\ l.kind = "toc" => AfterToc(t, h) /\ ~AfterToc(t, l)
          /\ l.kind = "mention" => h.at < l.at /\ (AfterToc(t, l) => AfterToc(t, h))
=============================================================================
