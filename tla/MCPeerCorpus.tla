---------------------------- MODULE MCPeerCorpus ----------------------------
(* Two firms, one of which files an amendment, and their Items 5 and 9. *)
EXTENDS PeerCorpus, TLC

CONSTANTS f1, f2, band

MCFilings == {<<f1, 1>>, <<f1, 2>>, <<f2, 1>>}

\* It names a firm twice.
MCSpecFiles ==
    {<<[band |-> NULL, crd |-> f1, vid |-> NULL],
       [band |-> band, crd |-> f2, vid |-> 1],
       [band |-> NULL, crd |-> f1, vid |-> 1]>>}

Lines(i, kind, places, bare) ==
    {[item |-> i, at |-> p, kind |-> kind, bare |-> p \in bare] : p \in places}

\* Item 5 is in the table of contents or not, and mentioned or not.
Text(toc5, head5, mention5, toc9, head9, na, bare, total) ==
    [lines |-> Lines(5, "toc", toc5, bare) \cup Lines(5, "head", {head5}, bare)
               \cup Lines(5, "mention", mention5, bare)
               \cup Lines(9, "toc", toc9, bare) \cup Lines(9, "head", {head9}, bare),
     na |-> na, total |-> total]

\* The first lists both Items, the entry of Item 9 is the title of that of Item
\* 5, and the section of Item 5 begins at the cutoff.  In the second, it begins
\* before the cutoff.  The third is not what the segmenter is meant for: it
\* loses the head of Item 9, and nobody rescues it.
Listed == Text({1}, 4, {7}, {2}, 10, {11}, {1}, 12)
Unlisted == Text({}, 2, {3}, {}, 8, {}, {}, 12)
Swallowed == Text({1}, 3, {}, {}, 4, {}, {3}, 8)

MCTextsOf ==
    [f \in Filings |-> CASE f = <<f1, 1>> -> {Listed}
                         [] f = <<f1, 2>> -> {Swallowed}
                         [] OTHER -> {Unlisted}]

MCAnswers == {<<>>, 9 :> <<7, 9>> @@ 5 :> <<4, 13>>}

MCSymmetry == Permutations(Seeders)

\* The second wants more than the reranker keeps.
MCCliQueries ==
    {[band |-> band, item |-> NULL, own |-> NULL, hybrid |-> FALSE, rerank |-> FALSE, k |-> 1],
     [band |-> NULL, item |-> 5, own |-> NULL, hybrid |-> FALSE, rerank |-> TRUE, k |-> 3]}
=============================================================================
