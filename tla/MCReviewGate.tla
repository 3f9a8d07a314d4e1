---------------------------- MODULE MCReviewGate ----------------------------
(* Small instances of ReviewGate for TLC: nothing tells reports apart. *)
EXTENDS ReviewGate, TLC

MCSymmetry == Permutations(Reports)
=============================================================================
