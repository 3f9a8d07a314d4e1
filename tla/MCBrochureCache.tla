-------------------------- MODULE MCBrochureCache --------------------------
(* A web process with two tasks and a CLI beside it. *)
EXTENDS BrochureCache, TLC

CONSTANTS w1, w2, c1, web, cli, b1, b2, d1, k1, k2

MCProcess == w1 :> web @@ w2 :> web @@ c1 :> cli

MCJobs == w1 :> {"run", "upload"} @@ w2 :> {"run"} @@ c1 :> {"fetch", "seed"}

\* Two brochures that are uploaded as drafts have the same key, and a draft
\* that was never filed has another.
MCKey == b1 :> k1 @@ b2 :> k1 @@ d1 :> k2

\* Nothing tells the two brochures apart.
MCSymmetry == Permutations(Brochures)
=============================================================================
