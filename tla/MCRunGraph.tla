----------------------------- MODULE MCRunGraph -----------------------------
(* Two batches of one brand each or one batch of two, and a brand without  *)
(* a narrative, under two workers.                                         *)
EXTENDS RunGraph, TLC

CONSTANTS k1, k2, k3, w1, w2

MCMembers == <<{k1}, {k2}>>
MCOneBatch == <<{k1, k2}>>
MCBrand == {k1, k2, k3}
MCEligibleOnly == {k1, k2}
MCWorkers == {w1, w2}
Symmetry == Permutations(MCWorkers)

=============================================================================
