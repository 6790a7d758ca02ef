------------------------ MODULE MCBackfillCollection ------------------------
(* Two executors of one backfill job, of a query of two pages and a query   *)
(* of one page, and a live harvest.                                        *)
EXTENDS BackfillCollection, TLC

CONSTANTS old, new, harvest

MCPages == <<2, 1>>
MCTwoPages == <<2, 2>>

Symmetry == Permutations({old, new})

=============================================================================
