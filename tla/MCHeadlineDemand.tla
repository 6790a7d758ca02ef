-------------------------- MODULE MCHeadlineDemand --------------------------
(* Instances of HeadlineDemand for TLC.                                      *)
EXTENDS HeadlineDemand, TLC

\* No step and no property tells two dossiers or two releases apart.
Renaming == Permutations(Material) \cup Permutations(Target)

=============================================================================
