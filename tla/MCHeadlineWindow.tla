-------------------------- MODULE MCHeadlineWindow --------------------------
(* One window under the configurations of the HeadlineWindow runs: workers *)
(* are interchangeable.                                                    *)
EXTENDS HeadlineWindow, TLC

Symmetry == Permutations(Workers)

=============================================================================
