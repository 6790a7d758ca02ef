------------------------- MODULE MCEnrichmentQueue -------------------------
(* Two worker processes and one post.                                      *)
EXTENDS EnrichmentQueue

CONSTANTS slow, prompt

MCWorkers == {slow, prompt}

=============================================================================
