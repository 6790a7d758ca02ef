------------------------- MODULE MCProviderBatches -------------------------
(* Two controllers and the provider groups of one request.                 *)
EXTENDS ProviderBatches

CONSTANTS old, new, r1

=============================================================================
