--------------------------- MODULE MCProviderCall ---------------------------
(* Three workers share one ledger row: one that hangs, one that receives   *)
(* the redelivery and one that receives the message of the next claim.     *)
EXTENDS ProviderCall

CONSTANTS hung, redelivered, next

MCWorkers == {hung, redelivered, next}

=============================================================================
