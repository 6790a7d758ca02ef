--------------------------- MODULE AtMostOnceCall ---------------------------
(***************************************************************************)
(* What one row of the provider-call ledger promises to the rest of the    *)
(* headline workflow, whoever executes it: the row is started once, the    *)
(* provider is contacted at most once, the row is settled once, and an     *)
(* answer is only recorded of a provider that was contacted.               *)
(*                                                                         *)
(* The contact may come after the row was settled "ambiguous": a worker    *)
(* whose lease ran out between its durable `sent` mark and its transport   *)
(* still transmits, and its answer is then ignored.                        *)
(***************************************************************************)
EXTENDS Naturals

VARIABLES outcome,    \* "unsent", "sent" or one of Settled
          contacts    \* how often the provider was contacted

vars == <<outcome, contacts>>

Answered == {"completed", "failed"}
Settled  == Answered \cup {"ambiguous"}

Init == outcome = "unsent" /\ contacts = 0

Start == /\ outcome = "unsent"
         /\ outcome' = "sent"
         /\ UNCHANGED contacts

Contact == /\ outcome \in {"sent", "ambiguous"}
           /\ contacts = 0
           /\ contacts' = 1
           /\ UNCHANGED outcome

Settle == /\ outcome = "sent"
          /\ outcome' \in IF contacts = 1 THEN Settled ELSE {"ambiguous"}
          /\ UNCHANGED contacts

Next == Start \/ Contact \/ Settle

Spec == Init /\ [][Next]_vars

=============================================================================
