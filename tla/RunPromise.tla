------------------------------ MODULE RunPromise ------------------------------
(***************************************************************************)
(* What a headline run promises to its window: every brand of the manifest *)
(* gets one outcome, of the kind its facts allow and never another one,    *)
(* whether the run is still open or not; the run is closed or suspended    *)
(* once, and published only with an outcome for every brand.               *)
(*                                                                         *)
(* This is how HeadlineWindow sees a run whose calls, walks and messages   *)
(* it leaves out; RunGraph, which has them, implements it.  That a         *)
(* suspended run is never published, which the window takes for granted,   *)
(* needs conditions on the workers and the plan: see RunGraphProofs.       *)
(***************************************************************************)
CONSTANTS Brand,    \* brands of the manifest
          Plain     \* those without a narrative

VARIABLES status,   \* of the run
          outcome   \* of each brand

vars == <<status, outcome>>

Init == /\ status = "preparing"
        /\ outcome = [k \in Brand |-> "none"]

Complete == \A k \in Brand : outcome[k] # "none"

Kind(k) == IF k \in Plain THEN {"no_content"} ELSE {"approved", "held"}

\* Some brands are decided, as long as the run is not public.
Decide == /\ status # "active"
          /\ outcome' \in [Brand -> {"none", "approved", "held", "no_content"}]
          /\ \A k \in Brand : outcome'[k] # outcome[k] =>
               outcome[k] = "none" /\ outcome'[k] \in Kind(k)
          /\ UNCHANGED status

\* A run without any narrative to write may be closed before its brands are
\* decided.
Close == /\ status = "preparing"
         /\ Complete \/ Plain = Brand
         /\ status' = "terminal"
         /\ UNCHANGED outcome

Suspend == /\ status = "preparing"
           /\ status' = "suspended"
           /\ UNCHANGED outcome

Publish == /\ status \in {"terminal", "suspended"}
           /\ Complete
           /\ status' = "active"
           /\ UNCHANGED outcome

Next == Decide \/ Close \/ Suspend \/ Publish

Spec == Init /\ [][Next]_vars

=============================================================================
