--------------------------- MODULE HeadlineDemand ---------------------------
(***************************************************************************)
(* The demand row of one brand in one window under demand shaping: readers *)
(* and operators ask for the brand, the snapshot task decides whether the  *)
(* next run narrates it, and the finalize task notes what was concluded.   *)
(*                                                                         *)
(* The decision, the creation of the run, its activation and the note are  *)
(* transactions of their own, with requests and deaths in between.  The    *)
(* window admits one cutoff after the other (HeadlineWindow) and its runs  *)
(* are closed or suspended (RunGraph); here a run that was active once     *)
(* stays so, because only the latest selection matters.                    *)
(***************************************************************************)
EXTENDS Integers

CONSTANTS Workers,      \* processes that execute headline tasks
          Material,     \* material_input_fingerprint of the brand's dossier
          Target,       \* target_identity of the releases that run
          MaxRuns,      \* runs of the window explored (a bound)
          MaxRequests,  \* operator requests explored (a bound)
          MaxFaults     \* deaths and suspensions explored (a bound)

None == "none"

ASSUME DemandAssumption ==
  /\ None \notin Material /\ None \notin Target
  /\ MaxRuns \in Nat /\ MaxRequests \in Nat /\ MaxFaults \in Nat

VARIABLES row,        \* the TrendNarrativeDemand, target None if there is none
          material,   \* what the dossier of the brand contains now
          cutoff,     \* the last cutoff admitted
          slot,       \* the cutoff at work, 0 if the slot is empty
          run,        \* the run of each cutoff
          job,        \* what each worker is doing
          faults,     \* deaths and suspensions so far
          concluded,  \* history: the selection of the last active run that
                      \* decided about the brand, approved or not
          lost,       \* history: the last selection, or the note about it, died
          renewed     \* history: the target changed since the last selection

history == <<concluded, lost, renewed>>
vars == <<row, material, cutoff, slot, run, job, faults, history>>

-----------------------------------------------------------------------------
(* Types *)

Cutoffs   == 1..MaxRuns
Selection == [print : Material, target : Target, op : 0..MaxRequests]
NoSel     == [print |-> None, target |-> None, op |-> 0]
NoDemand  == [target |-> None, print |-> None, state |-> "pending",
              op |-> 0, enqueued |-> 0, hot |-> FALSE]
NoRun     == [status |-> "none", sel |-> NoSel, version |-> None]
Idle      == [pc |-> "idle", run |-> 0, sel |-> NoSel]

Demands == [target : Target \cup {None}, print : Material \cup {None},
            state : {"pending", "scheduled", "suppressed", "satisfied"},
            op : 0..MaxRequests, enqueued : 0..MaxRequests, hot : BOOLEAN]
Runs    == [status : {"none", "open", "closed", "suspended", "active"},
            sel : Selection \cup {NoSel}, version : Target \cup {None}]
Jobs    == [pc : {"idle", "built", "mark", "release"},
            run : 0..MaxRuns, sel : Selection \cup {NoSel}]

TypeOK ==
  /\ row \in Demands
  /\ row.enqueued <= row.op           \* ck_tnd_operator_count
  /\ material \in Material
  /\ cutoff \in 0..MaxRuns /\ slot \in 0..MaxRuns
  /\ run \in [Cutoffs -> Runs]
  /\ job \in [Workers -> Jobs]
  /\ faults \in 0..MaxFaults
  /\ concluded \in Selection \cup {NoSel}
  /\ lost \in BOOLEAN /\ renewed \in BOOLEAN

Go(w, pc, n, sel) ==
  job' = [job EXCEPT ![w] = [pc |-> pc, run |-> n, sel |-> sel]]
Rest(w) == job' = [job EXCEPT ![w] = Idle]

-----------------------------------------------------------------------------
Init == /\ row = NoDemand
        /\ material \in Material
        /\ cutoff = 0 /\ slot = 0
        /\ run = [n \in Cutoffs |-> NoRun]
        /\ job = [w \in Workers |-> Idle]
        /\ faults = 0
        /\ concluded = NoSel
        /\ lost = FALSE /\ renewed = FALSE

(* Requests *)

\* Mutants of Again: the wrong counter is reset; every request forgets.
AgainMixed(target, op) ==
  LET newer == target # row.target IN
  [row EXCEPT !.target = target,
              !.print = IF newer THEN None ELSE @,
              !.state = "pending",
              !.op = IF newer THEN op ELSE @ + op,
              !.hot = TRUE]

AgainForgets(target, op) ==
  [row EXCEPT !.target = target, !.print = None, !.state = "pending",
              !.op = @ + op, !.hot = TRUE,
              !.enqueued = IF target # row.target THEN 0 ELSE @]

\* A row that exists is asked for again: a new target forgets what was done.
Again(target, op) ==
  LET newer == target # row.target IN
  [row EXCEPT !.target = target,
              !.print = IF newer THEN None ELSE @,
              !.state = "pending",
              !.op = @ + op,
              !.enqueued = IF newer THEN 0 ELSE @,
              !.hot = TRUE]

\* _record_one, called by a page view, the prewarming dispatch (op = 0) or an
\* operator (op = 1), in a process of any release that is running.
Record(target, op) ==
  /\ row.op + op <= MaxRequests
  /\ row' = IF row.target = None
            THEN [NoDemand EXCEPT !.target = target, !.op = op, !.hot = TRUE]
            ELSE Again(target, op)
  /\ renewed' = (renewed \/ row.target \notin {None, target})
  /\ UNCHANGED <<material, cutoff, slot, run, job, faults, concluded, lost>>

\* hot_until passes.
Cool == /\ row.hot
        /\ row' = [row EXCEPT !.hot = FALSE]
        /\ UNCHANGED <<material, cutoff, slot, run, job, faults, history>>

\* Harvested and enriched posts change the dossier.
Change == /\ \E m \in Material \ {material} : material' = m
          /\ UNCHANGED <<row, cutoff, slot, run, job, faults, history>>

-----------------------------------------------------------------------------
(* The snapshot task *)

\* An envelope frees a slot whose run is over and admits its own cutoff.
Envelope(w) ==
  /\ job[w] = Idle
  /\ slot # 0 => run[slot].status \in {"active", "suspended"}
  /\ cutoff < MaxRuns
  /\ cutoff' = cutoff + 1
  /\ slot' = cutoff + 1
  /\ UNCHANGED <<row, material, run, job, faults, history>>

\* What a selection of the brand would say now.
Choice == [print |-> material, target |-> row.target, op |-> row.op]

Wanted == /\ row.target # None /\ row.hot
          /\ row.print # material \/ row.op > row.enqueued

\* The dossiers are computed and select_demanded_snapshot decides, in a
\* transaction of its own before the run exists.
Select(w) ==
  /\ job[w] = Idle
  /\ slot # 0 /\ run[slot].status = "none"
  /\ row' = IF Wanted
            THEN [row EXCEPT !.state = "scheduled", !.enqueued = row.op]
            ELSE IF row.hot THEN [row EXCEPT !.state = "suppressed"] ELSE row
  /\ Go(w, "built", slot, IF Wanted THEN Choice ELSE NoSel)
  /\ lost' = (lost /\ ~Wanted) /\ renewed' = (renewed /\ ~Wanted)
  /\ UNCHANGED <<material, cutoff, slot, run, faults, concluded>>

\* The run is created with the selection in its snapshot and with the
\* configuration of the worker, or found as another worker created it.
CreateRun(w) ==
  LET n == job[w].run IN
  /\ job[w].pc = "built"
  /\ \E version \in Target :
       run' = IF run[n].status = "none"
              THEN [run EXCEPT ![n] = [status |-> "open", sel |-> job[w].sel,
                                       version |-> version]]
              ELSE run
  /\ lost' = (lost \/ (run[n].status # "none" /\ job[w].sel # NoSel))
  /\ Rest(w)
  /\ UNCHANGED <<row, material, cutoff, slot, faults, concluded, renewed>>

-----------------------------------------------------------------------------
(* The run and its finalize task *)

Close(n) == /\ run[n].status = "open"
            /\ run' = [run EXCEPT ![n].status = "closed"]
            /\ UNCHANGED <<row, material, cutoff, slot, job, faults, history>>

Fault == faults < MaxFaults /\ faults' = faults + 1

\* _suspend_run leaves the demand alone.
Suspend(n) == /\ run[n].status = "open" /\ Fault
              /\ run' = [run EXCEPT ![n].status = "suspended"]
              /\ lost' = (lost \/ run[n].sel # NoSel)
              /\ UNCHANGED <<row, material, cutoff, slot, job, concluded,
                             renewed>>

\* activate_trend_narrative_run.  The outcome of the brand, a text or a held or
\* unavailable narrative, makes no difference to the demand
\* ("published_or_terminal").  Whoever finds the run active already, after
\* a death or beside the first delivery, goes on to the slot.
Activate(w, n) ==
  /\ job[w] = Idle
  /\ run[n].status \in {"closed", "active"}
  /\ IF run[n].status = "closed"
     THEN /\ run' = [run EXCEPT ![n].status = "active"]
          /\ concluded' = IF run[n].sel # NoSel THEN run[n].sel ELSE concluded
          /\ Go(w, "mark", n, run[n].sel)
     ELSE Go(w, "release", n, NoSel) /\ UNCHANGED <<run, concluded>>
  /\ UNCHANGED <<row, material, cutoff, slot, faults, lost, renewed>>

\* Mutant of Answers: the release is not compared.
AnswersAnyTarget(sel) == sel # NoSel /\ row.op = sel.op

\* mark_run_demands_satisfied: only for the very target and request selected.
Answers(sel) == sel # NoSel /\ row.target = sel.target /\ row.op = sel.op

Mark(w) ==
  LET sel == job[w].sel IN
  /\ job[w].pc = "mark"
  /\ row' = IF Answers(sel)
            THEN [row EXCEPT !.state = "satisfied", !.print = sel.print]
            ELSE row
  /\ Go(w, "release", job[w].run, NoSel)
  /\ UNCHANGED <<material, cutoff, slot, run, faults, history>>

\* _complete_work_slot
Release(w) == /\ job[w].pc = "release"
              /\ slot' = IF slot = job[w].run THEN 0 ELSE slot
              /\ Rest(w)
              /\ UNCHANGED <<row, material, cutoff, run, faults, history>>

\* A worker dies between two transactions; its message is delivered again.
Crash(w) == /\ job[w] # Idle /\ Fault
            /\ lost' = (lost \/ job[w].sel # NoSel)
            /\ Rest(w)
            /\ UNCHANGED <<row, material, cutoff, slot, run, concluded,
                           renewed>>

Next == \/ \E target \in Target, op \in {0, 1} : Record(target, op)
        \/ Cool \/ Change
        \/ \E n \in Cutoffs : Close(n) \/ Suspend(n)
        \/ \E w \in Workers :
             \/ Envelope(w) \/ Select(w) \/ CreateRun(w)
             \/ Mark(w) \/ Release(w) \/ Crash(w)
             \/ \E n \in Cutoffs : Activate(w, n)

Spec == Init /\ [][Next]_vars

-----------------------------------------------------------------------------
(* Properties *)

\* The snapshot task decides about a brand that is asked for.
Considers(w) == job[w] = Idle /\ job'[w].pc = "built" /\ row.hot

\* select_demanded_snapshot leaves a brand out as unchanged only if the last
\* active run that selected it, whatever it decided of it, was made from the
\* dossier, for the release and for the operator requests of now: requests and
\* changes of release may come between all the transactions from one selection
\* to the note about its run.  Only a selection or a note that was lost can
\* mislead the decision, and not beyond the next selection.  Of the text that is
\* shown nothing is said: a brand that was held shows that of an older dossier.
SuppressedWasConcluded == [][\A w \in Workers :
  Considers(w) /\ job'[w].sel = NoSel /\ ~lost => concluded = Choice]_vars

\* And what was concluded last is not generated and paid for again, unless it
\* was lost or the release changed since.
ConcludedIsSuppressed == [][\A w \in Workers :
  Considers(w) /\ job'[w].sel # NoSel /\ ~lost /\ ~renewed
    => concluded # Choice]_vars

\* "An explicit operator refresh bypasses the material-change test once": once
\* the request is noted as enqueued, a run that answers it is being built, is
\* under way or was published, or the brand will be selected for its dossier.
RefreshUnderWay == row.op > 0 /\ row.enqueued = row.op =>
  \/ \E w \in Workers : job[w].pc = "built" /\ job[w].sel.op = row.op
  \/ \E n \in Cutoffs : run[n].sel.op = row.op /\ run[n].status # "suspended"
  \/ row.print # material

\* A "version identity that makes old work non-publishable": what satisfies a
\* request for a release is a run created under the configuration of it.
SatisfiedByItsRelease == row.state = "satisfied" =>
  \E n \in Cutoffs :
    /\ run[n].status = "active"
    /\ run[n].version = row.target
    /\ run[n].sel = [print |-> row.print, target |-> row.target, op |-> row.op]

=============================================================================
