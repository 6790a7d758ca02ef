--------------------------- MODULE HeadlineWindow ---------------------------
(***************************************************************************)
(* One headline window: the work slot that admits one source cycle at a    *)
(* time, the runs built for it, their brand outcomes, and the pointer to   *)
(* the run the public sees.                                                *)
(*                                                                         *)
(* A source cycle is identified with its facts_as_of cutoff, counted in    *)
(* harvest cycles, and a run with its source (uq_tnr_source_window).  How  *)
(* a run reaches its outcomes is RunGraph; here outcomes appear one brand  *)
(* at a time in any order, and a run may be suspended before it closes.    *)
(* Envelopes, snapshot and finalize messages are delivered late, twice or  *)
(* not at all, and every task consists of transactions that interleave     *)
(* with those of the others and between which its worker may die.          *)
(***************************************************************************)
EXTENDS Integers, FiniteSets, FiniteSetsExt

CONSTANTS Workers,    \* processes that execute headline tasks
          Brand,      \* tracked brands
          Cycles,     \* harvest cycles explored (a bound)
          Cadence,    \* cadence_minutes of the window, in cycles
          Expiry,     \* task_expiry_seconds of an envelope, in cycles
          Shaping,    \* demand_shaping_enabled, as deployed
          MaxFaults   \* deaths, losses and late tasks explored (a bound)

ASSUME WindowAssumption ==
  /\ Cycles \in Nat /\ Cadence \in Nat \ {0} /\ Expiry \in Nat
  /\ Shaping \in BOOLEAN /\ MaxFaults \in Nat

Source == 1..Cycles
None   == 0                  \* no source, no run

VARIABLES cycle,      \* the last completed harvest cycle
          slot,       \* TrendNarrativeWorkSlot
          run,        \* the run of each source, status "none" if there is none
          row,        \* the brand outcomes of each run
          visible,    \* TrendNarrativeVisibleRun
          snapshots,  \* snapshot messages the broker holds
          finals,     \* finalize messages the broker holds
          job,        \* what each worker is doing
          wanted,     \* eligible_demand_exists for this window
          faults      \* deaths, losses and late tasks so far

vars == <<cycle, slot, run, row, visible, snapshots, finals, job, wanted,
          faults>>

-----------------------------------------------------------------------------
(* Types *)

Closed     == {"active", "superseded", "suspended"}
InFlight   == {"preparing", "terminal"}
NoRun      == [status |-> "none", manifest |-> {}, plain |-> {}]
NoRow      == [status |-> "none", good |-> None]
NoClaim    == [fence |-> 0, live |-> FALSE]
EmptySlot  == [active |-> None, run |-> None, queued |-> None,
               fence |-> 0, live |-> FALSE]
Idle       == [pc |-> "idle", source |-> None]
Message    == [source : Source, fence : Nat]

TypeOK ==
  /\ cycle \in 0..Cycles
  /\ slot \in [active : Source \cup {None}, run : Source \cup {None},
               queued : Source \cup {None}, fence : Nat, live : BOOLEAN]
  /\ run \in [Source -> [status : Closed \cup InFlight \cup {"none"},
                         manifest : SUBSET Brand, plain : SUBSET Brand]]
  /\ row \in [Source -> [Brand ->
       [status : {"none", "approved", "held", "unavailable", "no_content"},
        good : Source \cup {None}]]]
  /\ visible \in Source \cup {None}
  /\ snapshots \in SUBSET Message
  /\ finals \in SUBSET Source
  /\ job \in [Workers ->
       [pc : {"idle", "claimed", "attach", "build", "plain", "walk",
              "refused", "release"},
        source : Source \cup {None}]]
  /\ wanted \in BOOLEAN
  /\ faults \in 0..MaxFaults

Exists(s) == run[s].status # "none"
Go(w, pc, s) == job' = [job EXCEPT ![w] = [pc |-> pc, source |-> s]]
Rest(w) == job' = [job EXCEPT ![w] = Idle]

-----------------------------------------------------------------------------
(* The work slot *)

\* Mutant: the fence becomes something that counts no claims.
PromotedBelowZero(sl) == [EmptySlot EXCEPT !.active = sl.queued, !.fence = -1]

\* _promote_or_clear_slot: the queued cutoff becomes the active one.
Promoted(sl) == [EmptySlot EXCEPT !.active = sl.queued]

\* _claim_snapshot_slot, and the message that hands the claim to a worker.
MayClaim(sl) == sl.active # None /\ ~sl.live
Claimed(sl)  == [sl EXCEPT !.fence = @ + 1, !.live = TRUE]

SaveClaiming(sl, claiming) ==
  IF claiming /\ MayClaim(sl)
  THEN /\ slot' = Claimed(sl)
       /\ snapshots' = snapshots \cup
                         {[source |-> sl.active, fence |-> sl.fence + 1]}
  ELSE /\ slot' = sl
       /\ UNCHANGED snapshots

\* Mutant: the runs that exist already are not looked at.
SuppressedBySlot(sl, s) ==
  /\ s \notin {sl.active, sl.queued}
  /\ \E t \in {sl.active, sl.queued} \ {None} : s < t + Cadence

\* A new cutoff is too close to one that is active, queued or already run.
Suppressed(sl, s) ==
  LET cutoffs == ({sl.active, sl.queued} \ {None})
                   \cup {t \in Source : Exists(t)}
  IN  /\ s \notin {sl.active, sl.queued}
      /\ \E t \in cutoffs : s < t + Cadence

\* Admit the cutoff as the active one, or as the one newer queued cutoff.
Admitted(sl, s) ==
  CASE Suppressed(sl, s) -> sl
    [] ~Suppressed(sl, s) /\ sl.active = None -> [sl EXCEPT !.active = s]
    [] ~Suppressed(sl, s) /\ sl.active # None /\ s > sl.active
         /\ s > sl.queued -> [sl EXCEPT !.queued = s]
    [] OTHER -> sl

\* _owns_snapshot_slot
OwnsSlot(m) == /\ slot.active = m.source
               /\ slot.fence = m.fence
               /\ slot.live

\* The assignments of _attach_run_to_work_slot and of the run's creation.
Attached(s) == [slot EXCEPT !.active = s, !.run = s, !.fence = 0,
                            !.live = FALSE]

-----------------------------------------------------------------------------
Init == /\ cycle = 0
        /\ slot = EmptySlot
        /\ run = [s \in Source |-> NoRun]
        /\ row = [s \in Source |-> [k \in Brand |-> NoRow]]
        /\ visible = None
        /\ snapshots = {}
        /\ finals = {}
        /\ job = [w \in Workers |-> Idle]
        /\ wanted = TRUE
        /\ faults = 0

Harvest == /\ cycle < Cycles
           /\ cycle' = cycle + 1
           /\ UNCHANGED <<slot, run, row, visible, snapshots, finals, job,
                          wanted, faults>>

\* Readers come to the window, or none is left: demand rows grow old.
DemandChanges ==
  /\ Shaping
  /\ wanted' = ~wanted
  /\ UNCHANGED <<cycle, slot, run, row, visible, snapshots, finals, job, faults>>

\* Mutant: only the run that is public now frees its slot.
FreedByActive(sl) ==
  IF sl.run # None /\ run[sl.run].status = "active" THEN Promoted(sl) ELSE sl

\* A slot whose run is closed is freed, should its task not have done so.
Freed(sl) ==
  IF sl.run # None /\ run[sl.run].status \in Closed THEN Promoted(sl) ELSE sl

\* An envelope is consumed, perhaps again: _coalesce_window_envelope in one
\* transaction, then _reconcile_run of the slot's run.  Under demand shaping
\* a window nobody asks for is passed over.
Envelope(w, s) ==
  /\ job[w] = Idle
  /\ s <= cycle /\ cycle <= s + Expiry
  /\ Shaping => wanted
  /\ LET sl == Admitted(Freed(slot), s) IN
      /\ SaveClaiming(sl, sl.run = None)
      /\ IF sl.run # None /\ run[sl.run].status \in InFlight
         THEN Go(w, "walk", sl.run) ELSE UNCHANGED job
  /\ UNCHANGED <<cycle, run, row, visible, finals, wanted, faults>>

\* What _reconcile_run does for the slot: it re-sends the finalize message of
\* a closed run.  What its walk does to a run in preparation is below.
Reconcile(w) ==
  LET s == job[w].source IN
  /\ job[w].pc = "walk"
  /\ finals' = IF run[s].status = "terminal" THEN finals \cup {s} ELSE finals
  /\ Rest(w)
  /\ UNCHANGED <<cycle, slot, run, row, visible, snapshots, wanted, faults>>

\* The snapshot task checks its claim, in a transaction of its own.
TakeSnapshot(w) == \E m \in snapshots :
  /\ job[w] = Idle
  /\ IF OwnsSlot(m) THEN Go(w, "claimed", m.source) /\ UNCHANGED snapshots
                    ELSE snapshots' = snapshots \ {m} /\ UNCHANGED job
  /\ UNCHANGED <<cycle, slot, run, row, visible, finals, wanted, faults>>

\* It looks whether the run exists: a predecessor may have died after it.
LookUp(w) ==
  /\ job[w].pc = "claimed"
  /\ Go(w, IF Exists(job[w].source) THEN "attach" ELSE "build", job[w].source)
  /\ UNCHANGED <<cycle, slot, run, row, visible, snapshots, finals, wanted,
                 faults>>

\* The task is over for the broker: another delivery would not own the slot.
Acked(s) == {m \in snapshots : m.source # s}

\* _attach_run_to_work_slot: a slot that went idle meanwhile is adopted.
Attach(w) ==
  LET s == job[w].source IN
  /\ job[w].pc = "attach"
  /\ slot' = IF slot.active \in {None, s} THEN Attached(s) ELSE slot
  /\ snapshots' = Acked(s)
  /\ Go(w, "walk", s)
  /\ UNCHANGED <<cycle, run, row, visible, finals, wanted, faults>>

\* After building the packet, the run is created or found and attached in
\* one transaction.  The run stays when the slot has moved on.  With demand
\* shaping the manifest holds the brands whose facts changed, otherwise all.
CreateRun(w) == \E manifest \in (IF Shaping THEN SUBSET Brand ELSE {Brand}) :
  LET s == job[w].source IN
  /\ job[w].pc = "build"
  /\ \E plain \in SUBSET manifest :
       run' = IF Exists(s) THEN run
              ELSE [run EXCEPT ![s] = [status |-> "preparing",
                                       manifest |-> manifest,
                                       plain |-> plain]]
  /\ slot' = IF slot.active = s THEN Attached(s) ELSE slot
  /\ snapshots' = Acked(s)
  /\ IF slot.active = s /\ ~Exists(s) THEN Go(w, "plain", s) ELSE Rest(w)
  /\ UNCHANGED <<cycle, row, visible, finals, wanted, faults>>

\* The brands of a run that its creator has to write an outcome for.
Unwritten(s) == {k \in run[s].plain : row[s][k] = NoRow}

\* Then only the worker that created the run writes the outcomes of the brands
\* without enough material, each in a transaction, and goes on to walk the run.
WritePlain(w) ==
  LET s == job[w].source IN
  /\ job[w].pc = "plain"
  /\ IF Unwritten(s) = {}
     THEN Go(w, "walk", s) /\ UNCHANGED row
     ELSE /\ \E k \in Unwritten(s) :
               row' = [row EXCEPT ![s][k] = [status |-> "no_content",
                                             good |-> None]]
          /\ UNCHANGED job
  /\ UNCHANGED <<cycle, slot, run, visible, snapshots, finals, wanted, faults>>

-----------------------------------------------------------------------------
(* Runs *)

\* prepare_brand_trend_narrative: a held brand keeps pointing at the row the
\* visible run serves for it, and is unavailable if that run serves none.
Serves(v, k) == IF v = None THEN None
                ELSE CASE row[v][k].status = "approved" -> v
                       [] row[v][k].status = "held" -> row[v][k].good
                       [] OTHER -> None

\* Mutant: a held row of the visible run serves nothing.
HeldAfterApproved(k) ==
  IF visible # None /\ row[visible][k].status = "approved"
  THEN [status |-> "held", good |-> visible]
  ELSE [status |-> "unavailable", good |-> None]

\* Mutant: the newest approved row of any run is carried.
HeldNewest(k) ==
  LET good == {s \in Source : row[s][k].status = "approved"} IN
  IF good = {} THEN [status |-> "unavailable", good |-> None]
  ELSE [status |-> "held", good |-> Max(good)]

Held(k) == IF Serves(visible, k) = None
           THEN [status |-> "unavailable", good |-> None]
           ELSE [status |-> "held", good |-> Serves(visible, k)]

\* A walk resolves an eligible brand.  (Rows that a stale walk still writes to
\* a suspended run change nothing that follows.)
Decide(s, k) ==
  /\ run[s].status \in InFlight
  /\ k \in run[s].manifest \ run[s].plain /\ row[s][k] = NoRow
  /\ \E outcome \in {[status |-> "approved", good |-> None], Held(k)} :
       row' = [row EXCEPT ![s][k] = outcome]
  /\ UNCHANGED <<cycle, slot, run, visible, snapshots, finals, job, wanted,
                 faults>>

Complete(s) == \A k \in run[s].manifest : row[s][k] # NoRow

\* The last walk of _reconcile_run closes a run that is complete.  A run
\* without any eligible brand is closed by its first walk, complete or not.
Close(s) ==
  /\ run[s].status = "preparing"
  /\ Complete(s) \/ run[s].plain = run[s].manifest
  /\ run' = [run EXCEPT ![s].status = "terminal"]
  /\ finals' = finals \cup {s}
  /\ UNCHANGED <<cycle, slot, row, visible, snapshots, job, wanted, faults>>

\* _suspend_run, first transaction; the worker goes on to release the slot.
Suspend(w, s) ==
  /\ job[w] = Idle
  /\ run[s].status = "preparing"
  /\ run' = [run EXCEPT ![s].status = "suspended"]
  /\ Go(w, "release", s)
  /\ UNCHANGED <<cycle, slot, row, visible, snapshots, finals, wanted, faults>>

\* Mutant: an older cutoff is activated too.
MayActivateOlder(s) == Complete(s)

\* activate_trend_narrative_run, under the advisory lock of the window.  The
\* message stays until the task ends.
MayActivate(s) == Complete(s) /\ s > visible

Activate(w, s) ==
  /\ job[w] = Idle /\ s \in finals
  /\ IF MayActivate(s)
     THEN /\ run' = [t \in Source |->
                       IF t = s THEN [run[s] EXCEPT !.status = "active"]
                       ELSE IF t = visible /\ run[t].status = "active"
                            THEN [run[t] EXCEPT !.status = "superseded"]
                            ELSE run[t]]
          /\ visible' = s
          /\ Go(w, "release", s)
          /\ UNCHANGED finals
     ELSE /\ IF visible >= s
             THEN Go(w, "refused", s) /\ UNCHANGED finals
             ELSE finals' = finals \ {s} /\ UNCHANGED job
          /\ UNCHANGED <<run, visible>>
  /\ UNCHANGED <<cycle, slot, row, snapshots, wanted, faults>>

\* A newer run is visible already: the older one is superseded.
Supersede(w) ==
  LET s == job[w].source IN
  /\ job[w].pc = "refused"
  /\ run' = IF run[s].status \in InFlight
            THEN [run EXCEPT ![s].status = "superseded"] ELSE run
  /\ Go(w, "release", s)
  /\ UNCHANGED <<cycle, slot, row, visible, snapshots, finals, wanted, faults>>

\* Mutant: the slot is released whoever holds it.
MayReleaseAnyway(s) == slot.active # None

\* _complete_work_slot, in a transaction of its own.
MayRelease(s) == slot.run \in {None, s} /\ slot.active = s

Release(w) ==
  LET s == job[w].source IN
  /\ job[w].pc = "release"
  /\ IF MayRelease(s)
     THEN SaveClaiming(Promoted(slot), TRUE)
     ELSE UNCHANGED <<slot, snapshots>>
  /\ finals' = finals \ {s}
  /\ Rest(w)
  /\ UNCHANGED <<cycle, run, row, visible, wanted, faults>>

-----------------------------------------------------------------------------
(* The environment *)

Fault == faults < MaxFaults /\ faults' = faults + 1

\* A worker dies between two transactions; its message is delivered again.
Crash(w) == /\ job[w] # Idle
            /\ Fault
            /\ Rest(w)
            /\ UNCHANGED <<cycle, slot, run, row, visible, snapshots, finals,
                           wanted>>

\* A message is not handed to the broker, or the broker forgets it.
Lose == /\ \/ /\ \E m \in snapshots : snapshots' = snapshots \ {m}
              /\ UNCHANGED finals
           \/ /\ \E s \in finals : finals' = finals \ {s}
              /\ UNCHANGED snapshots
        /\ Fault
        /\ UNCHANGED <<cycle, slot, run, row, visible, job, wanted>>

\* The snapshot claim expires.  It is bad luck, counted with the faults, if a
\* message or a worker was still about to use it.
Served == \/ \E m \in snapshots : m.source = slot.active /\ m.fence = slot.fence
          \/ \E w \in Workers : /\ job[w].pc \in {"claimed", "attach", "build"}
                                /\ job[w].source = slot.active

ClaimExpires == /\ slot.live
                /\ slot' = [slot EXCEPT !.live = FALSE]
                /\ IF Served THEN Fault ELSE UNCHANGED faults
                /\ UNCHANGED <<cycle, run, row, visible, snapshots, finals, job,
                               wanted>>

TaskStep(w) == \/ LookUp(w) \/ Attach(w) \/ CreateRun(w) \/ WritePlain(w)
               \/ Reconcile(w) \/ Supersede(w) \/ Release(w)

Next == \/ Harvest \/ DemandChanges \/ Lose \/ ClaimExpires
        \/ \E w \in Workers :
             \/ TaskStep(w) \/ TakeSnapshot(w) \/ Crash(w)
             \/ \E s \in Source : Envelope(w, s) \/ Suspend(w, s) \/ Activate(w, s)
        \/ \E s \in Source : Close(s) \/ \E k \in Brand : Decide(s, k)

Spec == Init /\ [][Next]_vars

\* Harvests go on and not every newest envelope is lost, messages the broker
\* holds are delivered, tasks advance, and walks decide the eligible brands and
\* close the run (RunGraph!RunCloses).  Nothing but its creator writes the other
\* outcomes of a run, and nothing makes readers come.
Fairness ==
  /\ WF_vars(Harvest) /\ WF_vars(ClaimExpires)
  /\ \A w \in Workers : WF_vars(TaskStep(w))
  /\ SF_vars(\E w \in Workers : TakeSnapshot(w))
  /\ \A s \in Source :
       /\ SF_vars(\E w \in Workers : Activate(w, s))
       /\ SF_vars(s = cycle /\ \E w \in Workers : Envelope(w, s))
       /\ WF_vars(Close(s))
       /\ \A k \in Brand : WF_vars(Decide(s, k))

FairSpec == Spec /\ Fairness

-----------------------------------------------------------------------------
(* Properties *)

\* A run that is being worked on is the run of the slot: no run is left
\* behind by a slot that moved on, where no envelope would reconcile it, and
\* no two runs of the window are in flight at once.
InFlightIsAttached == \A s \in Source :
  run[s].status \in InFlight => slot.active = s /\ slot.run = s

\* "An older cutoff cannot replace a newer visible cutoff", whatever the
\* order in which finalize messages arrive.
VisibleAdvances == [][visible' >= visible]_visible

\* Only a run with an outcome for every brand of its manifest is public.
VisibleIsComplete == visible # None =>
  \A k \in run[visible].manifest : row[visible][k].status # "none"

\* The runs of a window are at least a cadence apart: an intervening harvest
\* is ignored also after the slot was promoted, cleared or claimed again.
RunsAreSpaced == \A s, t \in Source :
  Exists(s) /\ Exists(t) /\ s < t => t >= s + Cadence

\* The queued cutoff is a newer one, and only behind an active one.
QueueIsNewer == slot.queued # None =>
                  slot.active # None /\ slot.queued > slot.active

\* When the visible run changes, a held brand goes on serving exactly the
\* approved row it served before, also if it was decided long before: "a held
\* result carries the same last approved row through consecutive held runs".
HeldCarriesLastGood == [][visible' # visible => \A k \in Brand :
  row'[visible'][k].status = "held" =>
    row'[visible'][k].good = Serves(visible, k)]_vars

\* A brand keeps a story when the visible run changes, unless its own facts
\* no longer support one: what the documentation says of every run.
StoryKept == [][visible' # visible => \A k \in Brand :
  Serves(visible, k) # None /\ k \notin run'[visible'].plain =>
    row'[visible'][k].status \in {"approved", "held"}]_vars

\* What the code keeps of it, over any number of held, suspended and replaced
\* runs: a brand that the new run has in its manifest goes on with a story, and
\* only demand shaping makes a manifest that leaves a brand out.
StoryLostOnlyByShaping == [][visible' # visible => \A k \in Brand :
  Serves(visible, k) # None /\ k \notin run'[visible'].plain =>
    \/ row'[visible'][k].status \in {"approved", "held"}
    \/ Shaping /\ k \notin run'[visible'].manifest]_vars

\* The creator of the run died before it wrote every outcome that only it
\* writes: the run stays in flight for good.
Stranded(s) ==
  /\ run[s].status \in InFlight
  /\ Unwritten(s) # {}
  /\ \A w \in Workers : job[w] # [pc |-> "plain", source |-> s]

\* The slot is never stuck with a cutoff although tasks, messages and claims
\* are lost: its run closes, in whatever way, and the slot goes on to the
\* queued one or becomes idle, unless the run was stranded or the window lost
\* its readers.
SlotMovesOn == \A s \in Source :
  slot.active = s ~> slot.active # s \/ Stranded(s) \/ (Shaping /\ ~wanted)

=============================================================================
