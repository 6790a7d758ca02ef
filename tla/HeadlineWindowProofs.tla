------------------------ MODULE HeadlineWindowProofs ------------------------
(***************************************************************************)
(* Proofs about HeadlineWindow, for every set of workers and brands, any   *)
(* cadence, expiry and number of cycles and faults: one run in flight and  *)
(* attached to the slot, runs a cadence apart, a visible run that only     *)
(* advances and is complete, held brands that keep their last good row.    *)
(***************************************************************************)
EXTENDS HeadlineWindow, TLAPS

Slots == [active : Source \cup {None}, run : Source \cup {None},
          queued : Source \cup {None}, fence : Nat, live : BOOLEAN]

-----------------------------------------------------------------------------
(* The inductive invariant, in parts *)

\* What the runs and the builders expect of a slot `sl`: its run is the run of
\* its active cutoff, any run in flight is that run, a builder's slot moves on
\* only when the run exists, and its cutoffs that have no run yet are a cadence
\* after every run, the queued one a cadence after the active one.  (A slot
\* that adopted a finished run may be older than other runs.)
Fits(sl) ==
  /\ sl.run \in {None, sl.active}
  /\ sl.queued # None =>
       sl.active # None /\ sl.queued >= sl.active + Cadence
  /\ \A s \in Source :
       run[s].status \in InFlight => sl.active = s /\ sl.run = s
  /\ \A w \in Workers :
       job[w].pc \in {"claimed", "build"} =>
         Exists(job[w].source) \/ sl.active = job[w].source
  /\ \A s \in Source : Exists(s) =>
       /\ sl.active # None /\ ~Exists(sl.active) => sl.active >= s + Cadence
       /\ sl.queued \notin {None, s} => sl.queued >= s + Cadence

\* What a task knows between two transactions: a run to attach or to complete
\* exists, a superseding task gave way to a newer visible run, and a release
\* follows the end of the run.
TasksKnow == \A w \in Workers :
  LET s == job[w].source IN
  /\ job[w].pc # "idle" => s \in Source
  /\ job[w].pc \in {"attach", "plain"} => Exists(s)
  /\ job[w].pc = "refused" => /\ run[s].status \in Closed \cup {"terminal"}
                              /\ s <= visible
  /\ job[w].pc = "release" => run[s].status \in Closed

\* A finalize message is about a run that closed by itself.
FinalsAreOver == \A s \in finals :
  run[s].status \in {"terminal", "active", "superseded"}

\* The visible run is the one active run, the superseded ones are older.
VisibleIsActive == \A s \in Source :
  /\ run[s].status = "active" <=> visible = s
  /\ run[s].status = "superseded" => s <= visible

\* A run that does not exist has no outcomes, and an outcome has a status.
RowsBelong == \A s \in Source, k \in Brand :
  /\ ~Exists(s) => row[s][k] = NoRow
  /\ row[s][k].status = "none" => row[s][k] = NoRow

\* The outcomes of a run in flight fit what the visible run serves now: the
\* visible run cannot change before this run is closed.
OutcomesFit == \A s \in Source, k \in Brand :
  run[s].status \in InFlight =>
    /\ row[s][k].status = "held" =>
         row[s][k].good = Serves(visible, k)
    /\ row[s][k].status = "unavailable" => Serves(visible, k) = None
    /\ row[s][k].status = "no_content" => k \in run[s].plain

\* Without demand shaping a run is about every brand.
ManifestIsWhole == ~Shaping =>
  \A s \in Source : Exists(s) => run[s].manifest = Brand

WindowInvariant == /\ TypeOK
                   /\ Fits(slot)
                   /\ TasksKnow
                   /\ FinalsAreOver
                   /\ VisibleIsActive
                   /\ RunsAreSpaced
                   /\ RowsBelong
                   /\ OutcomesFit
                   /\ VisibleIsComplete
                   /\ ManifestIsWhole

-----------------------------------------------------------------------------
(* The initial state *)

\* The invariant holds before the first harvest.
LEMMA WindowInvariantInit == Init => WindowInvariant
<1> SUFFICES ASSUME Init PROVE WindowInvariant
  OBVIOUS
<1> USE WindowAssumption DEF Init
<1>1. TypeOK
  BY DEF TypeOK, EmptySlot, NoRun, NoRow, Idle, None, Source, Closed, InFlight,
         Message
<1>2. Fits(slot)
  BY DEF Fits, EmptySlot, NoRun, Exists, Idle, InFlight, None
<1>3. TasksKnow /\ FinalsAreOver
  BY DEF TasksKnow, FinalsAreOver, Idle
<1>4. VisibleIsActive
  BY DEF VisibleIsActive, NoRun, None, Source
<1>5. RunsAreSpaced /\ RowsBelong /\ ManifestIsWhole
  BY DEF RunsAreSpaced, RowsBelong, ManifestIsWhole, Exists, NoRun
<1>6. OutcomesFit /\ VisibleIsComplete
  BY DEF OutcomesFit, VisibleIsComplete, InFlight, NoRun
<1> QED
  BY <1>1, <1>2, <1>3, <1>4, <1>5, <1>6 DEF WindowInvariant

-----------------------------------------------------------------------------
(* Operators on the slot *)

\* A claim of a slot leaves a slot.
LEMMA ClaimedSlot ==
  ASSUME NEW sl \in Slots
  PROVE  Claimed(sl) \in Slots
<1> DEFINE n == sl.fence + 1
           new == [sl EXCEPT !.fence = n, !.live = TRUE]
<1>1. n \in Nat
  BY DEF Slots
<1>2. Claimed(sl) = new
  BY DEF Claimed
<1> HIDE DEF n
<1>3. new \in Slots
  BY <1>1 DEF Slots
<1> QED
  BY <1>2, <1>3

\* Operations on a slot leave a slot.
LEMMA SlotTypes ==
  ASSUME TypeOK, NEW sl \in Slots, NEW s \in Source
  PROVE  /\ Promoted(sl) \in Slots
         /\ Claimed(sl) \in Slots
         /\ Freed(sl) \in Slots
         /\ Admitted(sl, s) \in Slots
         /\ [sl EXCEPT !.run = s, !.fence = 0, !.live = FALSE] \in Slots
         /\ [sl EXCEPT !.live = FALSE] \in Slots
<1>1. Promoted(sl) \in Slots
  BY DEF Promoted, EmptySlot, Slots
<1>2. Claimed(sl) \in Slots
  BY ClaimedSlot
<1>3. Freed(sl) \in Slots
  BY <1>1 DEF Freed
<1>4. Admitted(sl, s) \in Slots
  BY DEF Admitted, Slots
<1>5. /\ [sl EXCEPT !.run = s, !.fence = 0, !.live = FALSE] \in Slots
      /\ [sl EXCEPT !.live = FALSE] \in Slots
  BY DEF Slots
<1> QED
  BY <1>1, <1>2, <1>3, <1>4, <1>5

\* A slot whose active cutoff has had its run is promoted.
LEMMA PromotedFits ==
  ASSUME NEW sl \in Slots, Fits(sl), sl.active \in Source,
         Exists(sl.active), run[sl.active].status \notin InFlight
  PROVE  Fits(Promoted(sl))
<1>1. /\ Promoted(sl).active = sl.queued
      /\ Promoted(sl).run = None
      /\ Promoted(sl).queued = None
  BY DEF Promoted, EmptySlot
<1> QED
  BY <1>1 DEF Fits

\* So is a slot whose run is closed.
LEMMA FreedFits ==
  ASSUME WindowInvariant, NEW sl \in Slots, Fits(sl)
  PROVE  Fits(Freed(sl))
<1>1. CASE sl.run # None /\ run[sl.run].status \in Closed
  <2>1. sl.active \in Source /\ sl.active = sl.run
    BY <1>1 DEF Fits, Slots
  <2>2. Exists(sl.active) /\ run[sl.active].status \notin InFlight
    BY <1>1, <2>1 DEF Exists, Closed, InFlight
  <2> QED
    BY <1>1, <2>1, <2>2, PromotedFits DEF Freed
<1>2. CASE ~(sl.run # None /\ run[sl.run].status \in Closed)
  BY <1>2 DEF Freed
<1> QED
  BY <1>1, <1>2

\* A cutoff is admitted only a cadence after the runs and the cutoffs before it.
LEMMA AdmittedFits ==
  ASSUME TasksKnow, NEW sl \in Slots, Fits(sl), NEW s \in Source
  PROVE  Fits(Admitted(sl, s))
<1> USE WindowAssumption
<1>1. CASE Admitted(sl, s) = sl
  BY <1>1
<1>2. CASE ~Suppressed(sl, s) /\ sl.active = None /\ Admitted(sl, s) = [sl EXCEPT !.active = s]
  <2>1. sl.queued = None /\ sl.run = None
    BY <1>2 DEF Fits
  <2>2. \A t \in Source : Exists(t) => s >= t + Cadence
    BY <1>2, <2>1 DEF Suppressed, Source, None
  <2> DEFINE new == Admitted(sl, s)
  <2>3. new.active = s /\ new.run = None /\ new.queued = None
    BY <1>2, <2>1 DEF Slots
  <2>4. \A t \in Source : run[t].status \notin InFlight
    BY <1>2 DEF Fits, Source, None
  <2>5. \A w \in Workers : job[w].pc \in {"claimed", "build"} =>
          Exists(job[w].source)
    BY <1>2 DEF Fits, TasksKnow, Source, None
  <2> QED
    BY <2>2, <2>3, <2>4, <2>5 DEF Fits
<1>3. CASE /\ ~Suppressed(sl, s) /\ sl.active # None /\ s > sl.active /\ s > sl.queued
           /\ Admitted(sl, s) = [sl EXCEPT !.queued = s]
  <2>0. sl.active \in Source /\ sl.queued \in Source \cup {None}
    BY <1>3 DEF Slots
  <2>1. s \notin {sl.active, sl.queued}
    BY <1>3, <2>0 DEF Source, None
  <2>2. s >= sl.active + Cadence
    BY <1>3, <2>0, <2>1 DEF Suppressed, Source, None
  <2>3. \A t \in Source : Exists(t) => s >= t + Cadence
    BY <1>3, <2>1 DEF Suppressed, Source, None
  <2> QED
    BY <1>3, <2>0, <2>2, <2>3 DEF Fits, Slots, None, Source
<1> QED
  BY <1>1, <1>2, <1>3 DEF Admitted

\* Claims change neither the cutoffs nor the run of a slot.
LEMMA ClaimFits ==
  ASSUME NEW sl \in Slots, Fits(sl)
  PROVE  /\ Fits(Claimed(sl))
         /\ Fits([sl EXCEPT !.live = FALSE])
<1> DEFINE a == Claimed(sl)
           b == [sl EXCEPT !.live = FALSE]
<1>1. a.active = sl.active /\ a.run = sl.run /\ a.queued = sl.queued
  BY DEF Claimed, Slots
<1>2. b.active = sl.active /\ b.run = sl.run /\ b.queued = sl.queued
  BY DEF Slots
<1> HIDE DEF a, b
<1>3. Fits(a) /\ Fits(b)
  BY <1>1, <1>2 DEF Fits
<1> QED
  BY <1>3 DEF a, b

\* What a transaction saves of a fitting slot is a fitting slot.
LEMMA SaveClaimingFits ==
  ASSUME TypeOK, NEW sl \in Slots, Fits(sl), NEW claiming \in BOOLEAN,
         SaveClaiming(sl, claiming)
  PROVE  /\ slot' \in Slots
         /\ \E new \in Slots : slot' = new /\ Fits(new)
         /\ snapshots' \in SUBSET Message
<1>1. slot' \in {sl, Claimed(sl)}
  BY DEF SaveClaiming
<1>2. sl \in Slots /\ Claimed(sl) \in Slots
  BY ClaimedSlot
<1>3. Fits(sl) /\ Fits(Claimed(sl))
  BY ClaimFits
<1>4. snapshots' \in SUBSET Message
  <2>1. CASE claiming /\ MayClaim(sl)
    <3>1. [source |-> sl.active, fence |-> sl.fence + 1] \in Message
      BY <2>1 DEF MayClaim, Message, Slots
    <3> QED
      BY <2>1, <3>1 DEF SaveClaiming, TypeOK
  <2>2. CASE ~(claiming /\ MayClaim(sl))
    BY <2>2 DEF SaveClaiming, TypeOK
  <2> QED
    BY <2>1, <2>2
<1> QED
  BY <1>1, <1>2, <1>3, <1>4

-----------------------------------------------------------------------------
(* The steps that change neither runs nor outcomes *)

Jobs == [pc : {"idle", "claimed", "attach", "build", "plain", "walk",
               "refused", "release"},
         source : Source \cup {None}]

\* A task that goes on, or rests, changes no other task.
LEMMA Going ==
  ASSUME TypeOK, NEW w \in Workers, NEW j \in Jobs,
         job' = [job EXCEPT ![w] = j]
  PROVE  /\ job' \in [Workers -> Jobs]
         /\ \A v \in Workers : job'[v] = IF v = w THEN j ELSE job[v]
BY DEF TypeOK, Jobs

\* The invariant only depends on the slot through Fits, on a finalize message
\* through the run it is about.
LEMMA NoRunStep ==
  ASSUME WindowInvariant, TypeOK', UNCHANGED <<run, row, visible>>,
         Fits(slot)', TasksKnow',
         \A s \in finals' : s \in finals \/ run[s].status = "terminal"
  PROVE  WindowInvariant'
<1> USE DEF WindowInvariant
<1>1. FinalsAreOver'
  BY DEF FinalsAreOver
<1>2. VisibleIsActive' /\ RunsAreSpaced' /\ RowsBelong'
  BY DEF VisibleIsActive, RunsAreSpaced, RowsBelong, Exists
<1>3. OutcomesFit' /\ VisibleIsComplete' /\ ManifestIsWhole'
  BY DEF OutcomesFit, VisibleIsComplete, ManifestIsWhole, Serves, Exists
<1> QED
  BY <1>1, <1>2, <1>3

\* Nothing but the clock of the harvests, the readers and lost messages.
LEMMA HarvestStep ==
  ASSUME WindowInvariant, Harvest \/ DemandChanges \/ Lose
  PROVE  WindowInvariant'
<1> USE WindowAssumption DEF WindowInvariant
<1>1. TypeOK'
  <2>1. CASE Harvest \/ Lose
    BY <2>1 DEF TypeOK, Harvest, Lose, Fault
  <2>2. CASE DemandChanges
    <3>1. wanted' \in BOOLEAN
      BY <2>2 DEF DemandChanges
    <3> QED
      BY <2>2, <3>1 DEF TypeOK, DemandChanges
  <2> QED
    BY <2>1, <2>2
<1>2. UNCHANGED <<slot, run, row, visible, job>> /\ finals' \subseteq finals
  BY DEF Harvest, DemandChanges, Lose
<1>3. Fits(slot)' /\ TasksKnow'
  BY <1>2 DEF Fits, TasksKnow, Exists
<1> QED
  BY <1>1, <1>2, <1>3, NoRunStep

\* A claim expires.
LEMMA ClaimExpiresStep ==
  ASSUME WindowInvariant, ClaimExpires
  PROVE  WindowInvariant'
<1> USE WindowAssumption DEF WindowInvariant
<1>1. slot \in Slots
  BY DEF TypeOK, Slots
<1>2. slot' \in Slots
  BY <1>1 DEF ClaimExpires, Slots
<1>3. TypeOK'
  BY <1>2 DEF TypeOK, ClaimExpires, Fault, Slots
<1>4. Fits([slot EXCEPT !.live = FALSE])
  BY <1>1, ClaimFits
<1>5. Fits(slot)' /\ TasksKnow'
  BY <1>4 DEF ClaimExpires, Fits, TasksKnow, Exists
<1> QED
  BY <1>3, <1>5, NoRunStep DEF ClaimExpires

\* An envelope frees a slot whose run is over, admits its cutoff and claims.
LEMMA EnvelopeStep ==
  ASSUME WindowInvariant, NEW w \in Workers, NEW s \in Source, Envelope(w, s)
  PROVE  WindowInvariant'
<1> USE DEF WindowInvariant
<1> DEFINE sl == Admitted(Freed(slot), s)
<1>1. slot \in Slots /\ Freed(slot) \in Slots
  BY SlotTypes DEF TypeOK, Slots
<1>2. sl \in Slots
  BY <1>1, SlotTypes
<1>3. Fits(sl)
  BY <1>1, FreedFits, AdmittedFits
<1>4. SaveClaiming(sl, sl.run = None)
  BY DEF Envelope
<1>5. IF sl.run # None /\ run[sl.run].status \in InFlight
      THEN Go(w, "walk", sl.run) ELSE UNCHANGED job
  BY DEF Envelope
<1> HIDE DEF sl
<1> DEFINE claiming == sl.run = None
<1>6. claiming \in BOOLEAN
  OBVIOUS
<1> HIDE DEF claiming
<1>7. /\ slot' \in Slots
      /\ \E new \in Slots : slot' = new /\ Fits(new)
      /\ snapshots' \in SUBSET Message
  BY <1>2, <1>3, <1>4, <1>6, SaveClaimingFits DEF claiming
<1>8. UNCHANGED <<cycle, run, row, visible, finals, wanted, faults>>
  BY DEF Envelope
<1>9. /\ job' \in [Workers -> Jobs]
      /\ \A v \in Workers :
           \/ job'[v] = job[v]
           \/ job'[v].pc = "walk" /\ job'[v].source \in Source
  <2> DEFINE j == [pc |-> "walk", source |-> sl.run]
  <2>1. CASE sl.run # None /\ run[sl.run].status \in InFlight
    <3>1. j \in Jobs /\ j.pc = "walk" /\ j.source \in Source
      BY <1>2, <2>1 DEF Jobs, Slots
    <3> QED
      BY <1>5, <2>1, <3>1, Going DEF Go
  <2>2. CASE ~(sl.run # None /\ run[sl.run].status \in InFlight)
    BY <1>5, <2>2 DEF TypeOK, Jobs
  <2> QED
    BY <2>1, <2>2
<1>10. TypeOK'
  BY <1>7, <1>8, <1>9 DEF TypeOK, Slots, Jobs
<1>11. Fits(slot)' /\ TasksKnow'
  BY <1>7, <1>8, <1>9 DEF Fits, TasksKnow, Exists
<1> QED
  BY <1>8, <1>10, <1>11, NoRunStep

\* A reconciling task re-sends the finalize message of a closed run.
LEMMA ReconcileStep ==
  ASSUME WindowInvariant, NEW w \in Workers, Reconcile(w)
  PROVE  WindowInvariant'
<1> USE DEF WindowInvariant
<1> DEFINE s == job[w].source
<1>1. /\ s \in Source
      /\ finals' = IF run[s].status = "terminal" THEN finals \cup {s} ELSE finals
      /\ UNCHANGED <<cycle, slot, run, row, visible, snapshots, wanted, faults>>
  BY DEF Reconcile, TasksKnow
<1>2. /\ job' \in [Workers -> Jobs]
      /\ \A v \in Workers : job'[v] = IF v = w THEN Idle ELSE job[v]
  <2>1. Idle \in Jobs
    BY DEF Idle, Jobs
  <2> QED
    BY <2>1, Going DEF Reconcile, Rest
<1>3. TypeOK'
  BY <1>1, <1>2 DEF TypeOK, Jobs
<1>4. Fits(slot)' /\ TasksKnow'
  BY <1>1, <1>2 DEF Fits, TasksKnow, Exists, Idle
<1> QED
  BY <1>1, <1>3, <1>4, NoRunStep

\* A slot that is idle, or holds the cutoff, gets the cutoff's run.
LEMMA AttachedFits ==
  ASSUME WindowInvariant, NEW s \in Source, slot.active \in {None, s},
         Exists(s)
  PROVE  /\ Attached(s) \in Slots
         /\ Fits(Attached(s))
<1> USE DEF WindowInvariant
<1>1. slot \in Slots
  BY DEF TypeOK, Slots
<1>2. /\ Attached(s) \in Slots
      /\ Attached(s).active = s /\ Attached(s).run = s
      /\ Attached(s).queued = slot.queued
  BY <1>1 DEF Attached, Slots
<1>3. CASE slot.active = s
  BY <1>2, <1>3 DEF Fits
<1>4. CASE slot.active = None
  <2>1. \A t \in Source : run[t].status \notin InFlight
    BY <1>4 DEF Fits, Source, None
  <2>2. slot.queued = None
    BY <1>4 DEF Fits
  <2>3. \A v \in Workers :
          job[v].pc \in {"claimed", "build"} => Exists(job[v].source)
    BY <1>4 DEF Fits, TasksKnow, Source, None
  <2> QED
    BY <1>2, <2>1, <2>2, <2>3 DEF Fits
<1> QED
  BY <1>3, <1>4

\* The snapshot task drops its message or goes on with a claim it owns.
LEMMA TakeSnapshotStep ==
  ASSUME WindowInvariant, NEW w \in Workers, TakeSnapshot(w)
  PROVE  WindowInvariant'
<1> USE DEF WindowInvariant
<1> PICK m \in snapshots :
      /\ job[w] = Idle
      /\ IF OwnsSlot(m)
         THEN Go(w, "claimed", m.source) /\ UNCHANGED snapshots
         ELSE snapshots' = snapshots \ {m} /\ UNCHANGED job
      /\ UNCHANGED <<cycle, slot, run, row, visible, finals, wanted, faults>>
  BY DEF TakeSnapshot
<1>1. m.source \in Source
  BY DEF TypeOK, Message
<1>2. CASE ~OwnsSlot(m)
  <2>1. UNCHANGED <<cycle, slot, run, row, visible, finals, job, wanted, faults>>
        /\ snapshots' \subseteq snapshots
    BY <1>2
  <2>2. TypeOK' /\ Fits(slot)' /\ TasksKnow'
    BY <2>1 DEF TypeOK, Fits, TasksKnow, Exists
  <2> QED
    BY <2>1, <2>2, NoRunStep
<1>3. CASE OwnsSlot(m)
  <2> DEFINE j == [pc |-> "claimed", source |-> m.source]
  <2>1. /\ Go(w, "claimed", m.source)
        /\ UNCHANGED <<cycle, slot, snapshots, run, row, visible, finals,
                       wanted, faults>>
    BY <1>3
  <2>2. /\ job' \in [Workers -> Jobs]
        /\ \A v \in Workers : job'[v] = IF v = w THEN j ELSE job[v]
    <3>1. j \in Jobs
      BY <1>1 DEF Jobs
    <3> QED
      BY <2>1, <3>1, Going DEF Go
  <2>3. TypeOK'
    BY <2>1, <2>2 DEF TypeOK, Jobs
  <2>4. Fits(slot)'
    BY <2>1, <2>2, <1>3 DEF Fits, Exists, OwnsSlot
  <2>5. TasksKnow'
    BY <1>1, <2>1, <2>2 DEF TasksKnow, Exists
  <2> QED
    BY <2>1, <2>3, <2>4, <2>5, NoRunStep
<1> QED
  BY <1>2, <1>3

\* It finds the run of its claim, or goes on to build it.
LEMMA LookUpStep ==
  ASSUME WindowInvariant, NEW w \in Workers, LookUp(w)
  PROVE  WindowInvariant'
<1> USE DEF WindowInvariant
<1> DEFINE s == job[w].source
           next == IF Exists(s) THEN "attach" ELSE "build"
           j == [pc |-> next, source |-> s]
<1>1. /\ s \in Source /\ job[w].pc = "claimed"
      /\ UNCHANGED <<cycle, slot, run, row, visible, snapshots, finals, wanted,
                     faults>>
  BY DEF LookUp, TasksKnow
<1>2. /\ job' \in [Workers -> Jobs]
      /\ \A v \in Workers : job'[v] = IF v = w THEN j ELSE job[v]
  <2>1. j \in Jobs
    BY <1>1 DEF Jobs
  <2> QED
    BY <2>1, Going DEF LookUp, Go
<1>3. TypeOK'
  BY <1>1, <1>2 DEF TypeOK, Jobs
<1>4. Fits(slot)'
  BY <1>1, <1>2 DEF Fits, Exists
<1>5. TasksKnow'
  BY <1>1, <1>2 DEF TasksKnow, Exists
<1> QED
  BY <1>1, <1>3, <1>4, <1>5, NoRunStep

\* A run that exists is attached to its slot, or to one that went idle.
LEMMA AttachStep ==
  ASSUME WindowInvariant, NEW w \in Workers, Attach(w)
  PROVE  WindowInvariant'
<1> USE DEF WindowInvariant
<1> DEFINE s == job[w].source
           j == [pc |-> "walk", source |-> s]
<1>1. /\ s \in Source /\ Exists(s)
      /\ slot' = IF slot.active \in {None, s} THEN Attached(s) ELSE slot
      /\ snapshots' \subseteq snapshots
      /\ UNCHANGED <<cycle, run, row, visible, finals, wanted, faults>>
  BY DEF Attach, TasksKnow, Acked
<1>2. /\ job' \in [Workers -> Jobs]
      /\ \A v \in Workers : job'[v] = IF v = w THEN j ELSE job[v]
  <2>1. j \in Jobs
    BY <1>1 DEF Jobs
  <2> QED
    BY <2>1, Going DEF Attach, Go
<1>3. slot' \in Slots /\ \E new \in Slots : slot' = new /\ Fits(new)
  <2>1. slot \in Slots
    BY DEF TypeOK, Slots
  <2> QED
    BY <1>1, <2>1, AttachedFits
<1>4. TypeOK'
  BY <1>1, <1>2, <1>3 DEF TypeOK, Slots, Jobs
<1>5. Fits(slot)' /\ TasksKnow'
  BY <1>1, <1>2, <1>3 DEF Fits, TasksKnow, Exists
<1> QED
  BY <1>1, <1>4, <1>5, NoRunStep

\* A worker dies.
LEMMA CrashStep ==
  ASSUME WindowInvariant, NEW w \in Workers, Crash(w)
  PROVE  WindowInvariant'
<1> USE WindowAssumption DEF WindowInvariant
<1>1. /\ job' \in [Workers -> Jobs]
      /\ \A v \in Workers : job'[v] = IF v = w THEN Idle ELSE job[v]
  <2>1. Idle \in Jobs
    BY DEF Idle, Jobs
  <2> QED
    BY <2>1, Going DEF Crash, Rest
<1>2. TypeOK'
  BY <1>1 DEF TypeOK, Jobs, Crash, Fault
<1>3. Fits(slot)' /\ TasksKnow'
  BY <1>1 DEF Crash, Fits, TasksKnow, Exists, Idle
<1> QED
  BY <1>2, <1>3, NoRunStep DEF Crash

\* A task releases the slot of the run it closed, and the queued cutoff follows.
LEMMA ReleaseStep ==
  ASSUME WindowInvariant, NEW w \in Workers, Release(w)
  PROVE  WindowInvariant'
<1> USE DEF WindowInvariant
<1> DEFINE s == job[w].source
<1>0. slot \in Slots /\ s \in Source /\ run[s].status \in Closed
  BY DEF TypeOK, Slots, Release, TasksKnow
<1>1. /\ job' \in [Workers -> Jobs]
      /\ \A v \in Workers : job'[v] = IF v = w THEN Idle ELSE job[v]
  <2>1. Idle \in Jobs
    BY DEF Idle, Jobs
  <2> QED
    BY <2>1, Going DEF Release, Rest
<1>2. /\ finals' \subseteq finals
      /\ UNCHANGED <<cycle, run, row, visible, wanted, faults>>
  BY DEF Release
<1>3. /\ slot' \in Slots
      /\ \E new \in Slots : slot' = new /\ Fits(new)
      /\ snapshots' \in SUBSET Message
  <2>1. CASE MayRelease(s)
    <3>1. Promoted(slot) \in Slots
      BY <1>0 DEF Promoted, EmptySlot, Slots
    <3>2. Fits(Promoted(slot))
      BY <1>0, <2>1, PromotedFits DEF MayRelease, Exists, Closed, InFlight
    <3>3. SaveClaiming(Promoted(slot), TRUE)
      BY <2>1 DEF Release
    <3> QED
      BY <3>1, <3>2, <3>3, SaveClaimingFits
  <2>2. CASE ~MayRelease(s)
    BY <1>0, <2>2 DEF Release, TypeOK
  <2> QED
    BY <2>1, <2>2
<1>4. TypeOK'
  BY <1>1, <1>2, <1>3 DEF TypeOK, Jobs, Slots
<1>5. Fits(slot)' /\ TasksKnow'
  BY <1>1, <1>2, <1>3 DEF Fits, TasksKnow, Exists, Idle
<1> QED
  BY <1>2, <1>4, <1>5, NoRunStep

-----------------------------------------------------------------------------
(* The steps of the runs *)

Runs == [status : Closed \cup InFlight \cup {"none"},
         manifest : SUBSET Brand, plain : SUBSET Brand]

\* A change of the status of a run leaves the others and the manifest alone.
LEMMA StatusChange ==
  ASSUME TypeOK, NEW s \in Source, NEW x \in Closed \cup InFlight,
         run' = [run EXCEPT ![s].status = x]
  PROVE  /\ run' \in [Source -> Runs]
         /\ \A t \in Source :
              /\ run'[t].status = IF t = s THEN x ELSE run[t].status
              /\ run'[t].manifest = run[t].manifest
              /\ run'[t].plain = run[t].plain
<1> DEFINE new == [run[s] EXCEPT !.status = x]
<1>1. run \in [Source -> Runs]
  BY DEF TypeOK, Runs
<1>2. run' = [run EXCEPT ![s] = new]
  BY <1>1
<1>3. /\ new \in Runs
      /\ new.status = x /\ new.manifest = run[s].manifest
      /\ new.plain = run[s].plain
  BY <1>1 DEF Runs
<1> HIDE DEF new
<1> QED
  BY <1>1, <1>2, <1>3

\* A run in flight closes, or is over, in another way than by activation.
LEMMA StatusStep ==
  ASSUME WindowInvariant, TypeOK', TasksKnow', NEW s \in Source,
         run[s].status \in InFlight,
         run'[s].status \in {"terminal", "suspended", "superseded"},
         run'[s].status = "superseded" => s <= visible,
         \A t \in Source :
           /\ t # s => run'[t].status = run[t].status
           /\ run'[t].manifest = run[t].manifest
           /\ run'[t].plain = run[t].plain,
         UNCHANGED <<slot, row, visible>>,
         \A t \in finals' : t \in finals \/ run'[t].status = "terminal",
         s \in finals' => run'[s].status # "suspended",
         \A w \in Workers :
           job'[w].pc \in {"claimed", "build"} => job'[w] = job[w]
  PROVE  WindowInvariant'
<1> USE DEF WindowInvariant
<1>1. \A t \in Source :
        /\ t # s => run'[t].status = run[t].status
        /\ run'[t].manifest = run[t].manifest
        /\ run'[t].plain = run[t].plain
  OBVIOUS
<1>2. \A t \in Source : Exists(t)' <=> Exists(t)
  BY <1>1 DEF Exists, InFlight
<1>3. Fits(slot)'
  <2>1. \A t \in Source :
          run'[t].status \in InFlight => run[t].status \in InFlight
    BY <1>1
  <2>2. \A w \in Workers : job'[w].pc \in {"claimed", "build"} =>
          \/ run'[job'[w].source].status # "none"
          \/ slot'.active = job'[w].source
    BY <1>2 DEF Fits, TasksKnow, Exists
  <2> QED
    BY <1>2, <2>1, <2>2 DEF Fits, Exists
<1>4. FinalsAreOver'
  BY <1>1 DEF FinalsAreOver, TypeOK
<1>5. VisibleIsActive'
  BY <1>1 DEF VisibleIsActive, InFlight
<1>6. RunsAreSpaced' /\ RowsBelong'
  BY <1>2 DEF RunsAreSpaced, RowsBelong
<1>7. OutcomesFit'
  BY <1>1 DEF OutcomesFit, Serves
<1>8. VisibleIsComplete' /\ ManifestIsWhole'
  BY <1>1, <1>2 DEF VisibleIsComplete, ManifestIsWhole, TypeOK
<1> QED
  BY <1>3, <1>4, <1>5, <1>6, <1>7, <1>8

\* The last walk closes a run.
LEMMA CloseStep ==
  ASSUME WindowInvariant, NEW s \in Source, Close(s)
  PROVE  WindowInvariant'
<1> USE DEF WindowInvariant
<1>1. /\ run[s].status = "preparing"
      /\ run' = [run EXCEPT ![s].status = "terminal"]
      /\ finals' = finals \cup {s}
      /\ UNCHANGED <<cycle, slot, row, visible, snapshots, job, wanted, faults>>
  BY DEF Close
<1>2. /\ run' \in [Source -> Runs]
      /\ run'[s].status = "terminal"
      /\ \A t \in Source :
           /\ t # s => run'[t].status = run[t].status
           /\ run'[t].manifest = run[t].manifest
           /\ run'[t].plain = run[t].plain
  <2>1. "terminal" \in Closed \cup InFlight
    BY DEF InFlight
  <2>2. /\ run' \in [Source -> Runs]
        /\ \A t \in Source :
             /\ run'[t].status = IF t = s THEN "terminal" ELSE run[t].status
             /\ run'[t].manifest = run[t].manifest
             /\ run'[t].plain = run[t].plain
    BY <1>1, <2>1, StatusChange
  <2> QED
    BY <2>2
<1>3. TypeOK'
  BY <1>1, <1>2 DEF TypeOK, Runs
<1>4. TasksKnow'
  BY <1>1, <1>2 DEF TasksKnow, Closed, Exists
<1> QED
  BY <1>1, <1>2, <1>3, <1>4, StatusStep DEF InFlight

\* A run is suspended.
LEMMA SuspendStep ==
  ASSUME WindowInvariant, NEW w \in Workers, NEW s \in Source, Suspend(w, s)
  PROVE  WindowInvariant'
<1> USE DEF WindowInvariant
<1>1. /\ run[s].status = "preparing"
      /\ run' = [run EXCEPT ![s].status = "suspended"]
      /\ UNCHANGED <<cycle, slot, row, visible, snapshots, finals, wanted,
                     faults>>
  BY DEF Suspend
<1>2. /\ run' \in [Source -> Runs]
      /\ run'[s].status = "suspended"
      /\ \A t \in Source :
           /\ t # s => run'[t].status = run[t].status
           /\ run'[t].manifest = run[t].manifest
           /\ run'[t].plain = run[t].plain
  <2>1. "suspended" \in Closed \cup InFlight
    BY DEF Closed
  <2>2. /\ run' \in [Source -> Runs]
        /\ \A t \in Source :
             /\ run'[t].status = IF t = s THEN "suspended" ELSE run[t].status
             /\ run'[t].manifest = run[t].manifest
             /\ run'[t].plain = run[t].plain
    BY <1>1, <2>1, StatusChange
  <2> QED
    BY <2>2
<1> DEFINE j == [pc |-> "release", source |-> s]
<1>3. /\ job' \in [Workers -> Jobs]
      /\ \A v \in Workers : job'[v] = IF v = w THEN j ELSE job[v]
  <2>1. j \in Jobs
    BY DEF Jobs
  <2> QED
    BY <2>1, Going DEF Suspend, Go
<1>4. TypeOK'
  BY <1>1, <1>2, <1>3 DEF TypeOK, Runs, Jobs
<1>5. TasksKnow'
  BY <1>1, <1>2, <1>3 DEF TasksKnow, Closed, Exists
<1>6. s \notin finals
  BY <1>1 DEF FinalsAreOver
<1>7. \A v \in Workers :
        job'[v].pc \in {"claimed", "build"} => job'[v] = job[v]
  BY <1>3
<1>8. s \notin finals' /\ \A t \in finals' : t \in finals
  BY <1>1, <1>6
<1>9. run[s].status \in InFlight
  BY <1>1 DEF InFlight
<1>10. UNCHANGED <<slot, row, visible>>
  BY <1>1
<1> HIDE DEF WindowInvariant
<1> QED
  BY <1>2, <1>4, <1>5, <1>7, <1>8, <1>9, <1>10, StatusStep

\* An older run gives way to the visible one.
LEMMA SupersedeStep ==
  ASSUME WindowInvariant, NEW w \in Workers, Supersede(w)
  PROVE  WindowInvariant'
<1> USE DEF WindowInvariant
<1> DEFINE s == job[w].source
           j == [pc |-> "release", source |-> s]
<1>1. /\ s \in Source /\ s <= visible
      /\ run[s].status \in Closed \cup {"terminal"}
      /\ UNCHANGED <<cycle, slot, row, visible, snapshots, finals, wanted,
                     faults>>
  BY DEF Supersede, TasksKnow
<1>2. /\ job' \in [Workers -> Jobs]
      /\ \A v \in Workers : job'[v] = IF v = w THEN j ELSE job[v]
  <2>1. j \in Jobs
    BY <1>1 DEF Jobs
  <2> QED
    BY <2>1, Going DEF Supersede, Go
<1>3. CASE run[s].status \in InFlight
  <2>1. run' = [run EXCEPT ![s].status = "superseded"]
    BY <1>3 DEF Supersede
  <2> HIDE DEF s
  <2>2. /\ run' \in [Source -> Runs]
        /\ run'[s].status = "superseded"
        /\ \A t \in Source :
             /\ t # s => run'[t].status = run[t].status
             /\ run'[t].manifest = run[t].manifest
             /\ run'[t].plain = run[t].plain
    <3>1. "superseded" \in Closed \cup InFlight
      BY DEF Closed
    <3>2. /\ run' \in [Source -> Runs]
          /\ \A t \in Source :
               /\ run'[t].status = IF t = s THEN "superseded"
                                   ELSE run[t].status
               /\ run'[t].manifest = run[t].manifest
               /\ run'[t].plain = run[t].plain
      BY <1>1, <2>1, <3>1, StatusChange
    <3> QED
      BY <1>1, <3>2
  <2>3. TypeOK'
    BY <1>1, <1>2, <2>2 DEF TypeOK, Runs, Jobs
  <2>4. TasksKnow'
    BY <1>1, <1>2, <2>2 DEF TasksKnow, Closed, Exists
  <2>5. \A v \in Workers :
          job'[v].pc \in {"claimed", "build"} => job'[v] = job[v]
    BY <1>2
  <2>6. \A t \in finals' : t \in finals
    BY <1>1
  <2>7. UNCHANGED <<slot, row, visible>>
    BY <1>1
  <2>8. s \in Source /\ s <= visible
    BY <1>1
  <2> HIDE DEF WindowInvariant
  <2> QED
    BY <1>3, <2>2, <2>3, <2>4, <2>5, <2>6, <2>7, <2>8, StatusStep
<1>4. CASE run[s].status \notin InFlight
  <2>1. UNCHANGED run
    BY <1>4 DEF Supersede
  <2>2. TypeOK'
    BY <1>1, <1>2, <2>1 DEF TypeOK, Jobs
  <2>3. run[s].status \in Closed
    BY <1>1, <1>4 DEF InFlight
  <2>4. TasksKnow' /\ Fits(slot)'
    BY <1>1, <1>2, <2>1, <2>3 DEF TasksKnow, Fits, Exists
  <2> QED
    BY <1>1, <2>1, <2>2, <2>4, NoRunStep
<1> QED
  BY <1>3, <1>4

Rows == [status : {"none", "approved", "held", "unavailable", "no_content"},
         good : Source \cup {None}]

\* A brand gets the outcome it did not have, one that fits what is visible.
LEMMA OutcomeStep ==
  ASSUME WindowInvariant, NEW s \in Source, NEW k \in Brand, NEW outcome \in Rows,
         Exists(s), row[s][k] = NoRow,
         row' = [row EXCEPT ![s][k] = outcome],
         UNCHANGED <<cycle, slot, run, visible, snapshots, finals, job, wanted,
                     faults>>,
         outcome.status # "none",
         outcome.status = "held" => outcome.good = Serves(visible, k),
         outcome.status = "unavailable" => Serves(visible, k) = None,
         outcome.status = "no_content" => k \in run[s].plain,
         s = visible => outcome.status = "no_content"
  PROVE  WindowInvariant'
<1> USE DEF WindowInvariant
<1>1. /\ row' \in [Source -> [Brand -> Rows]]
      /\ \A t \in Source, l \in Brand :
           row'[t][l] = IF t = s /\ l = k THEN outcome ELSE row[t][l]
  BY DEF TypeOK, Rows
<1>2. TypeOK'
  BY <1>1 DEF TypeOK, Rows
<1>3. Fits(slot)' /\ TasksKnow' /\ FinalsAreOver' /\ VisibleIsActive'
      /\ RunsAreSpaced' /\ ManifestIsWhole'
  BY DEF Fits, TasksKnow, FinalsAreOver, VisibleIsActive, RunsAreSpaced,
         ManifestIsWhole, Exists
<1>4. RowsBelong'
  BY <1>1 DEF RowsBelong, Exists
<1>5. \A l \in Brand : Serves(visible, l)' = Serves(visible, l)
  <2> SUFFICES ASSUME NEW l \in Brand
               PROVE  Serves(visible, l)' = Serves(visible, l)
    OBVIOUS
  <2>1. CASE visible = s /\ l = k
    <3>1. row[visible][l].status = "none" /\ row'[visible][l].status = "no_content"
      BY <1>1, <2>1 DEF NoRow
    <3> QED
      BY <3>1, <2>1 DEF Serves
  <2>2. CASE ~(visible = s /\ l = k)
    <3>1. visible # None => row'[visible][l] = row[visible][l]
      BY <1>1, <2>2 DEF TypeOK
    <3> QED
      BY <3>1 DEF Serves
  <2> QED
    BY <2>1, <2>2
<1>6. OutcomesFit'
  BY <1>1, <1>5 DEF OutcomesFit
<1>7. VisibleIsComplete'
  BY <1>1 DEF VisibleIsComplete, TypeOK
<1> HIDE DEF WindowInvariant
<1> QED
  BY <1>2, <1>3, <1>4, <1>6, <1>7 DEF WindowInvariant

\* A walk decides an eligible brand of a run in flight.
LEMMA DecideStep ==
  ASSUME WindowInvariant, NEW s \in Source, NEW k \in Brand, Decide(s, k)
  PROVE  WindowInvariant'
<1>1. /\ run[s].status \in InFlight /\ row[s][k] = NoRow
      /\ UNCHANGED <<cycle, slot, run, visible, snapshots, finals, job, wanted,
                     faults>>
  BY DEF Decide
<1>2. PICK outcome \in {[status |-> "approved", good |-> None], Held(k)} :
        row' = [row EXCEPT ![s][k] = outcome]
  BY DEF Decide
<1>3. Serves(visible, k) \in Source \cup {None}
  BY DEF Serves, WindowInvariant, TypeOK
<1>4. /\ outcome \in Rows /\ outcome.status \notin {"none", "no_content"}
      /\ outcome.status = "held" => outcome.good = Serves(visible, k)
      /\ outcome.status = "unavailable" => Serves(visible, k) = None
  <2>1. outcome \in {[status |-> "approved", good |-> None],
                     [status |-> "unavailable", good |-> None],
                     [status |-> "held", good |-> Serves(visible, k)]}
    BY <1>2 DEF Held
  <2>2. outcome = [status |-> "unavailable", good |-> None] =>
          Serves(visible, k) = None
    BY <1>2 DEF Held
  <2>3. outcome \in Rows
    BY <1>3, <2>1 DEF Rows, None
  <2> QED
    BY <2>1, <2>2, <2>3
<1>5. s # visible /\ Exists(s)
  BY <1>1 DEF WindowInvariant, VisibleIsActive, InFlight, Exists
<1> QED
  BY <1>1, <1>2, <1>4, <1>5, OutcomeStep

\* The creator of a run writes the outcome of a brand without material, or has
\* written them all.
LEMMA WritePlainStep ==
  ASSUME WindowInvariant, NEW w \in Workers, WritePlain(w)
  PROVE  WindowInvariant'
<1> DEFINE s == job[w].source
<1>1. /\ s \in Source /\ Exists(s)
      /\ UNCHANGED <<cycle, slot, run, visible, snapshots, finals, wanted,
                     faults>>
  BY DEF WritePlain, WindowInvariant, TasksKnow
<1>2. CASE Unwritten(s) = {}
  <2> DEFINE j == [pc |-> "walk", source |-> s]
  <2>1. Go(w, "walk", s) /\ UNCHANGED row
    BY <1>2 DEF WritePlain
  <2>2. /\ job' \in [Workers -> Jobs]
        /\ \A v \in Workers : job'[v] = IF v = w THEN j ELSE job[v]
    <3>1. j \in Jobs
      BY <1>1 DEF Jobs
    <3> QED
      BY <2>1, <3>1, Going DEF Go, WindowInvariant
  <2>3. TypeOK'
    BY <1>1, <2>1, <2>2 DEF TypeOK, Jobs, WindowInvariant
  <2>4. Fits(slot)' /\ TasksKnow'
    BY <1>1, <2>2 DEF Fits, TasksKnow, Exists, WindowInvariant
  <2> QED
    BY <1>1, <2>1, <2>3, <2>4, NoRunStep
<1>3. CASE Unwritten(s) # {}
  <2> DEFINE outcome == [status |-> "no_content", good |-> None]
  <2>1. PICK k \in Unwritten(s) : row' = [row EXCEPT ![s][k] = outcome]
    BY <1>3 DEF WritePlain
  <2>2. /\ UNCHANGED job
        /\ k \in run[s].plain /\ row[s][k] = NoRow
    BY <1>3 DEF WritePlain, Unwritten
  <2>3. k \in Brand
    BY <1>1, <2>2 DEF WindowInvariant, TypeOK
  <2>4. outcome \in Rows /\ outcome.status = "no_content"
    BY DEF Rows
  <2> HIDE DEF outcome
  <2> QED
    BY <1>1, <2>1, <2>2, <2>3, <2>4, OutcomeStep
<1> QED
  BY <1>2, <1>3

\* A builder creates the run of its slot, or finds it.
LEMMA CreateRunStep ==
  ASSUME WindowInvariant, NEW w \in Workers, CreateRun(w)
  PROVE  WindowInvariant'
<1> USE DEF WindowInvariant
<1> DEFINE s == job[w].source
<1>1. /\ s \in Source /\ job[w].pc = "build"
      /\ slot' = IF slot.active = s THEN Attached(s) ELSE slot
      /\ snapshots' \subseteq snapshots
      /\ IF slot.active = s /\ ~Exists(s) THEN Go(w, "plain", s) ELSE Rest(w)
      /\ UNCHANGED <<cycle, row, visible, finals, wanted, faults>>
  BY DEF CreateRun, TasksKnow, Acked
<1> DEFINE j == IF slot.active = s /\ ~Exists(s)
                THEN [pc |-> "plain", source |-> s] ELSE Idle
<1>2. /\ job' \in [Workers -> Jobs]
      /\ \A v \in Workers : job'[v] = IF v = w THEN j ELSE job[v]
  <2>1. j \in Jobs
    BY <1>1 DEF Idle, Jobs
  <2> QED
    BY <1>1, <2>1, Going DEF Rest, Go
<1>3. slot' \in Slots
  BY <1>1 DEF Attached, Slots, TypeOK
<1>4. CASE Exists(s)
  <2>1. UNCHANGED run
    BY <1>4 DEF CreateRun
  <2>0. \E new \in Slots : slot' = new /\ Fits(new)
    <3>1. slot \in Slots
      BY DEF TypeOK, Slots
    <3> QED
      BY <1>1, <1>4, <3>1, AttachedFits
  <2>2. TypeOK'
    BY <1>1, <1>2, <1>3, <2>1 DEF TypeOK, Slots, Jobs
  <2>3. Fits(slot)' /\ TasksKnow'
    BY <1>1, <1>2, <1>4, <2>0, <2>1 DEF Fits, TasksKnow, Exists, Idle
  <2> QED
    BY <1>1, <2>1, <2>2, <2>3, NoRunStep
<1>5. CASE ~Exists(s)
  <2>1. PICK manifest \in IF Shaping THEN SUBSET Brand ELSE {Brand} :
          \E plain \in SUBSET manifest :
            run' = [run EXCEPT ![s] = [status |-> "preparing",
                                       manifest |-> manifest,
                                       plain |-> plain]]
    BY <1>5 DEF CreateRun
  <2>2. PICK plain \in SUBSET manifest :
          run' = [run EXCEPT ![s] = [status |-> "preparing",
                                     manifest |-> manifest,
                                     plain |-> plain]]
    BY <2>1
  <2> DEFINE new == [status |-> "preparing", manifest |-> manifest,
                     plain |-> plain]
  <2>3. /\ new \in Runs /\ new.status = "preparing"
        /\ ~Shaping => new.manifest = Brand
    BY <2>1, <2>2 DEF Runs, InFlight
  <2>4. /\ run' \in [Source -> Runs]
        /\ \A t \in Source : run'[t] = IF t = s THEN new ELSE run[t]
    BY <1>1, <2>2, <2>3 DEF TypeOK, Runs
  <2> HIDE DEF new
  <2>5. /\ slot.active = s /\ slot.active \in Source
        /\ slot'.active = s /\ slot'.run = s /\ slot'.queued = slot.queued
    <3>1. slot.active = s
      BY <1>1, <1>5 DEF Fits
    <3> QED
      BY <1>1, <3>1 DEF Attached, TypeOK
  <2>6. /\ \A t \in Source : run[t].status \notin InFlight
        /\ s # visible
    BY <1>1, <1>5, <2>5 DEF Fits, Exists, InFlight, VisibleIsActive
  <2>7. TypeOK'
    BY <1>1, <1>2, <1>3, <2>4 DEF TypeOK, Slots, Jobs, Runs
  <2>8. \A t \in Source : Exists(t)' <=> Exists(t) \/ t = s
    BY <2>3, <2>4 DEF Exists
  <2>9. \A t \in Source : Exists(t) => s >= t + Cadence
    BY <1>1, <1>5, <2>5 DEF Fits, None, Source
  <2>10. Fits(slot)'
    <3>1. slot'.queued # None => slot'.queued >= s + Cadence
      BY <2>5 DEF Fits
    <3>2. \A t \in Source : Exists(t) /\ slot'.queued \notin {None, t} =>
            slot'.queued >= t + Cadence
      BY <2>5 DEF Fits
    <3>3. \A t \in Source : run'[t].status \in InFlight => t = s
      BY <2>4, <2>6
    <3>4. \A v \in Workers : job'[v].pc \in {"claimed", "build"} =>
            \/ run'[job'[v].source].status # "none"
            \/ slot'.active = job'[v].source
      BY <1>2, <2>5, <2>8 DEF Fits, TasksKnow, Idle, Exists
    <3>5. run'[slot'.active].status # "none"
      BY <1>1, <2>5, <2>8 DEF Exists
    <3> QED
      BY <1>1, <2>5, <2>8, <2>9, <3>1, <3>2, <3>3, <3>4, <3>5
         DEF Fits, None, Source, Exists
  <2>11. TasksKnow'
    <3>1. \A t \in Source :
            /\ run[t].status \in Closed \cup {"terminal"} => run'[t] = run[t]
            /\ Exists(t) => run'[t].status # "none"
      BY <1>5, <2>3, <2>4 DEF Exists, Closed
    <3>2. run'[s].status # "none"
      BY <1>1, <2>3, <2>4
    <3>3. j.pc \in {"plain", "idle"} /\ (j.pc = "plain" => j.source = s)
      BY DEF Idle
    <3> HIDE DEF j
    <3> SUFFICES ASSUME NEW v \in Workers
                 PROVE  /\ job'[v].pc # "idle" => job'[v].source \in Source
                        /\ job'[v].pc \in {"attach", "plain"} =>
                             run'[job'[v].source].status # "none"
                        /\ job'[v].pc = "refused" =>
                             /\ run'[job'[v].source].status \in Closed \cup {"terminal"}
                             /\ job'[v].source <= visible'
                        /\ job'[v].pc = "release" =>
                             run'[job'[v].source].status \in Closed
      BY DEF TasksKnow, Exists
    <3>4. CASE v = w
      <4>1. job'[v] = j
        BY <1>2, <3>4
      <4>2. s \in Source
        BY <1>1
      <4> HIDE DEF s
      <4> QED
        BY <3>2, <3>3, <4>1, <4>2
    <3>5. CASE v # w
      <4>1. job'[v] = job[v]
        BY <1>2, <3>5
      <4> QED
        BY <1>1, <3>1, <4>1 DEF TasksKnow, Exists
    <3> QED
      BY <3>4, <3>5
  <2>12. FinalsAreOver'
    BY <1>1, <1>5, <2>4 DEF FinalsAreOver, Exists, TypeOK
  <2>13. VisibleIsActive'
    BY <1>1, <2>3, <2>4, <2>6 DEF VisibleIsActive
  <2>14. RunsAreSpaced'
    BY <2>8, <2>9, <1>1, WindowAssumption DEF RunsAreSpaced, Source
  <2>15. RowsBelong'
    BY <1>1, <2>8 DEF RowsBelong
  <2>16. OutcomesFit'
    <3>1. \A k \in Brand : row[s][k] = NoRow
      BY <1>1, <1>5 DEF RowsBelong
    <3> QED
      BY <1>1, <2>4, <2>6, <3>1 DEF OutcomesFit, NoRow
  <2>17. VisibleIsComplete'
    BY <1>1, <2>4, <2>6 DEF VisibleIsComplete, TypeOK
  <2>18. ManifestIsWhole'
    BY <2>3, <2>4, <2>8 DEF ManifestIsWhole
  <2> QED
    BY <2>7, <2>10, <2>11, <2>12, <2>13, <2>14, <2>15, <2>16, <2>17, <2>18
<1> QED
  BY <1>4, <1>5

\* A run that may be activated is over, not visible yet, and alone in flight.
LEMMA ActivatedWasTerminal ==
  ASSUME WindowInvariant, NEW s \in finals, MayActivate(s)
  PROVE  /\ s \in Source /\ run[s].status = "terminal"
         /\ \A t \in Source : run[t].status \in InFlight => t = s
<1> USE DEF WindowInvariant
<1>1. s \in Source /\ visible \in Source \cup {None} /\ s > visible
  BY DEF TypeOK, MayActivate
<1>2. run[s].status \in {"terminal", "active", "superseded"}
  BY DEF FinalsAreOver
<1>3. run[s].status \notin {"active", "superseded"}
  BY <1>1 DEF VisibleIsActive, Source, None
<1>4. run[s].status = "terminal"
  BY <1>2, <1>3
<1> QED
  BY <1>1, <1>4 DEF Fits, InFlight

\* A run replaces the visible one, a newer one is already visible, or the run
\* is not complete.
LEMMA ActivateStep ==
  ASSUME WindowInvariant, NEW w \in Workers, NEW s \in Source, Activate(w, s)
  PROVE  WindowInvariant'
<1> USE DEF WindowInvariant
<1>1. /\ s \in finals /\ visible \in Source \cup {None}
      /\ UNCHANGED <<cycle, slot, row, snapshots, wanted, faults>>
  BY DEF Activate, TypeOK
<1>2. CASE MayActivate(s)
  <2> DEFINE j == [pc |-> "release", source |-> s]
             new(t) == IF t = s THEN [run[s] EXCEPT !.status = "active"]
                       ELSE IF t = visible /\ run[t].status = "active"
                            THEN [run[t] EXCEPT !.status = "superseded"]
                            ELSE run[t]
  <2>1. /\ run' = [t \in Source |-> new(t)]
        /\ visible' = s /\ Go(w, "release", s) /\ UNCHANGED finals
    BY <1>2 DEF Activate
  <2>2. /\ run[s].status = "terminal" /\ s > visible
        /\ \A t \in Source : run[t].status \in InFlight => t = s
    BY <1>1, <1>2, ActivatedWasTerminal DEF MayActivate
  <2>3. run \in [Source -> Runs]
    BY DEF TypeOK, Runs
  <2>4. ASSUME NEW t \in Source
        PROVE  /\ new(t) \in Runs
               /\ new(t).manifest = run[t].manifest
               /\ new(t).plain = run[t].plain
               /\ new(t).status = IF t = s THEN "active"
                                  ELSE IF run[t].status = "active"
                                  THEN "superseded" ELSE run[t].status
    <3>1. t # s => (run[t].status = "active" <=>
                      t = visible /\ run[t].status = "active")
      BY DEF VisibleIsActive
    <3>2. run[t] \in Runs
      BY <2>3
    <3>3. \A r \in Runs, x \in {"active", "superseded"} :
            /\ [r EXCEPT !.status = x] \in Runs
            /\ [r EXCEPT !.status = x].manifest = r.manifest
            /\ [r EXCEPT !.status = x].plain = r.plain
            /\ [r EXCEPT !.status = x].status = x
      BY DEF Runs, Closed
    <3> QED
      BY <3>1, <3>2, <3>3
  <2> HIDE DEF new
  <2>5. /\ run' \in [Source -> Runs]
        /\ \A t \in Source :
             /\ run'[t].manifest = run[t].manifest
             /\ run'[t].plain = run[t].plain
             /\ run'[t].status = IF t = s THEN "active"
                                 ELSE IF run[t].status = "active"
                                 THEN "superseded" ELSE run[t].status
    BY <2>1, <2>4
  <2>6. /\ job' \in [Workers -> Jobs]
        /\ \A v \in Workers : job'[v] = IF v = w THEN j ELSE job[v]
    <3>1. j \in Jobs
      BY DEF Jobs
    <3> QED
      BY <2>1, <3>1, Going DEF Go
  <2>7. \A t \in Source :
          /\ run'[t].status \notin InFlight
          /\ run'[t].status # "none" <=> run[t].status # "none"
          /\ run[t].status \in Closed => run'[t].status \in Closed
    BY <2>2, <2>5 DEF InFlight, Closed
  <2>8. \A t \in Source : t <= visible => t <= s
    BY <1>1, <2>2 DEF Source, None
  <2>9. TypeOK'
    BY <1>1, <2>1, <2>5, <2>6 DEF TypeOK, Runs, Jobs
  <2>10. Fits(slot)'
    <3>1. \A v \in Workers : job'[v].pc \in {"claimed", "build"} =>
            \/ run'[job'[v].source].status # "none"
            \/ slot'.active = job'[v].source
      BY <1>1, <2>6, <2>7 DEF Fits, Exists, TasksKnow
    <3>2. slot.active \in Source \cup {None}
      BY DEF TypeOK
    <3> QED
      BY <1>1, <2>7, <3>1, <3>2 DEF Fits, Exists
  <2>11. TasksKnow'
    <3> SUFFICES ASSUME NEW v \in Workers
                 PROVE  /\ job'[v].pc # "idle" => job'[v].source \in Source
                        /\ job'[v].pc \in {"attach", "plain"} =>
                             run'[job'[v].source].status # "none"
                        /\ job'[v].pc = "refused" =>
                             /\ run'[job'[v].source].status \in Closed \cup {"terminal"}
                             /\ job'[v].source <= visible'
                        /\ job'[v].pc = "release" =>
                             run'[job'[v].source].status \in Closed
      BY DEF TasksKnow, Exists
    <3>1. CASE v = w
      BY <2>5, <2>6, <3>1 DEF Closed
    <3>2. CASE v # w
      <4>1. job'[v] = job[v]
        BY <2>6, <3>2
      <4> QED
        BY <2>1, <2>2, <2>5, <2>7, <2>8, <4>1 DEF TasksKnow, Closed, Exists
    <3> QED
      BY <3>1, <3>2
  <2>12. FinalsAreOver'
    BY <2>1, <2>2, <2>5 DEF FinalsAreOver, TypeOK
  <2>13. VisibleIsActive'
    BY <1>1, <2>1, <2>2, <2>5, <2>8 DEF VisibleIsActive, Source
  <2>14. RunsAreSpaced' /\ RowsBelong' /\ ManifestIsWhole'
    BY <1>1, <2>5, <2>7 DEF RunsAreSpaced, RowsBelong, ManifestIsWhole, Exists
  <2>15. OutcomesFit'
    BY <2>7 DEF OutcomesFit
  <2>16. VisibleIsComplete'
    BY <1>1, <1>2, <2>1, <2>5
       DEF VisibleIsComplete, MayActivate, Complete, RowsBelong, TypeOK, Runs
  <2> QED
    BY <2>9, <2>10, <2>11, <2>12, <2>13, <2>14, <2>15, <2>16
<1>3. CASE ~MayActivate(s)
  <2>1. UNCHANGED <<run, visible>> /\ finals' \subseteq finals
    BY <1>3 DEF Activate
  <2>2. CASE visible >= s
    <3> DEFINE j == [pc |-> "refused", source |-> s]
    <3>1. /\ job' \in [Workers -> Jobs]
          /\ \A v \in Workers : job'[v] = IF v = w THEN j ELSE job[v]
      <4>1. j \in Jobs
        BY DEF Jobs
      <4> QED
        BY <1>3, <2>2, <4>1, Going DEF Activate, Go
    <3>2. TypeOK'
      BY <1>1, <2>1, <3>1 DEF TypeOK, Jobs
    <3>3. s <= visible /\ run[s].status \in Closed \cup {"terminal"}
      BY <1>1, <2>2 DEF FinalsAreOver, Closed, Source, None
    <3>4. Fits(slot)' /\ TasksKnow'
      BY <1>1, <2>1, <3>1, <3>3 DEF Fits, TasksKnow, Exists
    <3> QED
      BY <1>1, <2>1, <3>2, <3>4, NoRunStep
  <2>3. CASE ~(visible >= s)
    <3>1. UNCHANGED job
      BY <1>3, <2>3 DEF Activate
    <3>2. TypeOK' /\ Fits(slot)' /\ TasksKnow'
      BY <1>1, <2>1, <3>1 DEF TypeOK, Fits, TasksKnow, Exists
    <3> QED
      BY <1>1, <2>1, <3>2, NoRunStep
  <2> QED
    BY <2>2, <2>3
<1> QED
  BY <1>2, <1>3

-----------------------------------------------------------------------------
(* The theorems *)

\* Every step keeps the invariant.
LEMMA WindowInvariantStep == WindowInvariant /\ [Next]_vars => WindowInvariant'
<1> SUFFICES ASSUME WindowInvariant, [Next]_vars PROVE WindowInvariant'
  OBVIOUS
<1>1. CASE Harvest \/ DemandChanges \/ Lose
  BY <1>1, HarvestStep
<1>2. CASE ClaimExpires
  BY <1>2, ClaimExpiresStep
<1>3. ASSUME NEW w \in Workers, TaskStep(w) \/ TakeSnapshot(w) \/ Crash(w)
      PROVE  WindowInvariant'
  BY <1>3, LookUpStep, AttachStep, CreateRunStep, WritePlainStep,
     ReconcileStep, SupersedeStep, ReleaseStep, TakeSnapshotStep, CrashStep
     DEF TaskStep
<1>4. ASSUME NEW w \in Workers, NEW s \in Source,
             Envelope(w, s) \/ Suspend(w, s) \/ Activate(w, s)
      PROVE  WindowInvariant'
  BY <1>4, EnvelopeStep, SuspendStep, ActivateStep
<1>5. ASSUME NEW s \in Source, Close(s) PROVE WindowInvariant'
  BY <1>5, CloseStep
<1>6. ASSUME NEW s \in Source, NEW k \in Brand, Decide(s, k)
      PROVE  WindowInvariant'
  BY <1>6, DecideStep
<1>7. CASE UNCHANGED vars
  <2>1. TypeOK' /\ Fits(slot)' /\ TasksKnow'
    BY <1>7 DEF WindowInvariant, vars, TypeOK, Fits, TasksKnow, Exists
  <2> QED
    BY <1>7, <2>1, NoRunStep DEF vars
<1> QED
  BY <1>1, <1>2, <1>3, <1>4, <1>5, <1>6, <1>7 DEF Next

\* The strengthened invariant holds in every reachable state of the window.
THEOREM WindowInvariantHolds == Spec => []WindowInvariant
<1>1. Init => WindowInvariant
  BY WindowInvariantInit
<1>2. WindowInvariant /\ [Next]_vars => WindowInvariant'
  BY WindowInvariantStep
<1> QED
  BY <1>1, <1>2, PTL DEF Spec

\* The slot, the runs, the outcomes and the tasks have their types.
THEOREM WindowTypeCorrect == Spec => []TypeOK
<1>1. WindowInvariant => TypeOK
  BY DEF WindowInvariant
<1> QED
  BY <1>1, WindowInvariantHolds, PTL

\* No run is left behind by _complete_work_slot or _coalesce_window_envelope,
\* and no two runs of a window are in flight.
THEOREM NoRunLeftBehind == Spec => []InFlightIsAttached
<1>1. WindowInvariant => InFlightIsAttached
  BY DEF WindowInvariant, Fits, InFlightIsAttached
<1> QED
  BY <1>1, WindowInvariantHolds, PTL

\* A queued cutoff of the slot is a newer one, behind an active one.
THEOREM OnlyNewerIsQueued == Spec => []QueueIsNewer
<1>1. WindowInvariant => QueueIsNewer
  BY WindowAssumption
     DEF WindowInvariant, Fits, QueueIsNewer, TypeOK, Source, None
<1> QED
  BY <1>1, WindowInvariantHolds, PTL

\* The runs that a window ever gets are a cadence apart, whichever of the
\* tasks creates them and however late.
THEOREM CadenceIsKept == Spec => []RunsAreSpaced
<1>1. WindowInvariant => RunsAreSpaced
  BY DEF WindowInvariant
<1> QED
  BY <1>1, WindowInvariantHolds, PTL

\* What activate_trend_narrative_run made public has every brand's outcome.
THEOREM PublicIsComplete == Spec => []VisibleIsComplete
<1>1. WindowInvariant => VisibleIsComplete
  BY DEF WindowInvariant
<1> QED
  BY <1>1, WindowInvariantHolds, PTL

\* The visible run changes only when a run over and complete is activated; it
\* is the one run in flight, its rows stay and its manifest is kept.
LEMMA VisibleChange ==
  ASSUME WindowInvariant, [Next]_vars, visible' # visible
  PROVE  /\ visible' \in Source /\ visible' > visible
         /\ run[visible'].status = "terminal" /\ Complete(visible')
         /\ row' = row
         /\ run'[visible'].plain = run[visible'].plain
         /\ run'[visible'].manifest = run[visible'].manifest
<1>1. PICK w \in Workers, s \in Source : Activate(w, s)
  BY DEF Next, vars, TaskStep, Harvest, DemandChanges, Lose, ClaimExpires,
         TakeSnapshot, Crash, Envelope, Suspend, Close, Decide, LookUp, Attach,
         CreateRun, WritePlain, Reconcile, Supersede, Release
<1>2. s \in finals /\ MayActivate(s) /\ visible' = s /\ row' = row
  BY <1>1 DEF Activate
<1>3. run[s].status = "terminal"
  BY <1>2, ActivatedWasTerminal
<1>4. run'[s].plain = run[s].plain /\ run'[s].manifest = run[s].manifest
  <2>1. run'[s] = [run[s] EXCEPT !.status = "active"]
    BY <1>1, <1>2 DEF Activate
  <2>2. run[s] \in Runs
    BY DEF WindowInvariant, TypeOK, Runs
  <2> QED
    BY <2>1, <2>2 DEF Runs
<1> QED
  BY <1>2, <1>3, <1>4 DEF MayActivate

\* "An older cutoff cannot replace a newer visible cutoff."
THEOREM OnlyNewerBecomesVisible == Spec => VisibleAdvances
<1>1. WindowInvariant /\ [Next]_vars => [visible' >= visible]_visible
  <2> SUFFICES ASSUME WindowInvariant, [Next]_vars, visible' # visible
               PROVE  visible' >= visible
    OBVIOUS
  <2>1. visible' \in Source /\ visible' > visible
    BY VisibleChange
  <2>2. visible \in Source \cup {None}
    BY DEF WindowInvariant, TypeOK
  <2> QED
    BY <2>1, <2>2 DEF Source, None
<1> QED
  BY <1>1, WindowInvariantHolds, PTL DEF Spec, VisibleAdvances

\* A brand that was held, however long before its run became visible, carries
\* the row that the replaced run serves for it.
THEOREM LastGoodIsCarried == Spec => HeldCarriesLastGood
<1> DEFINE Carried ==
      visible' # visible => \A k \in Brand :
        row'[visible'][k].status = "held" =>
          row'[visible'][k].good = Serves(visible, k)
<1>1. WindowInvariant /\ [Next]_vars => [Carried]_vars
  <2> SUFFICES ASSUME WindowInvariant, [Next]_vars, visible' # visible,
                      NEW k \in Brand, row'[visible'][k].status = "held"
               PROVE  row'[visible'][k].good = Serves(visible, k)
    OBVIOUS
  <2> QED
    BY VisibleChange DEF WindowInvariant, OutcomesFit, InFlight
<1> QED
  BY <1>1, WindowInvariantHolds, PTL DEF Spec, HeldCarriesLastGood

\* A brand that can still support a story loses the one it had only to a run
\* whose manifest demand shaping made without it.
THEOREM OnlyShapingLosesStories == Spec => StoryLostOnlyByShaping
<1> DEFINE Kept ==
      visible' # visible => \A k \in Brand :
        Serves(visible, k) # None /\ k \notin run'[visible'].plain =>
          \/ row'[visible'][k].status \in {"approved", "held"}
          \/ Shaping /\ k \notin run'[visible'].manifest
<1>1. WindowInvariant /\ [Next]_vars => [Kept]_vars
  <2> SUFFICES ASSUME WindowInvariant, [Next]_vars,
                      visible' # visible, NEW k \in Brand,
                      Serves(visible, k) # None,
                      k \notin run'[visible'].plain
               PROVE  \/ row'[visible'][k].status \in {"approved", "held"}
                      \/ Shaping /\ k \notin run'[visible'].manifest
    OBVIOUS
  <2>1. /\ visible' \in Source /\ run[visible'].status = "terminal"
        /\ Complete(visible') /\ row' = row
        /\ k \notin run[visible'].plain
        /\ run'[visible'].manifest = run[visible'].manifest
    BY VisibleChange
  <2>2. CASE k \in run[visible'].manifest
    <3>1. row[visible'][k].status # "none"
      BY <2>1, <2>2 DEF Complete, WindowInvariant, RowsBelong
    <3>2. row[visible'][k].status \notin {"unavailable", "no_content"}
      BY <2>1 DEF WindowInvariant, OutcomesFit, InFlight
    <3>3. row[visible'][k].status \in {"none", "approved", "held",
                                       "unavailable", "no_content"}
      BY <2>1 DEF WindowInvariant, TypeOK
    <3> QED
      BY <2>1, <3>1, <3>2, <3>3
  <2>3. CASE k \notin run[visible'].manifest
    <3>1. Shaping
      BY <2>1, <2>3 DEF WindowInvariant, ManifestIsWhole, Exists
    <3> QED
      BY <2>1, <2>3, <3>1
  <2> QED
    BY <2>2, <2>3
<1> QED
  BY <1>1, WindowInvariantHolds, PTL DEF Spec, StoryLostOnlyByShaping

=============================================================================
