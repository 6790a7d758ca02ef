------------------------ MODULE HeadlineDemandProofs ------------------------
(***************************************************************************)
(* Proofs about HeadlineDemand, for every set of dossiers and releases and *)
(* every number of runs, requests and faults: type correctness, and that   *)
(* the decision about a brand agrees with what was concluded of it.        *)
(***************************************************************************)
EXTENDS HeadlineDemand, TLAPS

\* The headline tasks are executed one at a time: the worker of the queue
\* trend-narratives is started with --concurrency=1 (render.yaml:102).
AtMostOneWorker == \A a, b \in Workers : a = b

-----------------------------------------------------------------------------
(* The inductive invariant, in parts *)

Unfinished(n) == run[n].status \in {"open", "closed"}

\* Only the run in the slot is unfinished, and a worker that builds or notes
\* does so for the run in the slot.
SlotIsExclusive ==
  /\ \A n \in Cutoffs : Unfinished(n) => n = slot
  /\ \A w \in Workers :
       /\ job[w].pc = "idle" => job[w] = Idle
       /\ job[w].pc # "idle" => job[w].run \in Cutoffs
       /\ job[w].pc \in {"built", "mark"} => job[w].run = slot
       /\ job[w].pc \in {"mark", "release"} => run[job[w].run].status = "active"
       /\ job[w].pc = "release" => job[w].sel = NoSel

\* A selection of the brand is on its way to the note about it.
Underway(sel) ==
  \/ \E w \in Workers : job[w].sel = sel
  \/ \E n \in Cutoffs : Unfinished(n) /\ run[n].sel = sel

Waiting == \E sel \in Selection : Underway(sel)

\* The note about a selection will find its target and its request count, if
\* the row might be mistaken for one that is up to date.
UpToDate == row.print # None /\ row.op = row.enqueued

Claimed(sel) == UpToDate => row.target = sel.target /\ row.op = sel.op

Recorded == [print |-> row.print, target |-> row.target, op |-> row.op]

\* What the row says was concluded is what was concluded.
PrintIsConcluded == ~lost =>
  /\ \A sel \in Selection : Underway(sel) => Claimed(sel)
  /\ ~Waiting /\ UpToDate => concluded = Recorded

\* The last selection is the one that the row has enqueued.
Enqueued(sel) == row.target = sel.target /\ row.enqueued = sel.op

\* What was concluded is what the row says.
ConcludedIsPrint == ~lost /\ ~renewed =>
  /\ \A sel \in Selection : Underway(sel) => Enqueued(sel)
  /\ ~Waiting /\ concluded # NoSel =>
       /\ Enqueued(concluded)
       /\ row.op = row.enqueued => row.print = concluded.print

\* Until its note is written, the selection that was activated is the last one
\* that was concluded.
MarkedIsConcluded == \A w \in Workers :
  job[w].pc = "mark" /\ job[w].sel # NoSel => concluded = job[w].sel

\* A brand that is hot was asked for.
HotIsAsked == row.hot => row.target # None

DemandInvariant == /\ TypeOK /\ SlotIsExclusive /\ HotIsAsked
                   /\ MarkedIsConcluded /\ PrintIsConcluded /\ ConcludedIsPrint

-----------------------------------------------------------------------------
(* Types *)

\* No selection is the one of a run without the brand.
LEMMA NothingIsNoSelection == NoSel \notin Selection
BY DemandAssumption DEF NoSel, Selection

\* Every step keeps the types.
LEMMA DemandTypeStep ==
  ASSUME TypeOK, [Next]_vars
  PROVE  TypeOK'
<1> USE DemandAssumption DEF TypeOK, history
<1>1. ASSUME NEW target \in Target, NEW op \in {0, 1}, Record(target, op)
      PROVE  TypeOK'
  <2>1. row.op \in 0..MaxRequests /\ row.enqueued \in 0..MaxRequests
    BY DEF Demands
  <2>2. CASE row.target = None
    <3>1. row' = [target |-> target, print |-> None, state |-> "pending",
                  op |-> op, enqueued |-> 0, hot |-> TRUE]
      BY <1>1, <2>2 DEF Record, NoDemand
    <3>2. op \in 0..MaxRequests
      BY <1>1, <2>1 DEF Record
    <3>3. row' \in Demands
      BY <3>1, <3>2 DEF Demands
    <3>4. row'.enqueued <= row'.op
      BY <3>1, <3>2
    <3> QED
      BY <1>1, <3>3, <3>4 DEF Record
  <2>3. CASE row.target # None
    <3>1. row' = Again(target, op)
      BY <1>1, <2>3 DEF Record
    <3>2. row.op + op \in 0..MaxRequests
      BY <1>1, <2>1 DEF Record
    <3>3. row' \in Demands
      <4> DEFINE newer == target # row.target
      <4>1. row' = [target |-> target,
                    print |-> IF newer THEN None ELSE row.print,
                    state |-> "pending", op |-> row.op + op,
                    enqueued |-> IF newer THEN 0 ELSE row.enqueued,
                    hot |-> TRUE]
        BY <3>1 DEF Again, Demands
      <4> QED
        BY <2>1, <3>2, <4>1 DEF Demands
    <3>4. row'.op = row.op + op /\ row'.enqueued \in {0, row.enqueued}
      BY <3>1 DEF Again, Demands
    <3>5. row'.enqueued <= row'.op
      BY <2>1, <3>2, <3>4
    <3> QED
      BY <1>1, <3>3, <3>5 DEF Record
  <2> QED
    BY <2>2, <2>3
<1>2. ASSUME Cool PROVE TypeOK'
  BY <1>2 DEF Cool, Demands
<1>3. ASSUME Change PROVE TypeOK'
  BY <1>3 DEF Change
<1>4. ASSUME NEW n \in Cutoffs, Close(n) PROVE TypeOK'
  <2>1. run' \in [Cutoffs -> Runs]
    <3>1. [run[n] EXCEPT !.status = "closed"] \in Runs
      BY DEF Runs
    <3> QED
      BY <1>4, <3>1 DEF Close
  <2> QED
    BY <1>4, <2>1 DEF Close
<1>5. ASSUME NEW n \in Cutoffs, Suspend(n) PROVE TypeOK'
  <2>1. run' \in [Cutoffs -> Runs]
    <3>1. [run[n] EXCEPT !.status = "suspended"] \in Runs
      BY DEF Runs
    <3> QED
      BY <1>5, <3>1 DEF Suspend
  <2>2. faults' \in 0..MaxFaults
    BY <1>5 DEF Suspend, Fault
  <2> QED
    BY <1>5, <2>1, <2>2 DEF Suspend
<1>6. ASSUME NEW w \in Workers, Envelope(w) PROVE TypeOK'
  BY <1>6 DEF Envelope
<1>7. ASSUME NEW w \in Workers, Select(w) PROVE TypeOK'
  <2>1. Wanted => Choice \in Selection
    BY DEF Wanted, Choice, Selection, Demands
  <2>2. job' \in [Workers -> Jobs]
    <3>1. /\ [pc |-> "built", run |-> slot, sel |-> Choice] \in Jobs \/ ~Wanted
          /\ [pc |-> "built", run |-> slot, sel |-> NoSel] \in Jobs
      BY <2>1 DEF Jobs
    <3> QED
      BY <1>7, <3>1 DEF Select, Go
  <2>3. row' \in Demands /\ row'.enqueued <= row'.op
    <3>1. row.op \in 0..MaxRequests /\ row.enqueued \in 0..MaxRequests
      BY DEF Demands
    <3>2. CASE Wanted
      <4>1. row' = [row EXCEPT !.state = "scheduled", !.enqueued = row.op]
        BY <1>7, <3>2 DEF Select
      <4>2. row' \in Demands
        BY <3>1, <4>1 DEF Demands
      <4>3. row'.op = row.op /\ row'.enqueued = row.op
        BY <4>1 DEF Demands
      <4> QED
        BY <3>1, <4>2, <4>3
    <3>3. CASE ~Wanted
      BY <1>7, <3>1, <3>3 DEF Select, Demands
    <3> QED
      BY <3>2, <3>3
  <2> QED
    BY <1>7, <2>2, <2>3 DEF Select
<1>8. ASSUME NEW w \in Workers, CreateRun(w) PROVE TypeOK'
  <2>1. run' \in [Cutoffs -> Runs]
    <3>1. PICK version \in Target : run' =
            IF run[job[w].run].status = "none"
            THEN [run EXCEPT ![job[w].run] = [status |-> "open",
                                sel |-> job[w].sel, version |-> version]]
            ELSE run
      BY <1>8 DEF CreateRun
    <3>2. [status |-> "open", sel |-> job[w].sel, version |-> version] \in Runs
      BY <1>8 DEF Runs, Jobs
    <3> QED
      BY <3>1, <3>2
  <2>2. job' \in [Workers -> Jobs]
    BY <1>8 DEF CreateRun, Rest, Idle, Jobs
  <2> QED
    BY <1>8, <2>1, <2>2 DEF CreateRun
<1>9. ASSUME NEW w \in Workers, Mark(w) PROVE TypeOK'
  <2>1. job' \in [Workers -> Jobs]
    BY <1>9 DEF Mark, Go, Jobs
  <2>2. Answers(job[w].sel) => job[w].sel \in Selection
    BY <1>9 DEF Answers, Jobs
  <2>3. row' \in Demands /\ row'.enqueued <= row'.op
    BY <1>9, <2>2 DEF Mark, Demands, Selection
  <2> QED
    BY <1>9, <2>1, <2>3 DEF Mark
<1>10. ASSUME NEW w \in Workers, Release(w) PROVE TypeOK'
  BY <1>10 DEF Release, Rest, Idle, Jobs
<1>11. ASSUME NEW w \in Workers, Crash(w) PROVE TypeOK'
  BY <1>11 DEF Crash, Rest, Fault, Idle, Jobs
<1>12. ASSUME NEW w \in Workers, NEW n \in Cutoffs, Activate(w, n) PROVE TypeOK'
  <2>1. run' \in [Cutoffs -> Runs]
    <3>1. [run[n] EXCEPT !.status = "active"] \in Runs
      BY DEF Runs
    <3> QED
      BY <1>12, <3>1 DEF Activate
  <2>2. run[n].sel \in Selection \cup {NoSel} /\ n \in 0..MaxRuns
    BY DEF Runs, Cutoffs
  <2>3. /\ [pc |-> "mark", run |-> n, sel |-> run[n].sel] \in Jobs
        /\ [pc |-> "release", run |-> n, sel |-> NoSel] \in Jobs
    BY <2>2 DEF Jobs
  <2>4. job' \in [Workers -> Jobs]
    BY <1>12, <2>3 DEF Activate, Go
  <2> QED
    BY <1>12, <2>1, <2>2, <2>4 DEF Activate
<1>13. CASE UNCHANGED vars
  BY <1>13 DEF vars
<1> QED
  BY <1>1, <1>2, <1>3, <1>4, <1>5, <1>6, <1>7, <1>8, <1>9, <1>10, <1>11, <1>12,
     <1>13 DEF Next

-----------------------------------------------------------------------------
(* The slot *)

\* Every step keeps the slot exclusive.
LEMMA SlotStep ==
  ASSUME AtMostOneWorker, TypeOK, SlotIsExclusive, [Next]_vars
  PROVE  SlotIsExclusive'
<1> USE DemandAssumption
    DEF SlotIsExclusive, AtMostOneWorker, TypeOK, Cutoffs, Runs, Jobs,
        Unfinished, Idle, NoSel, history
<1>1. ASSUME NEW target \in Target, NEW op \in {0, 1}, Record(target, op)
      PROVE  SlotIsExclusive'
  BY <1>1 DEF Record
<1>2. CASE Cool
  BY <1>2 DEF Cool
<1>3. CASE Change
  BY <1>3 DEF Change
<1>4. ASSUME NEW n \in Cutoffs, Close(n) PROVE SlotIsExclusive'
  BY <1>4 DEF Close
<1>5. ASSUME NEW n \in Cutoffs, Suspend(n) PROVE SlotIsExclusive'
  BY <1>5 DEF Suspend
<1>6. ASSUME NEW w \in Workers, Envelope(w) PROVE SlotIsExclusive'
  BY <1>6 DEF Envelope
<1>7. ASSUME NEW w \in Workers, Select(w) PROVE SlotIsExclusive'
  BY <1>7 DEF Select, Go
<1>8. ASSUME NEW w \in Workers, CreateRun(w) PROVE SlotIsExclusive'
  BY <1>8 DEF CreateRun, Rest
<1>9. ASSUME NEW w \in Workers, Mark(w) PROVE SlotIsExclusive'
  BY <1>9 DEF Mark, Go
<1>10. ASSUME NEW w \in Workers, Release(w) PROVE SlotIsExclusive'
  BY <1>10 DEF Release, Rest
<1>11. ASSUME NEW w \in Workers, Crash(w) PROVE SlotIsExclusive'
  BY <1>11 DEF Crash, Rest
<1>12. ASSUME NEW w \in Workers, NEW n \in Cutoffs, Activate(w, n)
       PROVE  SlotIsExclusive'
  BY <1>12 DEF Activate, Go
<1>13. CASE UNCHANGED vars
  BY <1>13 DEF vars
<1> QED
  BY <1>1, <1>2, <1>3, <1>4, <1>5, <1>6, <1>7, <1>8, <1>9, <1>10, <1>11, <1>12,
     <1>13 DEF Next

-----------------------------------------------------------------------------
(* Selections under way *)

\* These steps neither start nor end the way of a selection.
LEMMA SelectionsStay ==
  ASSUME TypeOK, TypeOK', SlotIsExclusive,
         \/ job' = job /\ run' = run
         \/ \E n \in Cutoffs : Close(n)
         \/ \E n \in Cutoffs : Suspend(n) /\ ~lost'
         \/ \E w \in Workers : (CreateRun(w) \/ Crash(w)) /\ ~lost'
         \/ \E w \in Workers : Release(w)
         \/ \E w \in Workers, n \in Cutoffs : Activate(w, n)
  PROVE  \A sel \in Selection : Underway(sel)' <=> Underway(sel)
<1> USE DemandAssumption, NothingIsNoSelection
    DEF TypeOK, Underway, Unfinished, Idle
<1> SUFFICES ASSUME NEW sel \in Selection
             PROVE  Underway(sel)' <=> Underway(sel)
  OBVIOUS
<1>0. sel # NoSel
  BY NothingIsNoSelection
<1>1. CASE job' = job /\ run' = run
  BY <1>1
<1>2. ASSUME NEW n \in Cutoffs, Close(n)
      PROVE  Underway(sel)' <=> Underway(sel)
  <2>1. job' = job
    BY <1>2 DEF Close
  <2>2. \A m \in Cutoffs : run'[m].sel = run[m].sel
                          /\ (Unfinished(m)' <=> Unfinished(m))
    BY <1>2 DEF Close, Runs
  <2> QED
    BY <2>1, <2>2
<1>3. ASSUME NEW n \in Cutoffs, Suspend(n), ~lost'
      PROVE  Underway(sel)' <=> Underway(sel)
  <2>1. job' = job /\ run[n].sel = NoSel
    BY <1>3 DEF Suspend
  <2>2. \A m \in Cutoffs : /\ run'[m].sel = run[m].sel
                           /\ m # n => (Unfinished(m)' <=> Unfinished(m))
    BY <1>3 DEF Suspend, Runs
  <2> QED
    BY <1>0, <2>1, <2>2
<1>4. ASSUME NEW w \in Workers, CreateRun(w), ~lost'
      PROVE  Underway(sel)' <=> Underway(sel)
  <2>0. PICK m \in Cutoffs : m = job[w].run
    BY <1>4 DEF CreateRun, SlotIsExclusive
  <2>1. /\ \A v \in Workers \ {w} : job'[v] = job[v]
        /\ job'[w].sel = NoSel
    BY <1>4 DEF CreateRun, Rest, SlotIsExclusive, Jobs
  <2>2. CASE run[m].status = "none"
    <3>1. /\ \A n \in Cutoffs \ {m} : run'[n] = run[n]
          /\ run'[m].status = "open" /\ run'[m].sel = job[w].sel
      BY <1>4, <2>0, <2>2 DEF CreateRun
    <3>2. ~Unfinished(m) /\ Unfinished(m)'
      BY <2>2, <3>1
    <3> QED
      BY <1>0, <2>1, <3>1, <3>2
  <2>3. CASE run[m].status # "none"
    <3>1. run' = run /\ job[w].sel = NoSel
      BY <1>4, <2>0, <2>3 DEF CreateRun
    <3> QED
      BY <1>0, <2>1, <3>1
  <2> QED
    BY <2>2, <2>3
<1>5. ASSUME NEW w \in Workers, Crash(w), ~lost'
      PROVE  Underway(sel)' <=> Underway(sel)
  BY <1>0, <1>5 DEF Crash, Rest
<1>6. ASSUME NEW w \in Workers, Release(w)
      PROVE  Underway(sel)' <=> Underway(sel)
  BY <1>0, <1>6 DEF Release, Rest, SlotIsExclusive
<1>7. ASSUME NEW w \in Workers, NEW n \in Cutoffs, Activate(w, n)
      PROVE  Underway(sel)' <=> Underway(sel)
  <2>1. job[w].sel = NoSel
    BY <1>7 DEF Activate
  <2>2. CASE run[n].status = "closed"
    <3>1. /\ \A v \in Workers \ {w} : job'[v] = job[v]
          /\ job'[w].sel = run[n].sel
      BY <1>7, <2>2 DEF Activate, Go
    <3>2. /\ \A m \in Cutoffs \ {n} : run'[m] = run[m]
          /\ Unfinished(n) /\ ~Unfinished(n)'
      BY <1>7, <2>2 DEF Activate, Runs
    <3> QED
      BY <1>0, <2>1, <3>1, <3>2
  <2>3. CASE run[n].status # "closed"
    BY <1>0, <1>7, <2>1, <2>3 DEF Activate, Go
  <2> QED
    BY <2>2, <2>3
<1> QED
  BY <1>1, <1>2, <1>3, <1>4, <1>5, <1>6, <1>7

\* A selection is the only one on its way.
LEMMA SelectionStarts ==
  ASSUME AtMostOneWorker, TypeOK, TypeOK', SlotIsExclusive,
         NEW w \in Workers, Select(w),
         NEW sel \in Selection
  PROVE  Underway(sel)' <=> Wanted /\ sel = Choice
<1> USE DemandAssumption, NothingIsNoSelection
    DEF TypeOK, Underway, Unfinished, AtMostOneWorker
<1>1. \A n \in Cutoffs : ~Unfinished(n)'
  BY DEF Select, SlotIsExclusive
<1>2. job'[w].sel = IF Wanted THEN Choice ELSE NoSel
  BY DEF Select, Go
<1> QED
  BY <1>1, <1>2

\* With the note the way ends.
LEMMA SelectionEnds ==
  ASSUME AtMostOneWorker, TypeOK, TypeOK', SlotIsExclusive,
         NEW w \in Workers, Mark(w), job[w].sel # NoSel
  PROVE  /\ job[w].sel \in Selection
         /\ Underway(job[w].sel)
         /\ \A sel \in Selection : ~Underway(sel)'
<1> USE DemandAssumption, NothingIsNoSelection
    DEF TypeOK, Underway, Unfinished, AtMostOneWorker
<1>1. job[w].sel \in Selection
  BY DEF Jobs
<1>2. \A n \in Cutoffs : ~Unfinished(n)'
  BY DEF Mark, SlotIsExclusive
<1>3. job'[w].sel = NoSel
  BY DEF Mark, Go
<1> QED
  BY <1>1, <1>2, <1>3

-----------------------------------------------------------------------------
(* What was concluded *)

\* Only an activation concludes and only a worker that is idle activates.
LEMMA MarkedStep ==
  ASSUME AtMostOneWorker, TypeOK, MarkedIsConcluded, [Next]_vars
  PROVE  MarkedIsConcluded'
<1> USE DemandAssumption
    DEF AtMostOneWorker, TypeOK, MarkedIsConcluded, history, Idle
<1>1. CASE \E target \in Target, op \in {0, 1} : Record(target, op)
  BY <1>1 DEF Record
<1>2. CASE Cool \/ Change
  BY <1>2 DEF Cool, Change
<1>3. ASSUME NEW n \in Cutoffs, Close(n) \/ Suspend(n)
      PROVE  MarkedIsConcluded'
  BY <1>3 DEF Close, Suspend
<1>4. ASSUME NEW w \in Workers,
             \/ Envelope(w) \/ Select(w) \/ CreateRun(w)
             \/ Mark(w) \/ Release(w) \/ Crash(w)
      PROVE  MarkedIsConcluded'
  BY <1>4 DEF Envelope, Select, CreateRun, Mark, Release, Crash, Go, Rest
<1>5. ASSUME NEW w \in Workers, NEW n \in Cutoffs, Activate(w, n)
      PROVE  MarkedIsConcluded'
  BY <1>5 DEF Activate, Go
<1>6. CASE UNCHANGED vars
  BY <1>6 DEF vars
<1> QED
  BY <1>1, <1>2, <1>3, <1>4, <1>5, <1>6 DEF Next

\* Steps that leave the row and what was concluded alone.
LEMMA NothingIsNoted ==
  ASSUME PrintIsConcluded, ConcludedIsPrint,
         \A sel \in Selection : Underway(sel)' <=> Underway(sel),
         row'.target = row.target, row'.print = row.print,
         row'.op = row.op, row'.enqueued = row.enqueued,
         concluded' = concluded \/ Waiting,
         lost => lost', renewed' = renewed
  PROVE  PrintIsConcluded' /\ ConcludedIsPrint'
<1>1. Waiting' <=> Waiting
  BY DEF Waiting
<1> QED
  BY <1>1
     DEF PrintIsConcluded, ConcludedIsPrint, Claimed, UpToDate, Recorded,
         Enqueued

\* Every step keeps the row and what was concluded in agreement: only a
\* selection, a note and a new release change what they agree on.
LEMMA ConcludedStep ==
  ASSUME AtMostOneWorker, DemandInvariant, TypeOK', [Next]_vars
  PROVE  PrintIsConcluded' /\ ConcludedIsPrint'
<1> DEFINE Goal == PrintIsConcluded' /\ ConcludedIsPrint'
           Same == \A sel \in Selection : Underway(sel)' <=> Underway(sel)
<1>0. /\ TypeOK /\ SlotIsExclusive
      /\ MarkedIsConcluded /\ PrintIsConcluded /\ ConcludedIsPrint
  BY DEF DemandInvariant
<1> HIDE DEF Goal, Same
<1>a. lost' => Goal
  BY DEF Goal, PrintIsConcluded, ConcludedIsPrint
<1>1. ASSUME NEW target \in Target, NEW op \in {0, 1}, Record(target, op)
      PROVE  Goal
  <2>1. Same
    BY <1>0, <1>1, SelectionsStay DEF Record, Same
  <2>2. Waiting' <=> Waiting
    BY <2>1 DEF Waiting, Same
  <2>3. /\ row.op \in 0..MaxRequests /\ row.enqueued \in 0..MaxRequests
        /\ row.enqueued <= row.op /\ None \notin Target
    BY <1>0, DemandAssumption DEF TypeOK, Demands
  <2>4. CASE row.target = target
    <3>1. row' = Again(target, op)
      BY <1>1, <2>3, <2>4 DEF Record
    <3>2. /\ row'.target = row.target /\ row'.print = row.print
          /\ row'.enqueued = row.enqueued /\ row'.op = row.op + op
      BY <1>0, <2>4, <3>1 DEF Again, TypeOK, Demands
    <3>3. op = 0 \/ row'.op # row'.enqueued
      BY <2>3, <3>2
    <3>4. CASE op = 0
      <4>1. row'.op = row.op
        BY <2>3, <3>2, <3>4
      <4>2. lost' = lost /\ renewed' = renewed /\ concluded' = concluded
        BY <1>0, <1>1, <2>4 DEF Record, TypeOK
      <4> QED
        BY <1>0, <2>1, <3>2, <4>1, <4>2, NothingIsNoted DEF Same, Goal
    <3>5. CASE row'.op # row'.enqueued
      BY <1>0, <1>1, <2>1, <2>2, <2>4, <3>2, <3>5
         DEF Record, Same, Goal, PrintIsConcluded, ConcludedIsPrint, Claimed,
             UpToDate, Enqueued
    <3> QED
      BY <3>3, <3>4, <3>5
  <2>5. CASE row.target # target
    <3>1. row'.print = None
      BY <1>0, <1>1, <2>5 DEF Record, Again, NoDemand, TypeOK, Demands
    <3>2. PrintIsConcluded'
      BY <3>1 DEF PrintIsConcluded, Claimed, UpToDate
    <3>3. CASE row.target # None
      BY <1>1, <2>5, <3>2, <3>3 DEF Record, Goal, ConcludedIsPrint
    <3>4. CASE row.target = None
      <4>1. \A sel \in Selection : ~Enqueued(sel)
        BY <2>3, <3>4 DEF Enqueued, Selection
      <4>2. concluded \in Selection \/ concluded = NoSel
        BY <1>0 DEF TypeOK
      <4>3. CASE lost \/ renewed
        BY <1>1, <3>2, <4>3 DEF Record, Goal, ConcludedIsPrint
      <4>4. CASE ~lost /\ ~renewed
        <5>1. ~Waiting /\ concluded = NoSel
          BY <1>0, <4>1, <4>2, <4>4 DEF ConcludedIsPrint, Waiting
        <5> QED
          BY <1>1, <2>1, <2>2, <3>2, <5>1
             DEF Record, Goal, Same, ConcludedIsPrint, Waiting
      <4> QED
        BY <4>3, <4>4
    <3> QED
      BY <3>3, <3>4
  <2> QED
    BY <2>4, <2>5
<1>2. CASE Cool
  <2>1. Same
    BY <1>0, <1>2, SelectionsStay DEF Cool, Same
  <2>2. /\ row'.target = row.target /\ row'.print = row.print
        /\ row'.op = row.op /\ row'.enqueued = row.enqueued
    BY <1>0, <1>2 DEF Cool, TypeOK, Demands
  <2> QED
    BY <1>0, <1>2, <2>1, <2>2, NothingIsNoted DEF Cool, history, Goal, Same
<1>3. CASE Change
  <2>1. Same
    BY <1>0, <1>3, SelectionsStay DEF Change, Same
  <2> QED
    BY <1>0, <1>3, <2>1, NothingIsNoted DEF Change, history, Goal, Same
<1>4. ASSUME NEW n \in Cutoffs, Close(n) PROVE Goal
  <2>1. Same
    BY <1>0, <1>4, SelectionsStay DEF Same
  <2> QED
    BY <1>0, <1>4, <2>1, NothingIsNoted DEF Close, history, Goal, Same
<1>5. ASSUME NEW n \in Cutoffs, Suspend(n) PROVE Goal
  <2> SUFFICES ASSUME ~lost' PROVE Goal
    BY <1>a
  <2>1. Same
    BY <1>0, <1>5, SelectionsStay DEF Same
  <2> QED
    BY <1>0, <1>5, <2>1, NothingIsNoted DEF Suspend, Goal, Same
<1>6. ASSUME NEW w \in Workers, Envelope(w) PROVE Goal
  <2>1. Same
    BY <1>0, <1>6, SelectionsStay DEF Envelope, Same
  <2> QED
    BY <1>0, <1>6, <2>1, NothingIsNoted DEF Envelope, history, Goal, Same
<1>7. ASSUME NEW w \in Workers, Select(w) PROVE Goal
  <2>1. \A sel \in Selection : Underway(sel)' <=> Wanted /\ sel = Choice
    BY <1>0, <1>7, SelectionStarts
  <2>2. CASE Wanted
    <3>1. /\ row'.target = row.target /\ row'.op = row.op
          /\ row'.enqueued = row.op
      BY <1>0, <1>7, <2>2 DEF Select, TypeOK, Demands
    <3>2. Choice \in Selection
      BY <1>0, <2>2 DEF Choice, Wanted, TypeOK, Selection, Demands
    <3>3. Waiting'
      BY <2>1, <2>2, <3>2 DEF Waiting
    <3>4. \A sel \in Selection : Underway(sel)' =>
            sel.target = row'.target /\ sel.op = row'.op
      BY <2>1, <3>1 DEF Choice
    <3> QED
      BY <3>1, <3>3, <3>4
         DEF Goal, PrintIsConcluded, ConcludedIsPrint, Claimed, Enqueued
  <2>3. CASE ~Wanted
    <3>1. \A sel \in Selection : ~Underway(sel)
      BY <1>0, <1>7, NothingIsNoSelection
         DEF Select, SlotIsExclusive, Underway, Unfinished, Idle,
             AtMostOneWorker
    <3>2. Same
      BY <2>1, <2>3, <3>1 DEF Same
    <3>3. /\ row'.target = row.target /\ row'.print = row.print
          /\ row'.op = row.op /\ row'.enqueued = row.enqueued
      BY <1>0, <1>7, <2>3 DEF Select, TypeOK, Demands
    <3>4. lost' = lost /\ renewed' = renewed /\ concluded' = concluded
      BY <1>0, <1>7, <2>3 DEF Select, TypeOK
    <3> QED
      BY <1>0, <3>2, <3>3, <3>4, NothingIsNoted DEF Goal, Same
  <2> QED
    BY <2>2, <2>3
<1>8. ASSUME NEW w \in Workers, CreateRun(w) PROVE Goal
  <2> SUFFICES ASSUME ~lost' PROVE Goal
    BY <1>a
  <2>1. Same
    BY <1>0, <1>8, SelectionsStay DEF Same
  <2> QED
    BY <1>0, <1>8, <2>1, NothingIsNoted DEF CreateRun, Goal, Same
<1>9. ASSUME NEW w \in Workers, Mark(w) PROVE Goal
  <2>1. lost' = lost /\ renewed' = renewed /\ concluded' = concluded
    BY <1>9 DEF Mark, history
  <2>2. CASE job[w].sel = NoSel
    <3>1. row' = row /\ run' = run /\ job'[w].sel = NoSel
      BY <1>0, <1>9, <2>2 DEF Mark, Answers, Go, TypeOK
    <3>2. Same
      BY <1>0, <1>9, <2>2, <3>1
         DEF Mark, Go, Same, Underway, Unfinished, TypeOK
    <3> QED
      BY <1>0, <2>1, <3>1, <3>2, NothingIsNoted DEF Goal, Same
  <2>3. CASE job[w].sel # NoSel
    <3>1. PICK sel \in Selection : sel = job[w].sel
      BY <1>0, <1>9, <2>3, SelectionEnds
    <3>2. Underway(sel) /\ (\A any \in Selection : ~Underway(any)')
      BY <1>0, <1>9, <2>3, <3>1, SelectionEnds
    <3>3. concluded = sel /\ ~Waiting'
      BY <1>0, <1>9, <2>3, <3>1, <3>2 DEF MarkedIsConcluded, Mark, Waiting
    <3>4. /\ row'.target = row.target /\ row'.op = row.op
          /\ row'.enqueued = row.enqueued
      BY <1>0, <1>9 DEF Mark, TypeOK, Demands
    <3>5. CASE Answers(sel)
      <4>1. row'.print = sel.print
        BY <1>0, <1>9, <3>1, <3>5 DEF Mark, TypeOK, Demands
      <4>2. Recorded' = sel
        BY <3>4, <3>5, <4>1 DEF Recorded, Answers, Selection
      <4>3. Enqueued(sel)' <=> Enqueued(sel)
        BY <3>4 DEF Enqueued
      <4>4. PrintIsConcluded'
        BY <2>1, <3>2, <3>3, <4>2 DEF PrintIsConcluded
      <4>5. ConcludedIsPrint'
        BY <1>0, <2>1, <3>2, <3>3, <3>4, <4>1
           DEF ConcludedIsPrint, Enqueued
      <4> QED
        BY <4>4, <4>5 DEF Goal
    <3>6. CASE ~Answers(sel)
      <4>1. row' = row
        BY <1>9, <3>1, <3>6 DEF Mark
      <4>2. row.target # sel.target \/ row.op # sel.op
        BY <2>3, <3>1, <3>6 DEF Answers
      <4>3. ~lost => ~UpToDate
        BY <1>0, <3>2, <4>2 DEF PrintIsConcluded, Claimed
      <4>4. PrintIsConcluded'
        BY <2>1, <3>2, <4>1, <4>3 DEF PrintIsConcluded, UpToDate
      <4>5. ConcludedIsPrint'
        BY <1>0, <2>1, <3>2, <3>3, <4>1, <4>2
           DEF ConcludedIsPrint, Enqueued
      <4> QED
        BY <4>4, <4>5 DEF Goal
    <3> QED
      BY <3>5, <3>6
  <2> QED
    BY <2>2, <2>3
<1>10. ASSUME NEW w \in Workers, Release(w) PROVE Goal
  <2>1. Same
    BY <1>0, <1>10, SelectionsStay DEF Same
  <2> QED
    BY <1>0, <1>10, <2>1, NothingIsNoted DEF Release, history, Goal, Same
<1>11. ASSUME NEW w \in Workers, Crash(w) PROVE Goal
  <2> SUFFICES ASSUME ~lost' PROVE Goal
    BY <1>a
  <2>1. Same
    BY <1>0, <1>11, SelectionsStay DEF Same
  <2> QED
    BY <1>0, <1>11, <2>1, NothingIsNoted DEF Crash, Goal, Same
<1>12. ASSUME NEW w \in Workers, NEW n \in Cutoffs, Activate(w, n)
       PROVE  Goal
  <2>1. Same
    BY <1>0, <1>12, SelectionsStay DEF Same
  <2>2. concluded' = concluded \/ Waiting
    <3>1. CASE run[n].status = "closed" /\ run[n].sel # NoSel
      <4>1. run[n].sel \in Selection
        BY <1>0, <3>1 DEF TypeOK, Runs
      <4> QED
        BY <3>1, <4>1 DEF Waiting, Underway, Unfinished
    <3>2. CASE ~(run[n].status = "closed" /\ run[n].sel # NoSel)
      BY <1>12, <3>2 DEF Activate
    <3> QED
      BY <3>1, <3>2
  <2> QED
    BY <1>0, <1>12, <2>1, <2>2, NothingIsNoted DEF Activate, Goal, Same
<1>13. CASE UNCHANGED vars
  <2>1. Same
    BY <1>0, <1>13, SelectionsStay DEF vars, Same
  <2> QED
    BY <1>0, <1>13, <2>1, NothingIsNoted DEF vars, history, Goal, Same
<1> QED
  BY <1>1, <1>2, <1>3, <1>4, <1>5, <1>6, <1>7, <1>8, <1>9, <1>10, <1>11,
     <1>12, <1>13 DEF Next, Goal

\* Every step keeps the row of a hot brand.
LEMMA HotStep ==
  ASSUME TypeOK, HotIsAsked, [Next]_vars
  PROVE  HotIsAsked'
<1> USE DemandAssumption DEF TypeOK, HotIsAsked, history
<1>1. ASSUME NEW target \in Target, NEW op \in {0, 1}, Record(target, op)
      PROVE  HotIsAsked'
  <2>1. row'.target = target
    BY <1>1 DEF Record, Again, NoDemand, Demands
  <2> QED
    BY <2>1
<1>2. ASSUME NEW w \in Workers, Select(w) \/ Mark(w)
      PROVE  HotIsAsked'
  <2>1. row'.hot = row.hot /\ row'.target = row.target
    BY <1>2 DEF Select, Mark, Demands
  <2> QED
    BY <2>1
<1>3. CASE Cool
  BY <1>3 DEF Cool, Demands
<1>4. CASE row' = row
  BY <1>4
<1>5. ASSUME NEW n \in Cutoffs, Close(n) \/ Suspend(n)
      PROVE  HotIsAsked'
  BY <1>4, <1>5 DEF Close, Suspend
<1>6. ASSUME NEW w \in Workers,
             Envelope(w) \/ CreateRun(w) \/ Release(w) \/ Crash(w)
      PROVE  HotIsAsked'
  BY <1>4, <1>6 DEF Envelope, CreateRun, Release, Crash
<1>7. ASSUME NEW w \in Workers, NEW n \in Cutoffs, Activate(w, n)
      PROVE  HotIsAsked'
  BY <1>4, <1>7 DEF Activate
<1>8. CASE Change \/ UNCHANGED vars
  BY <1>4, <1>8 DEF Change, vars
<1> QED
  BY <1>1, <1>2, <1>3, <1>5, <1>6, <1>7, <1>8 DEF Next

-----------------------------------------------------------------------------
(* The theorems *)

\* The invariant holds at the start.
LEMMA DemandInit == Init => DemandInvariant
<1> SUFFICES ASSUME Init PROVE DemandInvariant
  OBVIOUS
<1>1. TypeOK
  <2>1. row \in Demands /\ row.enqueued <= row.op
    BY DemandAssumption DEF Init, NoDemand, Demands
  <2>2. NoRun \in Runs
    BY DEF NoRun, Runs
  <2>3. Idle \in Jobs
    BY DemandAssumption DEF Idle, Jobs
  <2>4. run \in [Cutoffs -> Runs] /\ job \in [Workers -> Jobs]
    BY <2>2, <2>3 DEF Init
  <2>5. /\ material \in Material /\ cutoff \in 0..MaxRuns
        /\ slot \in 0..MaxRuns /\ faults \in 0..MaxFaults
        /\ concluded \in Selection \cup {NoSel}
    BY DemandAssumption DEF Init
  <2>6. lost \in BOOLEAN /\ renewed \in BOOLEAN
    BY DEF Init
  <2> QED
    BY <2>1, <2>4, <2>5, <2>6 DEF TypeOK
<1>2. SlotIsExclusive /\ HotIsAsked /\ MarkedIsConcluded
  BY DEF Init, SlotIsExclusive, HotIsAsked, MarkedIsConcluded, NoDemand, NoRun,
         Idle, Unfinished
<1>3. \A sel \in Selection : ~Underway(sel)
  BY NothingIsNoSelection DEF Init, Underway, Unfinished, NoRun, Idle
<1>4. PrintIsConcluded /\ ConcludedIsPrint
  BY <1>3 DEF Init, PrintIsConcluded, ConcludedIsPrint, UpToDate, NoDemand
<1> QED
  BY <1>1, <1>2, <1>4 DEF DemandInvariant

\* The demand row, the runs and the workers have their types.
THEOREM DemandTypeCorrect == Spec => []TypeOK
<1>1. Init => TypeOK
  BY DemandInit DEF DemandInvariant
<1>2. TypeOK /\ [Next]_vars => TypeOK'
  BY DemandTypeStep
<1> QED
  BY <1>1, <1>2, PTL DEF Spec

\* The invariant holds in every reachable state.
THEOREM DemandInvariantHolds ==
  ASSUME AtMostOneWorker
  PROVE  Spec => []DemandInvariant
<1>1. Init => DemandInvariant
  BY DemandInit
<1>2. DemandInvariant /\ [Next]_vars => DemandInvariant'
  BY DemandTypeStep, SlotStep, HotStep, MarkedStep, ConcludedStep
     DEF DemandInvariant
<1> QED
  BY <1>1, <1>2, PTL DEF Spec

\* A decision about a brand is a selection with nothing else under way.
LEMMA DecisionIsSelection ==
  ASSUME AtMostOneWorker, DemandInvariant, [Next]_vars,
         NEW w \in Workers, Considers(w)
  PROVE  Select(w) /\ ~Waiting
<1> USE DEF Considers, DemandInvariant, TypeOK, Idle
<1>1. Select(w)
  <2>1. job' # job
    OBVIOUS
  <2>2. ASSUME NEW v \in Workers, Select(v) PROVE v = w
    BY DEF AtMostOneWorker
  <2>3. ASSUME NEW v \in Workers,
               CreateRun(v) \/ Mark(v) \/ Release(v) \/ Crash(v)
        PROVE  FALSE
    BY <2>3 DEF CreateRun, Mark, Release, Crash, Go, Rest, AtMostOneWorker
  <2>4. ASSUME NEW v \in Workers, NEW n \in Cutoffs, Activate(v, n)
        PROVE  FALSE
    BY <2>4 DEF Activate, Go, AtMostOneWorker
  <2> QED
    BY <2>1, <2>2, <2>3, <2>4
       DEF Next, Record, Cool, Change, Close, Suspend, Envelope, vars
<1>2. ~Waiting
  BY <1>1, NothingIsNoSelection
     DEF Select, SlotIsExclusive, Waiting, Underway, Unfinished,
         AtMostOneWorker
<1> QED
  BY <1>1, <1>2

\* select_demanded_snapshot: a brand is left out as unchanged only if the last
\* active run that selected it did so for what a selection would ask for now,
\* whatever comes between the decision, the run, its activation and the note.
\* The outcome of that run, a text or a held narrative, makes no difference.
THEOREM UnchangedWasConcluded ==
  ASSUME AtMostOneWorker
  PROVE  Spec => SuppressedWasConcluded
<1> DEFINE Right == \A w \in Workers :
             Considers(w) /\ job'[w].sel = NoSel /\ ~lost => concluded = Choice
<1>1. DemandInvariant /\ [Next]_vars => [Right]_vars
  <2> SUFFICES ASSUME DemandInvariant, [Next]_vars,
                      NEW w \in Workers,
                      Considers(w), job'[w].sel = NoSel, ~lost
               PROVE  concluded = Choice
    OBVIOUS
  <2>1. Select(w) /\ ~Waiting
    BY DecisionIsSelection
  <2>2. ~Wanted
    BY <2>1, DemandAssumption
       DEF Select, Go, Choice, NoSel, DemandInvariant, TypeOK
  <2>3. row.hot /\ row.target # None
    BY DEF Considers, DemandInvariant, HotIsAsked
  <2>4. row.print = material /\ ~(row.op > row.enqueued)
    BY <2>2, <2>3 DEF Wanted
  <2>5. row.op = row.enqueued /\ row.print # None
    BY <2>4, DemandAssumption DEF DemandInvariant, TypeOK, Demands
  <2> QED
    BY <2>1, <2>4, <2>5
       DEF DemandInvariant, PrintIsConcluded, UpToDate, Recorded, Choice
<1> QED
  BY <1>1, DemandInvariantHolds, PTL DEF Spec, SuppressedWasConcluded

\* mark_run_demands_satisfied: what was concluded last is not generated again
\* unless its selection or its note was lost or the release changed.
THEOREM ConcludedIsNotRepeated ==
  ASSUME AtMostOneWorker
  PROVE  Spec => ConcludedIsSuppressed
<1> DEFINE Right == \A w \in Workers :
             Considers(w) /\ job'[w].sel # NoSel /\ ~lost /\ ~renewed
               => concluded # Choice
<1>1. DemandInvariant /\ [Next]_vars => [Right]_vars
  <2> SUFFICES ASSUME DemandInvariant, [Next]_vars, NEW w \in Workers,
                      Considers(w), job'[w].sel # NoSel, ~lost, ~renewed,
                      concluded = Choice
               PROVE  FALSE
    OBVIOUS
  <2>1. Select(w) /\ ~Waiting
    BY DecisionIsSelection
  <2>2. Wanted
    BY <2>1 DEF Select, Go, DemandInvariant, TypeOK
  <2>3. concluded # NoSel
    BY DemandAssumption DEF Choice, NoSel, DemandInvariant, TypeOK
  <2>4. /\ Enqueued(concluded)
        /\ row.op = row.enqueued => row.print = concluded.print
    BY <2>1, <2>3 DEF DemandInvariant, ConcludedIsPrint
  <2>5. row.op = row.enqueued /\ row.print = material
    BY <2>4 DEF Enqueued, Choice
  <2>6. row.op \in 0..MaxRequests
    BY DEF DemandInvariant, TypeOK, Demands
  <2> QED
    BY <2>2, <2>5, <2>6 DEF Wanted
<1> QED
  BY <1>1, DemandInvariantHolds, PTL DEF Spec, ConcludedIsSuppressed

=============================================================================
