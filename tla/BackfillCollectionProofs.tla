----------------------- MODULE BackfillCollectionProofs -----------------------
(***************************************************************************)
(* Proofs about BackfillCollection and the WriterLock it competes for, for *)
(* every set of executors and live harvests, number of scopes, pages, runs *)
(* and requests: type correctness, cursors and stored posts that agree,    *)
(* completed jobs that are drained, live harvests that wait for one page   *)
(* at most, requests that are accounted for before they are sent, and      *)
(* pages that are paid for again only after they were lost.                *)
(***************************************************************************)
EXTENDS BackfillCollection, SequenceTheorems, FiniteSetTheorems, TLAPS

AtPage   == {"locked", "reserved", "answered", "release"}
Claimed(w) == exec[w].pc \notin {"idle", "probed"}

-----------------------------------------------------------------------------
(* The inductive invariant, in parts *)

\* Who is at a page has the lock, and so has a live harvest that harvests.
LockIsHeld ==
  /\ \A w \in Backfillers : exec[w].pc \in AtPage => owner = w
  /\ \A h \in Lives : live[h] = "harvesting" => owner = h

\* A live harvest that waits is in the queue, or has been handed the lock.
WaitingIsQueued == \A h \in Lives : live[h] = "waiting" =>
  owner = h \/ \E i \in 1..Len(queue) : queue[i] = h

\* Requests are counted only against a harvest that waits, and none while the
\* one request is out that was reserved when no harvest waited.
AheadIsCounted ==
  /\ \A h \in Lives : live[h] # "waiting" => ahead[h] = 0
  /\ \A w \in Backfillers : At(w, "reserved") => \A h \in Lives : ahead[h] = 0

LockInvariant == /\ LockIsHeld
                 /\ WaitingIsQueued
                 /\ AheadIsCounted
                 /\ LiveWaitsForOnePage

\* What is stored is a function of the scopes.
ScopesAreKept == stored = [s \in Scopes |-> stored[s]]

\* Nothing is stored before the first run.
NothingIsEarly == runs = <<>> => \A s \in Scopes : stored[s] = {}

\* An executor works on a run of its own, and knows of no run to come.
RunsAreTheirs ==
  /\ \A w \in Backfillers : /\ exec[w].last <= Len(runs)
                            /\ Claimed(w) => exec[w].run \in 1..Len(runs)
  /\ \A v, w \in Backfillers : Claimed(v) /\ Claimed(w) /\ v # w =>
                                 exec[v].run # exec[w].run

\* Only the newest run is ever the active one.
ActiveIsNewest == job.active \in {0, Len(runs)}

\* The page that is asked for exists: only its executor moves the cursor.
PageIsOpen == \A w \in Backfillers :
  exec[w].pc \in {"locked", "reserved", "answered"} =>
    Mine(w).cursor[exec[w].scope] < Pages[exec[w].scope]

\* The scopes that an operator may retry were blocked in an earlier run, which
\* keeps them.
RetriedWasBlocked == \A w \in Backfillers : At(w, "claimed") =>
  \A s \in Mine(w).blocked :
    \E r \in 1..(exec[w].run - 1) : s \in runs[r].blocked

RunInvariant == /\ ScopesAreKept
                /\ NothingIsEarly
                /\ RunsAreTheirs
                /\ ActiveIsNewest
                /\ PageIsOpen
                /\ RetriedWasBlocked
                /\ StoredUpToCursor
                /\ CompletedIsDrained

CollectionInvariant == TypeOK /\ LockInvariant /\ RunInvariant

-----------------------------------------------------------------------------
(* Types *)

PCs == {"idle", "probed", "claimed", "choosing", "locked", "reserved",
        "answered", "release", "finishing"}

\* Updates of what an executor does are such.
LEMMA ExecUpdates ==
  ASSUME NEW e \in Exec
  PROVE  /\ Idle \in Exec
         /\ \A x \in PCs : [e EXCEPT !.pc = x] \in Exec
         /\ \A x \in PCs, n \in 0..MaxRuns :
              /\ [e EXCEPT !.pc = x, !.last = n] \in Exec
              /\ [e EXCEPT !.pc = x, !.run = n] \in Exec
         /\ \A x \in PCs, s \in Scopes :
              /\ [e EXCEPT !.pc = x, !.scope = s] \in Exec
         /\ \A d \in SUBSET Scopes :
              [e EXCEPT !.pc = "release", !.error = TRUE, !.deferred = d]
                \in Exec
         /\ \A b \in BOOLEAN :
              [e EXCEPT !.pc = "release", !.error = TRUE, !.stop = TRUE,
                        !.cool = b] \in Exec
<1> USE CollectionAssumption
<1>1. Idle \in Exec
  BY DEF Idle, Exec, Scopes
<1>2. \A x \in PCs : [e EXCEPT !.pc = x] \in Exec
  BY DEF Exec, PCs
<1>3. \A x \in PCs, n \in 0..MaxRuns :
        /\ [e EXCEPT !.pc = x, !.last = n] \in Exec
        /\ [e EXCEPT !.pc = x, !.run = n] \in Exec
  BY DEF Exec, PCs
<1>4. \A x \in PCs, s \in Scopes : [e EXCEPT !.pc = x, !.scope = s] \in Exec
  BY DEF Exec, PCs
<1>5. \A d \in SUBSET Scopes :
        [e EXCEPT !.pc = "release", !.error = TRUE, !.deferred = d] \in Exec
  BY DEF Exec
<1>6. \A b \in BOOLEAN :
        [e EXCEPT !.pc = "release", !.error = TRUE, !.stop = TRUE, !.cool = b]
          \in Exec
  BY DEF Exec
<1> QED
  BY <1>1, <1>2, <1>3, <1>4, <1>5, <1>6

\* Updates of a run are runs.
LEMMA RunUpdates ==
  ASSUME NEW r \in Run
  PROVE  /\ \A x \in {"running", "aborted", "partial", "failed", "success"} :
              /\ [r EXCEPT !.status = x] \in Run
              /\ [r EXCEPT !.status = x, !.live = FALSE] \in Run
         /\ [r EXCEPT !.live = FALSE] \in Run
         /\ \A B \in SUBSET Scopes :
              /\ [r EXCEPT !.blocked = B] \in Run
              /\ [r EXCEPT !.imported = TRUE, !.blocked = B] \in Run
         /\ \A n \in 0..RunRequests : [r EXCEPT !.requests = n] \in Run
         /\ \A s \in Scopes, n \in Nat :
              n <= Pages[s] => [r EXCEPT !.cursor[s] = n] \in Run
<1>1. \A s \in Scopes, n \in Nat :
        n <= Pages[s] => [r EXCEPT !.cursor[s] = n] \in Run
  <2> SUFFICES ASSUME NEW s \in Scopes, NEW n \in Nat, n <= Pages[s]
               PROVE  [r EXCEPT !.cursor[s] = n] \in Run
    OBVIOUS
  <2> DEFINE c == [r.cursor EXCEPT ![s] = n]
  <2>1. /\ r.cursor \in [Scopes -> Nat]
        /\ \A t \in Scopes : r.cursor[t] <= Pages[t]
    BY DEF Run
  <2>2. c \in [Scopes -> Nat] /\ \A t \in Scopes : c[t] <= Pages[t]
    BY <2>1
  <2>3. [r EXCEPT !.cursor[s] = n] = [r EXCEPT !.cursor = c]
    OBVIOUS
  <2> HIDE DEF c
  <2>4. [r EXCEPT !.cursor = c] \in Run
    BY <2>2 DEF Run
  <2> QED
    BY <2>3, <2>4
<1>2. \A x \in {"running", "aborted", "partial", "failed", "success"} :
        /\ [r EXCEPT !.status = x] \in Run
        /\ [r EXCEPT !.status = x, !.live = FALSE] \in Run
  BY DEF Run
<1>3. /\ [r EXCEPT !.live = FALSE] \in Run
      /\ \A B \in SUBSET Scopes :
              /\ [r EXCEPT !.blocked = B] \in Run
              /\ [r EXCEPT !.imported = TRUE, !.blocked = B] \in Run
      /\ \A n \in 0..RunRequests : [r EXCEPT !.requests = n] \in Run
  BY DEF Run
<1> QED
  BY <1>1, <1>2, <1>3

\* A step of an executor changes what it does alone.
LEMMA Moving ==
  ASSUME TypeOK, NEW w \in Backfillers, NEW e \in Exec, Move(w, e)
  PROVE  /\ exec' \in [Backfillers -> Exec]
         /\ exec'[w] = e
         /\ \A v \in Backfillers : v # w => exec'[v] = exec[v]
BY DEF TypeOK, Move

\* A transaction of an executor changes its own run alone.
LEMMA Saving ==
  ASSUME TypeOK, NEW w \in Backfillers, exec[w].run \in 1..Len(runs),
         NEW r \in Run, Save(w, r)
  PROVE  /\ runs' \in Seq(Run) /\ Len(runs') = Len(runs)
         /\ runs'[exec[w].run] = r
         /\ \A i \in 1..Len(runs) : i # exec[w].run => runs'[i] = runs[i]
<1>1. runs \in Seq(Run)
  BY DEF TypeOK
<1> QED
  BY <1>1 DEF Save

\* What an executor does, its run and the open scopes have their types.
LEMMA ExecTypes ==
  ASSUME CollectionInvariant, NEW w \in Backfillers
  PROVE  /\ exec[w] \in Exec
         /\ exec[w].scope \in Scopes /\ Pages[exec[w].scope] \in Nat \ {0}
         /\ exec[w].run \in 0..MaxRuns /\ exec[w].last \in 0..MaxRuns
         /\ runs \in Seq(Run) /\ Len(runs) \in Nat /\ Len(runs) <= MaxRuns
         /\ DOMAIN runs = 1..Len(runs)
         /\ Claimed(w) => exec[w].run \in 1..Len(runs) /\ Mine(w) \in Run
         /\ Open(w) \subseteq Scopes
<1>1. exec[w] \in Exec /\ runs \in Seq(Run) /\ Len(runs) <= MaxRuns
  BY DEF CollectionInvariant, TypeOK
<1>2. exec[w].scope \in Scopes /\ Pages[exec[w].scope] \in Nat \ {0}
  BY <1>1, CollectionAssumption DEF Exec, Scopes
<1>3. exec[w].run \in 0..MaxRuns /\ exec[w].last \in 0..MaxRuns
  BY <1>1 DEF Exec
<1>4. Len(runs) \in Nat /\ DOMAIN runs = 1..Len(runs)
  BY <1>1
<1>5. Claimed(w) => exec[w].run \in 1..Len(runs) /\ Mine(w) \in Run
  BY <1>1, <1>4 DEF CollectionInvariant, RunInvariant, RunsAreTheirs, Mine
<1> QED
  BY <1>1, <1>2, <1>3, <1>4, <1>5 DEF Open

\* The lock is handed to the first that waits for it.
LEMMA HandingOver ==
  ASSUME LockTypeOK, HandOver
  PROVE  /\ owner' \in Lives \cup {NoOne}
         /\ queue' \in Seq(Lives)
         /\ \A i \in 1..Len(queue) :
              owner' = queue[i] \/ \E j \in 1..Len(queue') : queue'[j] = queue[i]
<1>1. queue \in Seq(Lives)
  BY DEF LockTypeOK
<1>2. CASE queue = <<>>
  BY <1>1, <1>2 DEF HandOver
<1>3. CASE queue # <<>>
  <2>1. /\ Head(queue) = queue[1] /\ Head(queue) \in Lives
        /\ Tail(queue) \in Seq(Lives)
        /\ Len(Tail(queue)) = Len(queue) - 1
        /\ \A i \in 1..Len(Tail(queue)) : Tail(queue)[i] = queue[i + 1]
        /\ Len(queue) \in Nat
    BY <1>1, <1>3, HeadTailProperties
  <2>2. owner' = queue[1] /\ queue' = Tail(queue)
    BY <1>3, <2>1 DEF HandOver
  <2>3. ASSUME NEW i \in 1..Len(queue), i # 1
        PROVE  \E j \in 1..Len(queue') : queue'[j] = queue[i]
    <3>1. i - 1 \in 1..Len(queue') /\ queue'[i - 1] = queue[i]
      BY <2>1, <2>2, <2>3
    <3> QED
      BY <3>1
  <2> QED
    BY <2>1, <2>2, <2>3
<1> QED
  BY <1>2, <1>3

-----------------------------------------------------------------------------
(* The lock *)

\* A step of an executor that leaves the lock alone.
LEMMA LockFrame ==
  ASSUME CollectionInvariant, NEW w \in Backfillers, UNCHANGED lockVars,
         \A v \in Backfillers : v # w => exec'[v] = exec[v],
         exec'[w].pc \in AtPage => owner = w,
         exec'[w].pc = "reserved" => \A h \in Lives : ahead[h] = 0
  PROVE  LockInvariant'
<1> USE DEF CollectionInvariant, LockInvariant, lockVars
<1>1. LockIsHeld'
  BY DEF LockIsHeld
<1>2. WaitingIsQueued' /\ LiveWaitsForOnePage'
  BY DEF WaitingIsQueued, LiveWaitsForOnePage
<1>3. AheadIsCounted'
  <2>1. \A v \in Backfillers :
          exec'[v].pc = "reserved" => \A h \in Lives : ahead[h] = 0
    BY DEF AheadIsCounted, At
  <2> QED
    BY <2>1 DEF AheadIsCounted, At
<1> QED
  BY <1>1, <1>2, <1>3

\* An executor takes the free lock, or hands the lock over.
LEMMA LockTaken ==
  ASSUME CollectionInvariant, NEW w \in Backfillers,
         UNCHANGED <<live, ticks, ahead>>,
         \A v \in Backfillers : v # w => exec'[v] = exec[v],
         \/ Available /\ owner' = w /\ UNCHANGED queue
         \/ owner = w /\ HandOver /\ exec'[w].pc \notin AtPage,
         exec'[w].pc # "reserved"
  PROVE  LockInvariant' /\ LockTypeOK'
<1> USE LockAssumption
<1> USE DEF CollectionInvariant, LockInvariant, TypeOK
<1>1. LockTypeOK' /\ (owner = w => owner' \in Lives \cup {NoOne})
  <2>1. CASE Available /\ owner' = w /\ UNCHANGED queue
    BY <2>1 DEF LockTypeOK, Available
  <2>2. CASE owner = w /\ HandOver
    BY <2>2, HandingOver DEF LockTypeOK
  <2> QED
    BY <2>1, <2>2
<1>2. LockIsHeld'
  <2>1. \A v \in Backfillers : v # w => exec[v].pc \notin AtPage
    BY DEF LockIsHeld, Available
  <2>2. \A h \in Lives : live[h] # "harvesting"
    BY DEF LockIsHeld, Available
  <2>3. exec'[w].pc \in AtPage => owner' = w
    OBVIOUS
  <2> QED
    BY <2>1, <2>2, <2>3 DEF LockIsHeld
<1>3. WaitingIsQueued'
  <2>1. CASE Available /\ owner' = w /\ UNCHANGED queue
    BY <2>1 DEF Available, WaitingIsQueued
  <2>2. CASE owner = w /\ HandOver
    BY <2>2, HandingOver DEF WaitingIsQueued
  <2> QED
    BY <2>1, <2>2
<1>4. AheadIsCounted' /\ LiveWaitsForOnePage'
  <2>1. \A v \in Backfillers : exec'[v].pc = "reserved" => exec[v].pc = "reserved"
    OBVIOUS
  <2> QED
    BY <2>1 DEF AheadIsCounted, LiveWaitsForOnePage, At
<1> QED
  BY <1>1, <1>2, <1>3, <1>4

\* A live harvest asks for the lock, looks at its owner or waits for it.
LEMMA LiveStep ==
  ASSUME CollectionInvariant, LiveNext, UNCHANGED exec
  PROVE  LockInvariant' /\ LockTypeOK'
<1> USE LockAssumption
<1> USE DEF CollectionInvariant, LockInvariant, TypeOK
<1>0. /\ queue \in Seq(Lives) /\ Len(queue) \in Nat
      /\ live \in [Lives -> {"idle", "missed", "retrying", "missedTwice",
                             "queueing", "waiting", "harvesting"}]
      /\ ahead \in [Lives -> Nat]
  BY DEF LockTypeOK
<1> DEFINE Goal == LockInvariant' /\ LockTypeOK'
<1>1. ASSUME NEW h \in Lives, LiveTry(h) PROVE Goal
  <2> DEFINE s == IF Available THEN "harvesting"
                  ELSE IF live[h] = "idle" THEN "missed" ELSE "missedTwice"
  <2>0. /\ live' = [live EXCEPT ![h] = s] /\ live[h] # "waiting"
        /\ UNCHANGED <<queue, ahead>>
        /\ owner' = IF Available THEN h ELSE owner
        /\ ticks' \in 0..MaxTicks
    BY <1>0, <1>1 DEF LiveTry, Become, LockTypeOK
  <2>1. /\ \A g \in Lives : g # h => live'[g] = live[g]
        /\ live[h] # "waiting" /\ live'[h] # "waiting"
        /\ UNCHANGED <<queue, ahead>>
        /\ \/ Available /\ owner' = h
           \/ live'[h] # "harvesting" /\ owner' = owner
    BY <1>0, <2>0
  <2>2. LockTypeOK'
    BY <1>0, <2>0 DEF LockTypeOK
  <2>3. LockIsHeld'
    BY <2>1 DEF LockIsHeld, Available
  <2>4. WaitingIsQueued'
    BY <2>1 DEF WaitingIsQueued, Available
  <2>5. AheadIsCounted' /\ LiveWaitsForOnePage'
    BY <2>1 DEF AheadIsCounted, LiveWaitsForOnePage, At
  <2> QED
    BY <2>2, <2>3, <2>4, <2>5
<1>2. ASSUME NEW h \in Lives, LiveInspect(h) PROVE Goal
  <2>1. /\ \A g \in Lives : g # h => live'[g] = live[g]
        /\ live[h] # "waiting" /\ live'[h] \notin {"waiting", "harvesting"}
        /\ UNCHANGED <<owner, queue, ahead>>
    BY <1>0, <1>2 DEF LiveInspect, Become
  <2>2. LockTypeOK'
    BY <1>0, <1>2 DEF LiveInspect, Become, LockTypeOK
  <2>3. LockIsHeld' /\ WaitingIsQueued'
    BY <2>1 DEF LockIsHeld, WaitingIsQueued
  <2>4. AheadIsCounted' /\ LiveWaitsForOnePage'
    BY <2>1 DEF AheadIsCounted, LiveWaitsForOnePage, At
  <2> QED
    BY <2>2, <2>3, <2>4
<1>3. ASSUME NEW h \in Lives, LiveQueue(h) PROVE Goal
  <2>1. CASE Available
    <3>1. /\ \A g \in Lives : g # h => live'[g] = live[g]
          /\ live[h] = "queueing" /\ live'[h] = "harvesting"
          /\ owner' = h /\ UNCHANGED <<queue, ticks, ahead>>
      BY <1>0, <1>3, <2>1 DEF LiveQueue, Become
    <3>2. LockTypeOK'
      BY <1>0, <1>3, <2>1 DEF LiveQueue, Become, LockTypeOK
    <3>3. LockIsHeld' /\ WaitingIsQueued'
      BY <2>1, <3>1 DEF LockIsHeld, WaitingIsQueued, Available
    <3>4. AheadIsCounted' /\ LiveWaitsForOnePage'
      BY <3>1 DEF AheadIsCounted, LiveWaitsForOnePage, At
    <3> QED
      BY <3>2, <3>3, <3>4
  <2>2. CASE ~Available
    <3>1. /\ \A g \in Lives : g # h => live'[g] = live[g]
          /\ live[h] = "queueing" /\ live'[h] = "waiting"
          /\ queue' = Append(queue, h) /\ UNCHANGED <<owner, ticks, ahead>>
      BY <1>0, <1>3, <2>2 DEF LiveQueue, Become
    <3>2. /\ queue' \in Seq(Lives) /\ Len(queue') = Len(queue) + 1
          /\ \A i \in 1..Len(queue) : queue'[i] = queue[i]
          /\ queue'[Len(queue) + 1] = h
      BY <1>0, <3>1, AppendProperties
    <3>3. LockTypeOK'
      BY <1>0, <1>3, <2>2, <3>2 DEF LiveQueue, Become, LockTypeOK
    <3>4. LockIsHeld'
      BY <3>1 DEF LockIsHeld
    <3>5. WaitingIsQueued'
      <4>1. Len(queue) + 1 \in 1..Len(queue')
        BY <1>0, <3>2
      <4>2. \A i \in 1..Len(queue) : i \in 1..Len(queue')
        BY <1>0, <3>2
      <4> QED
        BY <3>1, <3>2, <4>1, <4>2 DEF WaitingIsQueued
    <3>6. AheadIsCounted' /\ LiveWaitsForOnePage'
      BY <3>1 DEF AheadIsCounted, LiveWaitsForOnePage, At
    <3> QED
      BY <3>3, <3>4, <3>5, <3>6
  <2> QED
    BY <2>1, <2>2
<1>4. ASSUME NEW h \in Lives, LiveGranted(h) PROVE Goal
  <2>1. /\ \A g \in Lives : g # h => live'[g] = live[g] /\ ahead'[g] = ahead[g]
        /\ owner = h /\ live'[h] = "harvesting" /\ ahead'[h] = 0
        /\ UNCHANGED <<owner, queue, ticks>>
    BY <1>0, <1>4 DEF LiveGranted, Become
  <2>2. LockTypeOK'
    BY <1>0, <1>4 DEF LiveGranted, Become, LockTypeOK
  <2>3. LockIsHeld' /\ WaitingIsQueued'
    BY <2>1 DEF LockIsHeld, WaitingIsQueued
  <2>4. AheadIsCounted' /\ LiveWaitsForOnePage'
    BY <2>1 DEF AheadIsCounted, LiveWaitsForOnePage, At
  <2> QED
    BY <2>2, <2>3, <2>4
<1>5. ASSUME NEW h \in Lives, LiveTimesOut(h) PROVE Goal
  <2>1. /\ \A g \in Lives : g # h => live'[g] = live[g] /\ ahead'[g] = ahead[g]
        /\ live'[h] = "idle" /\ ahead'[h] = 0
        /\ UNCHANGED <<owner, ticks>>
    BY <1>0, <1>5 DEF LiveTimesOut, Become
  <2>2. PICK i \in 1..Len(queue) :
          queue[i] = h /\ queue' = SubSeq(queue, 1, i - 1)
                                     \o SubSeq(queue, i + 1, Len(queue))
    <3>1. DOMAIN queue = 1..Len(queue)
      BY <1>0
    <3> QED
      BY <1>5, <3>1 DEF LiveTimesOut
  <2>3. /\ queue' \in Seq(Lives) /\ Len(queue') = Len(queue) - 1
        /\ \A j \in 1..Len(queue') :
             queue'[j] = IF j < i THEN queue[j] ELSE queue[j + 1]
    <3> DEFINE a == SubSeq(queue, 1, i - 1)
               b == SubSeq(queue, i + 1, Len(queue))
    <3>1. /\ a \in Seq(Lives) /\ Len(a) = i - 1
          /\ \A j \in 1..(i - 1) : a[j] = queue[j]
      BY <1>0
    <3>2. /\ b \in Seq(Lives) /\ Len(b) = Len(queue) - i
          /\ \A j \in 1..(Len(queue) - i) : b[j] = queue[i + j]
      <4>1. /\ i + 1 \in Int /\ Len(queue) \in Int
            /\ \A j \in (i + 1)..Len(queue) : queue[j] \in Lives
        BY <1>0
      <4>2. /\ b \in Seq(Lives)
            /\ Len(b) = IF i + 1 <= Len(queue)
                        THEN Len(queue) - (i + 1) + 1 ELSE 0
            /\ \A j \in 1..(Len(queue) - (i + 1) + 1) :
                 b[j] = queue[i + 1 + j - 1]
        BY <4>1, SubSeqProperties
      <4> HIDE DEF b
      <4> QED
        BY <1>0, <4>2
    <3> HIDE DEF a, b
    <3>3. /\ a \o b \in Seq(Lives) /\ Len(a \o b) = Len(a) + Len(b)
          /\ \A j \in 1..(Len(a) + Len(b)) :
               (a \o b)[j] = IF j <= Len(a) THEN a[j] ELSE b[j - Len(a)]
      <4>1. a \in Seq(Lives) /\ b \in Seq(Lives)
        BY <3>1, <3>2
      <4> QED
        BY <4>1, ConcatProperties
    <3>4. queue' = a \o b
      BY <2>2 DEF a, b
    <3>5. Len(queue') = Len(queue) - 1
      <4>1. /\ Len(a) = i - 1 /\ Len(b) = Len(queue) - i
            /\ Len(queue') = Len(a) + Len(b)
        BY <3>1, <3>2, <3>3, <3>4
      <4> QED
        BY <1>0, <4>1
    <3>6. ASSUME NEW j \in 1..Len(queue')
          PROVE  queue'[j] = IF j < i THEN queue[j] ELSE queue[j + 1]
      <4>1. queue'[j] = IF j <= i - 1 THEN a[j] ELSE b[j - (i - 1)]
        BY <1>0, <3>1, <3>2, <3>3, <3>4, <3>5
      <4>2. CASE j < i
        BY <1>0, <3>1, <4>1, <4>2
      <4>3. CASE j >= i
        <5>1. j - (i - 1) \in 1..(Len(queue) - i)
          BY <1>0, <3>5, <4>3
        <5>2. b[j - (i - 1)] = queue[i + (j - (i - 1))]
          BY <3>2, <5>1
        <5>3. i + (j - (i - 1)) = j + 1
          OBVIOUS
        <5> QED
          BY <4>1, <4>3, <5>2, <5>3
      <4> QED
        BY <4>2, <4>3
    <3> QED
      BY <3>3, <3>4, <3>5, <3>6
  <2>4. LockTypeOK'
    BY <1>0, <1>5, <2>3 DEF LiveTimesOut, Become, LockTypeOK
  <2>5. LockIsHeld'
    BY <2>1 DEF LockIsHeld
  <2>6. WaitingIsQueued'
    <3> SUFFICES ASSUME NEW g \in Lives, live'[g] = "waiting", owner # g
                 PROVE  \E j \in 1..Len(queue') : queue'[j] = g
      BY <2>1 DEF WaitingIsQueued
    <3>1. PICK j \in 1..Len(queue) : queue[j] = g
      BY <2>1 DEF WaitingIsQueued
    <3>2. j # i
      BY <2>1, <2>2, <3>1
    <3>3. CASE j < i
      <4>1. j \in 1..Len(queue')
        BY <1>0, <2>3, <3>3
      <4>2. queue'[j] = queue[j]
        BY <2>3, <3>3, <4>1
      <4> QED
        BY <3>1, <4>1, <4>2
    <3>4. CASE j > i
      <4>1. j - 1 \in 1..Len(queue') /\ queue'[j - 1] = queue[j]
        BY <1>0, <2>3, <3>4
      <4> QED
        BY <3>1, <4>1
    <3> QED
      BY <3>2, <3>3, <3>4
  <2>7. AheadIsCounted' /\ LiveWaitsForOnePage'
    BY <2>1 DEF AheadIsCounted, LiveWaitsForOnePage, At
  <2> QED
    BY <2>4, <2>5, <2>6, <2>7
<1>6. ASSUME NEW h \in Lives, LiveEnds(h) PROVE Goal
  <2>1. /\ \A g \in Lives : g # h => live'[g] = live[g]
        /\ owner = h /\ live[h] = "harvesting" /\ live'[h] = "idle" /\ HandOver
        /\ UNCHANGED <<ticks, ahead>>
    BY <1>0, <1>6 DEF LiveEnds, Become, LockIsHeld
  <2>2. LockTypeOK'
    BY <1>0, <1>6, HandingOver DEF LiveEnds, Become, LockTypeOK
  <2>3. LockIsHeld'
    BY <2>1 DEF LockIsHeld
  <2>4. WaitingIsQueued'
    BY <2>1, HandingOver DEF WaitingIsQueued
  <2>5. AheadIsCounted' /\ LiveWaitsForOnePage'
    BY <2>1 DEF AheadIsCounted, LiveWaitsForOnePage, At
  <2> QED
    BY <2>2, <2>3, <2>4, <2>5
<1> QED
  BY <1>1, <1>2, <1>3, <1>4, <1>5, <1>6 DEF LiveNext

-----------------------------------------------------------------------------
(* The runs *)

\* A step that keeps the cursors, the blocked scopes and the stored posts: an
\* executor moves on, a run is accounted to, ends or expires.
LEMMA RunFrame ==
  ASSUME CollectionInvariant, TypeOK',
         UNCHANGED stored,
         Len(runs') = Len(runs),
         \A i \in 1..Len(runs) : /\ runs'[i].of = runs[i].of
                                 /\ runs'[i].cursor = runs[i].cursor
                                 /\ runs'[i].blocked = runs[i].blocked,
         job'.active \in {0, job.active},
         job'.state = "completed" =>
           \/ job.state = "completed"
           \/ \E i \in 1..Len(runs) : \A s \in Scopes : Complete(i, s),
         \A w \in Backfillers :
           /\ exec'[w].last <= Len(runs)
           /\ exec'[w].pc \notin {"idle", "probed"} =>
                Claimed(w) /\ exec'[w].run = exec[w].run
           /\ exec'[w].pc = "claimed" => exec[w].pc = "claimed"
           /\ exec'[w].pc \in {"locked", "reserved", "answered"} =>
                Mine(w).cursor[exec'[w].scope] < Pages[exec'[w].scope]
  PROVE  RunInvariant'
<1> USE DEF CollectionInvariant, RunInvariant
<1>0. /\ runs \in Seq(Run) /\ runs' \in Seq(Run) /\ Len(runs) \in Nat
      /\ DOMAIN runs = 1..Len(runs) /\ DOMAIN runs' = 1..Len(runs)
  BY DEF TypeOK
<1>1. ScopesAreKept' /\ NothingIsEarly'
  BY <1>0 DEF ScopesAreKept, NothingIsEarly
<1>2. RunsAreTheirs'
  BY DEF RunsAreTheirs, Claimed
<1>3. ActiveIsNewest'
  BY DEF ActiveIsNewest
<1>4. PageIsOpen'
  <2> SUFFICES ASSUME NEW v \in Backfillers,
                      exec'[v].pc \in {"locked", "reserved", "answered"}
               PROVE  runs'[exec'[v].run].cursor[exec'[v].scope]
                        < Pages[exec'[v].scope]
    BY DEF PageIsOpen, Mine
  <2>1. exec'[v].run \in 1..Len(runs)
    BY DEF RunsAreTheirs
  <2>2. runs[exec'[v].run].cursor[exec'[v].scope] < Pages[exec'[v].scope]
    BY DEF Mine
  <2> QED
    BY <2>1, <2>2
<1>5. RetriedWasBlocked'
  <2> SUFFICES ASSUME NEW v \in Backfillers, exec'[v].pc = "claimed",
                      NEW s \in runs'[exec'[v].run].blocked
               PROVE  \E r \in 1..(exec'[v].run - 1) : s \in runs'[r].blocked
    BY DEF RetriedWasBlocked, Mine, At
  <2>1. /\ exec[v].pc = "claimed" /\ exec'[v].run = exec[v].run
        /\ exec[v].run \in 1..Len(runs)
    BY DEF RunsAreTheirs, Claimed
  <2>2. s \in runs[exec[v].run].blocked
    BY <2>1
  <2>3. PICK r \in 1..(exec[v].run - 1) : s \in runs[r].blocked
    BY <2>1, <2>2 DEF RetriedWasBlocked, Mine, At
  <2>4. r \in 1..Len(runs)
    BY <1>0, <2>1
  <2> QED
    BY <2>1, <2>3, <2>4
<1>6. StoredUpToCursor'
  <2>1. Chained' => Chained
    BY <1>0 DEF Chained
  <2>2. \A s \in Scopes : (\E r \in 1..Len(runs) : s \in runs'[r].blocked)
                            <=> \E r \in 1..Len(runs) : s \in runs[r].blocked
    OBVIOUS
  <2>3. ASSUME NEW r \in 1..Len(runs), NEW s \in Scopes
        PROVE  1..runs'[r].cursor[s] \subseteq stored'[s]
    BY <1>0 DEF StoredUpToCursor
  <2>4. ASSUME Chained', runs' # <<>>, NEW s \in Scopes
        PROVE  stored'[s] \subseteq
                 1..(IF \E r \in DOMAIN runs' : s \in runs'[r].blocked
                     THEN runs'[Len(runs')].cursor[s] + 1
                     ELSE runs'[Len(runs')].cursor[s])
    <3>1. runs # <<>> /\ Len(runs) \in 1..Len(runs)
      BY <1>0, <2>4
    <3>2. stored[s] \subseteq
            1..(IF \E r \in 1..Len(runs) : s \in runs[r].blocked
                THEN runs[Len(runs)].cursor[s] + 1
                ELSE runs[Len(runs)].cursor[s])
      BY <1>0, <2>1, <2>4, <3>1 DEF StoredUpToCursor
    <3> QED
      BY <1>0, <2>2, <3>1, <3>2
  <2> QED
    BY <1>0, <2>3, <2>4 DEF StoredUpToCursor
<1>7. CompletedIsDrained'
  <2> SUFFICES ASSUME job'.state = "completed", NEW s \in Scopes
               PROVE  stored[s] = 1..Pages[s]
    BY DEF CompletedIsDrained
  <2>1. CASE job.state = "completed"
    BY <2>1 DEF CompletedIsDrained
  <2>2. CASE \E i \in 1..Len(runs) : \A t \in Scopes : Complete(i, t)
    <3>1. PICK i \in 1..Len(runs) : \A t \in Scopes : Complete(i, t)
      BY <2>2
    <3>2. 1..Pages[s] \subseteq stored[s]
      BY <1>0, <3>1 DEF StoredUpToCursor, Complete
    <3> QED
      BY <3>2 DEF TypeOK
  <2> QED
    BY <2>1, <2>2
<1> QED
  BY <1>1, <1>2, <1>3, <1>4, <1>5, <1>6, <1>7

\* ... and only one executor moves on, if any.
LEMMA OneMovesFrame ==
  ASSUME CollectionInvariant, TypeOK', NEW w \in Backfillers,
         UNCHANGED stored,
         Len(runs') = Len(runs),
         \A i \in 1..Len(runs) : /\ runs'[i].of = runs[i].of
                                 /\ runs'[i].cursor = runs[i].cursor
                                 /\ runs'[i].blocked = runs[i].blocked,
         job'.active \in {0, job.active},
         job'.state = "completed" =>
           \/ job.state = "completed"
           \/ \E i \in 1..Len(runs) : \A s \in Scopes : Complete(i, s),
         \A v \in Backfillers : v # w => exec'[v] = exec[v],
         exec'[w].last <= Len(runs),
         exec'[w].pc \notin {"idle", "probed"} =>
           Claimed(w) /\ exec'[w].run = exec[w].run,
         exec'[w].pc = "claimed" => exec[w].pc = "claimed",
         exec'[w].pc \in {"locked", "reserved", "answered"} =>
           Mine(w).cursor[exec'[w].scope] < Pages[exec'[w].scope]
  PROVE  RunInvariant'
<1>2. ASSUME NEW v \in Backfillers
      PROVE  /\ exec'[v].last <= Len(runs)
             /\ exec'[v].pc \notin {"idle", "probed"} =>
                  Claimed(v) /\ exec'[v].run = exec[v].run
             /\ exec'[v].pc = "claimed" => exec[v].pc = "claimed"
             /\ exec'[v].pc \in {"locked", "reserved", "answered"} =>
                  Mine(v).cursor[exec'[v].scope] < Pages[exec'[v].scope]
  <2>1. CASE v = w
    BY <2>1
  <2>2. CASE v # w
    BY <2>2 DEF CollectionInvariant, RunInvariant, RunsAreTheirs, PageIsOpen,
                Claimed
  <2> QED
    BY <2>1, <2>2
<1> QED
  BY <1>2, RunFrame

\* An executor moves on without a transaction of its own.
LEMMA MoveFrame ==
  ASSUME CollectionInvariant, NEW w \in Backfillers, NEW e \in Exec,
         Move(w, e), UNCHANGED <<job, runs, stored, fetched>>,
         LockTypeOK', LockInvariant', left' \in 0..MaxHindrances,
         e.last <= Len(runs),
         e.pc \notin {"idle", "probed"} => Claimed(w) /\ e.run = exec[w].run,
         e.pc = "claimed" => exec[w].pc = "claimed",
         e.pc \in {"locked", "reserved", "answered"} =>
           Mine(w).cursor[e.scope] < Pages[e.scope]
  PROVE  CollectionInvariant'
<1> USE DEF CollectionInvariant
<1>1. /\ exec' \in [Backfillers -> Exec] /\ exec'[w] = e
      /\ \A v \in Backfillers : v # w => exec'[v] = exec[v]
  BY Moving
<1>2. TypeOK'
  BY <1>1 DEF TypeOK
<1>3. RunInvariant'
  BY <1>1, <1>2, OneMovesFrame
<1> QED
  BY <1>2, <1>3

\* ... and leaves the lock to whom has it.
LEMMA QuietMove ==
  ASSUME CollectionInvariant, NEW w \in Backfillers, NEW e \in Exec,
         Move(w, e), UNCHANGED <<lockVars, job, runs, stored, fetched>>,
         left' \in 0..MaxHindrances,
         e.last <= Len(runs),
         e.pc \notin {"idle", "probed"} => Claimed(w) /\ e.run = exec[w].run,
         e.pc = "claimed" => exec[w].pc = "claimed",
         e.pc \in {"locked", "reserved", "answered"} =>
           Mine(w).cursor[e.scope] < Pages[e.scope],
         e.pc \in AtPage => exec[w].pc \in AtPage,
         e.pc # "reserved"
  PROVE  CollectionInvariant'
<1> USE DEF CollectionInvariant
<1>1. /\ exec'[w] = e
      /\ \A v \in Backfillers : v # w => exec'[v] = exec[v]
  BY Moving
<1>2. exec'[w].pc \in AtPage => owner = w
  BY <1>1 DEF LockInvariant, LockIsHeld
<1>3. LockInvariant'
  BY <1>1, <1>2, LockFrame
<1>4. LockTypeOK'
  BY DEF TypeOK, LockTypeOK, lockVars
<1> QED
  BY <1>3, <1>4, MoveFrame

\* Hindrances are left over, or one fewer.
LEMMA HindranceTypes ==
  TypeOK /\ (Hinder \/ left' = left) => left' \in 0..MaxHindrances
BY CollectionAssumption DEF TypeOK, Hinder

\* The failed call of a page leaves the executor at the release of the lock.
LEMMA SkipStep ==
  ASSUME CollectionInvariant, NEW w \in Backfillers, Skip(w),
         exec[w].pc \in AtPage, UNCHANGED <<lockVars, job, runs, stored, fetched>>,
         left' \in 0..MaxHindrances
  PROVE  CollectionInvariant'
<1> DEFINE d == exec[w].deferred \cup {exec[w].scope}
           e == [exec[w] EXCEPT !.pc = "release", !.error = TRUE, !.deferred = d]
<1>1. exec[w] \in Exec /\ d \in SUBSET Scopes
  BY ExecTypes DEF Exec
<1>2. Move(w, e)
  BY DEF Skip
<1> HIDE DEF d
<1>3. /\ e \in Exec /\ e.pc = "release"
      /\ e.last = exec[w].last /\ e.run = exec[w].run
  <2>1. e \in Exec
    BY <1>1, ExecUpdates
  <2> QED
    BY <1>1, <2>1 DEF Exec
<1>4. Claimed(w) /\ exec[w].last <= Len(runs)
  BY DEF Claimed, AtPage, CollectionInvariant, RunInvariant, RunsAreTheirs
<1> HIDE DEF e
<1> QED
  BY <1>2, <1>3, <1>4, QuietMove

\* An executor goes on with its run at another place.
LEMMA GoStep ==
  ASSUME CollectionInvariant, NEW w \in Backfillers, NEW x \in PCs, Go(w, x),
         Claimed(w), x \in AtPage => exec[w].pc \in AtPage,
         x \notin {"idle", "probed", "claimed", "locked", "reserved", "answered"},
         UNCHANGED <<lockVars, job, runs, stored, fetched, left>>
  PROVE  CollectionInvariant'
<1> DEFINE e == [exec[w] EXCEPT !.pc = x]
<1>1. exec[w] \in Exec
  BY ExecTypes
<1>2. Move(w, e)
  BY DEF Go
<1>3. /\ e \in Exec /\ e.pc = x
      /\ e.last = exec[w].last /\ e.run = exec[w].run
  <2>1. e \in Exec
    BY <1>1, ExecUpdates
  <2> QED
    BY <1>1, <2>1 DEF Exec
<1>4. exec[w].last <= Len(runs) /\ left' \in 0..MaxHindrances
  BY HindranceTypes DEF CollectionInvariant, RunInvariant, RunsAreTheirs
<1> HIDE DEF e
<1> QED
  BY <1>2, <1>3, <1>4, QuietMove

\* An executor that gives up rests.
LEMMA RestStep ==
  ASSUME CollectionInvariant, NEW w \in Backfillers, Move(w, Idle),
         UNCHANGED <<job, runs, stored, fetched>>,
         \/ UNCHANGED lockVars
         \/ owner = w /\ HandOver /\ UNCHANGED <<live, ticks, ahead>>,
         left' \in 0..MaxHindrances
  PROVE  CollectionInvariant'
<1>0. /\ Idle \in Exec /\ Idle.pc = "idle" /\ Idle.last = 0 /\ 0 <= Len(runs)
  <2>1. exec[w] \in Exec /\ Len(runs) \in Nat
    BY ExecTypes
  <2>2. Idle \in Exec
    BY <2>1, ExecUpdates
  <2> QED
    BY <2>1, <2>2 DEF Idle
<1>1. /\ exec'[w] = Idle
      /\ \A v \in Backfillers : v # w => exec'[v] = exec[v]
  BY <1>0, Moving DEF CollectionInvariant
<1>2. LockInvariant' /\ LockTypeOK'
  <2>1. CASE UNCHANGED lockVars
    <3>1. LockTypeOK'
      BY <2>1 DEF CollectionInvariant, TypeOK, LockTypeOK, lockVars
    <3>2. LockInvariant'
      BY <1>0, <1>1, <2>1, LockFrame DEF AtPage
    <3> QED
      BY <3>1, <3>2
  <2>2. CASE owner = w /\ HandOver /\ UNCHANGED <<live, ticks, ahead>>
    <3>1. exec'[w].pc \notin AtPage /\ exec'[w].pc # "reserved"
      BY <1>0, <1>1 DEF AtPage
    <3> QED
      BY <1>1, <2>2, <3>1, LockTaken
  <2> QED
    BY <2>1, <2>2
<1>3. Idle.last <= Len(runs) /\ Idle.pc \in {"idle", "probed"}
  BY <1>0
<1>4. Idle.pc \notin {"claimed", "locked", "reserved", "answered"}
  BY <1>0
<1> QED
  BY <1>0, <1>2, <1>3, <1>4, MoveFrame

-----------------------------------------------------------------------------
(* The steps of an executor *)

\* The job is read and the lock probed.
LEMMA ProbeStep ==
  ASSUME CollectionInvariant, NEW w \in Backfillers, Probe(w)
  PROVE  CollectionInvariant'
<1> DEFINE e == [exec[w] EXCEPT !.pc = "probed", !.last = Len(runs)]
<1>1. exec[w] \in Exec /\ Len(runs) \in 0..MaxRuns
  <2>1. /\ exec[w] \in Exec /\ Len(runs) \in Nat /\ Len(runs) <= MaxRuns
    BY ExecTypes
  <2> QED
    BY <2>1, CollectionAssumption
<1>2. Move(w, e) /\ UNCHANGED <<lockVars, job, runs, stored, fetched, left>>
  BY DEF Probe
<1>3. e \in Exec
  BY <1>1, ExecUpdates DEF PCs
<1>4. e.pc = "probed" /\ e.last = Len(runs)
  BY <1>1 DEF Exec
<1>5. left' \in 0..MaxHindrances
  BY <1>2, HindranceTypes DEF CollectionInvariant
<1> HIDE DEF e
<1> QED
  BY <1>1, <1>2, <1>3, <1>4, <1>5, QuietMove DEF AtPage

\* The executor stops, a bad reply fails the call, or the claim is gone.
LEMMA PlainStep ==
  ASSUME CollectionInvariant, NEW w \in Backfillers,
         Stop(w) \/ PageFails(w) \/ Unrecorded(w) \/ ProviderRefuses(w)
  PROVE  CollectionInvariant'
<1>1. CASE Stop(w)
  <2>1. "finishing" \in PCs /\ "finishing" \notin AtPage /\ Claimed(w)
    BY <1>1 DEF PCs, AtPage, Stop, At, Claimed
  <2> QED
    BY <1>1, <2>1, GoStep DEF Stop
<1>2. CASE PageFails(w) \/ Unrecorded(w)
  <2>1. left' \in 0..MaxHindrances
    BY <1>2, HindranceTypes DEF PageFails, Unrecorded, CollectionInvariant
  <2> QED
    BY <1>2, <2>1, SkipStep DEF PageFails, Unrecorded, At, AtPage
<1>3. CASE ProviderRefuses(w)
  <2>1. PICK cool \in BOOLEAN :
          Move(w, [exec[w] EXCEPT !.pc = "release", !.error = TRUE,
                     !.stop = TRUE, !.cool = cool])
    BY <1>3 DEF ProviderRefuses
  <2> DEFINE e == [exec[w] EXCEPT !.pc = "release", !.error = TRUE,
                     !.stop = TRUE, !.cool = cool]
  <2>2. exec[w] \in Exec
    BY ExecTypes
  <2>3. e \in Exec
    BY <2>2, ExecUpdates
  <2>4. e.pc = "release" /\ e.last = exec[w].last /\ e.run = exec[w].run
    BY <2>2 DEF Exec
  <2>5. left' \in 0..MaxHindrances
    BY <1>3, HindranceTypes DEF ProviderRefuses, CollectionInvariant
  <2>6. exec[w].pc \in AtPage /\ Claimed(w) /\ exec[w].last <= Len(runs)
    BY <1>3 DEF ProviderRefuses, At, AtPage, Claimed, CollectionInvariant,
                RunInvariant, RunsAreTheirs
  <2>7. UNCHANGED <<lockVars, job, runs, stored, fetched>>
    BY <1>3 DEF ProviderRefuses
  <2> HIDE DEF e
  <2>8. Move(w, e)
    BY <2>1 DEF e
  <2> QED
    BY <2>3, <2>4, <2>5, <2>6, <2>7, <2>8, QuietMove
<1> QED
  BY <1>1, <1>2, <1>3

\* An executor takes the lock for a scope that is not walked to its end.
LEMMA ChooseStep ==
  ASSUME CollectionInvariant, NEW w \in Backfillers, Choose(w)
  PROVE  CollectionInvariant'
<1>1. PICK first \in Open(w) :
        Move(w, [exec[w] EXCEPT !.pc = "locked", !.scope = first])
  BY DEF Choose
<1> DEFINE e == [exec[w] EXCEPT !.pc = "locked", !.scope = first]
<1>2. exec[w] \in Exec /\ first \in Scopes
  BY ExecTypes
<1>3. e \in Exec
  BY <1>2, ExecUpdates DEF PCs
<1>4. /\ e.pc = "locked" /\ e.scope = first
      /\ e.last = exec[w].last /\ e.run = exec[w].run
  BY <1>2 DEF Exec
<1>5. /\ Claimed(w) /\ exec[w].last <= Len(runs)
      /\ Available /\ owner' = w /\ UNCHANGED <<queue, live, ticks, ahead>>
      /\ UNCHANGED <<job, runs, stored, fetched, left>>
  BY DEF Choose, At, Claimed, CollectionInvariant, RunInvariant, RunsAreTheirs
<1>6. Mine(w).cursor[first] < Pages[first]
  <2>1. Mine(w) \in Run
    BY <1>5, ExecTypes
  <2>2. Mine(w).cursor[first] # Pages[first]
    BY DEF Open, Complete, Mine
  <2> QED
    BY <1>2, <2>1, <2>2, CollectionAssumption DEF Run, Scopes
<1> HIDE DEF e
<1>7. Move(w, e)
  BY <1>1 DEF e
<1>8. LockInvariant' /\ LockTypeOK'
  <2>1. /\ exec'[w] = e
        /\ \A v \in Backfillers : v # w => exec'[v] = exec[v]
    BY <1>3, <1>7, Moving DEF CollectionInvariant
  <2> QED
    BY <1>4, <1>5, <2>1, LockTaken
<1>9. left' \in 0..MaxHindrances
  BY <1>5, HindranceTypes DEF CollectionInvariant
<1> QED
  BY <1>3, <1>4, <1>5, <1>6, <1>7, <1>8, <1>9, MoveFrame

\* The lock is handed over after a page.
LEMMA ReleaseStep ==
  ASSUME CollectionInvariant, NEW w \in Backfillers, Release(w)
  PROVE  CollectionInvariant'
<1> DEFINE x == IF exec[w].stop THEN "finishing" ELSE "choosing"
           e == [exec[w] EXCEPT !.pc = x]
<1>1. exec[w] \in Exec /\ x \in PCs
  BY ExecTypes DEF PCs
<1>2. e \in Exec
  BY <1>1, ExecUpdates
<1>3. /\ e.pc \in {"finishing", "choosing"}
      /\ e.last = exec[w].last /\ e.run = exec[w].run
  BY <1>1 DEF Exec
<1>4. /\ Claimed(w) /\ exec[w].last <= Len(runs)
      /\ owner = w /\ HandOver /\ UNCHANGED <<live, ticks, ahead>>
      /\ UNCHANGED <<job, runs, stored, fetched, left>>
  BY DEF Release, At, Claimed, AtPage, LockIsHeld, LockInvariant,
         CollectionInvariant, RunInvariant, RunsAreTheirs
<1>5. Move(w, e)
  BY DEF Release, Go
<1> HIDE DEF e
<1>6. LockInvariant' /\ LockTypeOK'
  <2>1. /\ exec'[w] = e
        /\ \A v \in Backfillers : v # w => exec'[v] = exec[v]
    BY <1>2, <1>5, Moving DEF CollectionInvariant
  <2>2. exec'[w].pc \notin AtPage /\ exec'[w].pc # "reserved"
    BY <1>3, <2>1 DEF AtPage
  <2> QED
    BY <1>4, <2>1, <2>2, LockTaken
<1>7. left' \in 0..MaxHindrances
  BY <1>4, HindranceTypes DEF CollectionInvariant
<1> QED
  BY <1>2, <1>3, <1>4, <1>5, <1>6, <1>7, MoveFrame

\* An executor gives up, or dies.
LEMMA GiveUpStep ==
  ASSUME CollectionInvariant, NEW w \in Backfillers, Stale(w) \/ Die(w)
  PROVE  CollectionInvariant'
<1>1. /\ Move(w, Idle) /\ UNCHANGED <<job, runs, stored, fetched>>
      /\ UNCHANGED <<live, ticks, ahead>> /\ UnlockIfHeld(w)
  BY DEF Stale, Die
<1>2. \/ UNCHANGED lockVars
      \/ owner = w /\ HandOver /\ UNCHANGED <<live, ticks, ahead>>
  BY <1>1 DEF UnlockIfHeld, lockVars
<1>3. left' \in 0..MaxHindrances
  BY HindranceTypes DEF Stale, Die, CollectionInvariant
<1> QED
  BY <1>1, <1>2, <1>3, RestStep

\* The provider is asked: counted against the harvests that wait by now.
LEMMA FetchStep ==
  ASSUME CollectionInvariant, NEW w \in Backfillers, Fetch(w)
  PROVE  CollectionInvariant'
<1> USE DEF CollectionInvariant
<1> DEFINE e == [exec[w] EXCEPT !.pc = "answered"]
           s == exec[w].scope
           p == NextPage(w)
<1>1. exec[w] \in Exec /\ s \in Scopes /\ Mine(w) \in Run /\ Claimed(w)
  BY ExecTypes DEF Fetch, At, Claimed
<1>2. e \in Exec
  BY <1>1, ExecUpdates DEF PCs
<1>3. /\ e.pc = "answered" /\ e.scope = s
      /\ e.last = exec[w].last /\ e.run = exec[w].run
  BY <1>1 DEF Exec
<1>4. /\ At(w, "reserved") /\ owner = w
      /\ \A h \in Lives : ahead[h] = 0
      /\ Mine(w).cursor[s] < Pages[s]
      /\ exec[w].last <= Len(runs)
  BY DEF Fetch, At, AtPage, LockInvariant, LockIsHeld, AheadIsCounted,
         RunInvariant, PageIsOpen, RunsAreTheirs
<1>5. p \in 1..Pages[s]
  <2>1. Mine(w).cursor[s] \in Nat
    BY <1>1 DEF Run
  <2>2. Pages[s] \in Nat
    BY <1>1, CollectionAssumption DEF Scopes
  <2> QED
    BY <1>4, <2>1, <2>2 DEF NextPage
<1>6. /\ fetched' = Append(fetched, <<s, p>>)
      /\ ahead' = [h \in Lives |-> IF live[h] = "waiting" THEN ahead[h] + 1
                                                          ELSE ahead[h]]
      /\ Move(w, e)
      /\ UNCHANGED <<owner, queue, live, ticks, job, runs, stored, left>>
  BY DEF Fetch, Go
<1> HIDE DEF e, p
<1>7. /\ exec' \in [Backfillers -> Exec] /\ exec'[w] = e
      /\ \A v \in Backfillers : v # w => exec'[v] = exec[v]
  BY <1>2, <1>6, Moving
<1>8. fetched' \in Seq(Page)
  <2>1. <<s, p>> \in Page
    BY <1>1, <1>5, CollectionAssumption DEF Page, Scopes
  <2> QED
    BY <1>6, <2>1 DEF TypeOK
<1>9. /\ \A h \in Lives : ahead'[h] = IF live[h] = "waiting" THEN 1 ELSE 0
      /\ ahead' \in [Lives -> Nat]
  BY <1>4, <1>6
<1>10. TypeOK'
  BY <1>6, <1>7, <1>8, <1>9 DEF TypeOK, LockTypeOK
<1>11. LockInvariant'
  <2>1. \A v \in Backfillers : exec'[v].pc # "reserved"
    BY <1>3, <1>4, <1>7 DEF LockInvariant, LockIsHeld, AtPage
  <2>2. LockIsHeld'
    BY <1>3, <1>4, <1>6, <1>7 DEF LockInvariant, LockIsHeld
  <2>3. WaitingIsQueued'
    BY <1>6 DEF LockInvariant, WaitingIsQueued
  <2>4. AheadIsCounted' /\ LiveWaitsForOnePage'
    BY <1>6, <1>9, <2>1 DEF AheadIsCounted, LiveWaitsForOnePage, At
  <2> QED
    BY <2>2, <2>3, <2>4 DEF LockInvariant
<1>12. RunInvariant'
  <2>1. ASSUME NEW v \in Backfillers
        PROVE  /\ exec'[v].last <= Len(runs)
               /\ exec'[v].pc \notin {"idle", "probed"} =>
                    Claimed(v) /\ exec'[v].run = exec[v].run
               /\ exec'[v].pc = "claimed" => exec[v].pc = "claimed"
               /\ exec'[v].pc \in {"locked", "reserved", "answered"} =>
                    Mine(v).cursor[exec'[v].scope] < Pages[exec'[v].scope]
    <3>1. CASE v = w
      BY <1>1, <1>3, <1>4, <1>7, <3>1
    <3>2. CASE v # w
      BY <1>7, <3>2 DEF RunInvariant, RunsAreTheirs, PageIsOpen, Claimed
    <3> QED
      BY <3>1, <3>2
  <2> QED
    BY <1>6, <1>8, <1>10, <2>1, RunFrame
<1> QED
  BY <1>10, <1>11, <1>12

-----------------------------------------------------------------------------
(* The transactions of a run *)

\* A request is reserved, while no live harvest waits, or refused.
LEMMA ReserveStep ==
  ASSUME CollectionInvariant, NEW w \in Backfillers, Reserve(w)
  PROVE  CollectionInvariant'
<1> USE DEF CollectionInvariant
<1>1. CASE ~MayReserve(w)
  <2>1. left' \in 0..MaxHindrances
    BY <1>1, HindranceTypes DEF Reserve
  <2> QED
    BY <1>1, <2>1, SkipStep DEF Reserve, At, AtPage
<1>2. CASE MayReserve(w)
  <2> DEFINE e == [exec[w] EXCEPT !.pc = "reserved"]
             n == Mine(w).requests + 1
             r == [Mine(w) EXCEPT !.requests = n]
  <2>1. /\ exec[w] \in Exec /\ Claimed(w) /\ Mine(w) \in Run
        /\ exec[w].run \in 1..Len(runs)
    BY ExecTypes DEF Reserve, At, Claimed
  <2>2. /\ e \in Exec /\ e.pc = "reserved" /\ e.scope = exec[w].scope
        /\ e.last = exec[w].last /\ e.run = exec[w].run
    <3>1. e \in Exec
      BY <2>1, ExecUpdates DEF PCs
    <3> QED
      BY <2>1, <3>1 DEF Exec
  <2>3. n \in 0..RunRequests
    BY <1>2, <2>1, CollectionAssumption DEF MayReserve, Allowance, Run
  <2>4. Move(w, e) /\ Save(w, r)
        /\ UNCHANGED <<lockVars, job, stored, fetched, left>>
    BY <1>2 DEF Reserve, Go
  <2> HIDE DEF e, n
  <2>5. r \in Run
    BY <2>1, <2>3, RunUpdates
  <2>6. r.of = Mine(w).of /\ r.cursor = Mine(w).cursor
        /\ r.blocked = Mine(w).blocked
    BY <2>1 DEF Run
  <2> HIDE DEF r
  <2>7. /\ exec' \in [Backfillers -> Exec] /\ exec'[w] = e
        /\ \A v \in Backfillers : v # w => exec'[v] = exec[v]
    BY <2>2, <2>4, Moving
  <2>8. /\ runs' \in Seq(Run) /\ Len(runs') = Len(runs)
        /\ runs'[exec[w].run] = r
        /\ \A i \in 1..Len(runs) : i # exec[w].run => runs'[i] = runs[i]
    BY <2>1, <2>4, <2>5, Saving
  <2>9. \A i \in 1..Len(runs) : /\ runs'[i].of = runs[i].of
                                /\ runs'[i].cursor = runs[i].cursor
                                /\ runs'[i].blocked = runs[i].blocked
    BY <2>6, <2>8 DEF Mine
  <2>10. owner = w /\ \A h \in Lives : ahead[h] = 0
    <3>1. owner = w /\ queue = <<>>
      BY <1>2 DEF Reserve, At, AtPage, LockInvariant, LockIsHeld, MayReserve,
                  YieldRequested
    <3>2. \A h \in Lives : live[h] # "waiting"
      BY <3>1, LockAssumption DEF LockInvariant, WaitingIsQueued
    <3> QED
      BY <3>1, <3>2 DEF LockInvariant, AheadIsCounted
  <2>11. LockInvariant'
    BY <2>4, <2>7, <2>10, LockFrame
  <2>12. TypeOK'
    BY <2>4, <2>7, <2>8 DEF TypeOK, LockTypeOK, lockVars
  <2>13. /\ exec[w].last <= Len(runs)
         /\ Mine(w).cursor[exec[w].scope] < Pages[exec[w].scope]
    BY DEF Reserve, At, RunInvariant, RunsAreTheirs, PageIsOpen
  <2>14. RunInvariant'
    BY <2>1, <2>2, <2>4, <2>7, <2>8, <2>9, <2>12, <2>13, OneMovesFrame
  <2> QED
    BY <2>11, <2>12, <2>14
<1> QED
  BY <1>1, <1>2

\* The run ends; a run whose scopes are all walked completes the job.
LEMMA FinishStep ==
  ASSUME CollectionInvariant, NEW w \in Backfillers, Finish(w)
  PROVE  CollectionInvariant'
<1> USE DEF CollectionInvariant
<1> DEFINE i == exec[w].run
           x == IF exec[w].error THEN "failed"
                ELSE IF Drained(i) THEN "success" ELSE "partial"
           r == [Mine(w) EXCEPT !.status = x]
           y == IF x = "success" THEN "completed" ELSE job.state
<1>1. /\ exec[w] \in Exec /\ Claimed(w) /\ Mine(w) \in Run /\ i \in 1..Len(runs)
      /\ Idle \in Exec
  BY ExecTypes, ExecUpdates DEF Finish, At, Claimed
<1>2. /\ Save(w, r) /\ Move(w, Idle)
      /\ job' = [state |-> y, active |-> 0, cooldown |-> exec[w].cool]
      /\ UNCHANGED <<lockVars, stored, fetched, left>>
  BY DEF Finish
<1>3. x = "success" => Drained(i)
  OBVIOUS
<1>4. x \in {"failed", "success", "partial"}
  OBVIOUS
<1> HIDE DEF x
<1>5. /\ r \in Run
      /\ r.of = Mine(w).of /\ r.cursor = Mine(w).cursor
      /\ r.blocked = Mine(w).blocked
  <2>1. r \in Run
    BY <1>1, <1>4, RunUpdates
  <2> QED
    BY <1>1, <2>1 DEF Run
<1> HIDE DEF r, i
<1>6. /\ exec' \in [Backfillers -> Exec] /\ exec'[w] = Idle
      /\ \A v \in Backfillers : v # w => exec'[v] = exec[v]
  BY <1>1, <1>2, Moving
<1>7. /\ runs' \in Seq(Run) /\ Len(runs') = Len(runs) /\ runs'[i] = r
      /\ \A j \in 1..Len(runs) : j # i => runs'[j] = runs[j]
  BY <1>1, <1>2, <1>5, Saving DEF i
<1>8. \A j \in 1..Len(runs) : /\ runs'[j].of = runs[j].of
                              /\ runs'[j].cursor = runs[j].cursor
                              /\ runs'[j].blocked = runs[j].blocked
  BY <1>5, <1>7 DEF Mine, i
<1>9. job' \in Job
  <2>1. job \in Job /\ exec[w].cool \in BOOLEAN
    BY <1>1 DEF TypeOK, Exec
  <2>2. y \in {"ready", "paused", "cancelled", "completed"}
    BY <2>1 DEF Job
  <2> QED
    BY <1>2, <2>1, <2>2, CollectionAssumption DEF Job
<1>10. job'.active = 0 /\ (job'.state = "completed" =>
         \/ job.state = "completed"
         \/ \E j \in 1..Len(runs) : \A s \in Scopes : Complete(j, s))
  BY <1>1, <1>2, <1>3 DEF Drained
<1>11. TypeOK'
  BY <1>2, <1>6, <1>7, <1>9 DEF TypeOK, LockTypeOK, lockVars
<1>12. Idle.pc = "idle" /\ Idle.last = 0 /\ 0 <= Len(runs)
  BY <1>1, ExecTypes DEF Idle
<1>13. LockInvariant'
  BY <1>2, <1>6, <1>12, LockFrame DEF AtPage
<1>14. RunInvariant'
  BY <1>2, <1>6, <1>7, <1>8, <1>10, <1>11, <1>12, OneMovesFrame
<1> QED
  BY <1>11, <1>13, <1>14

-----------------------------------------------------------------------------
(* The clock and the operator *)

\* The lease runs out, the cooldown ends, or an operator changes the state.
LEMMA OperatorStep ==
  ASSUME CollectionInvariant,
         \/ ExpireLease \/ CooldownEnds
         \/ \E state \in {"ready", "paused", "cancelled"} : SetJobState(state)
  PROVE  CollectionInvariant'
<1> USE DEF CollectionInvariant
<1>0. /\ job \in Job /\ runs \in Seq(Run) /\ Len(runs) \in Nat
      /\ job.active # 0 => job.active \in 1..Len(runs)
  BY DEF TypeOK, Job, RunInvariant, ActiveIsNewest
<1>1. UNCHANGED <<lockVars, stored, fetched, exec>> /\ left' \in 0..MaxHindrances
  BY HindranceTypes DEF ExpireLease, CooldownEnds, SetJobState
<1>2. \/ UNCHANGED runs
      \/ /\ job.active # 0
         /\ runs' \in
              {[runs EXCEPT ![job.active] = [runs[job.active] EXCEPT !.live = FALSE]],
               [runs EXCEPT ![job.active] = [runs[job.active] EXCEPT
                                       !.status = "aborted", !.live = FALSE]]}
  BY DEF ExpireLease, CooldownEnds, SetJobState
<1>3. /\ runs' \in Seq(Run) /\ Len(runs') = Len(runs)
      /\ \A i \in 1..Len(runs) : /\ runs'[i].of = runs[i].of
                                 /\ runs'[i].cursor = runs[i].cursor
                                 /\ runs'[i].blocked = runs[i].blocked
  <2>1. CASE UNCHANGED runs
    BY <1>0, <2>1
  <2>2. CASE ~UNCHANGED runs
    <3>1. job.active \in 1..Len(runs)
      BY <1>0, <1>2, <2>2
    <3>2. PICK r \in {[runs[job.active] EXCEPT !.live = FALSE],
                      [runs[job.active] EXCEPT !.status = "aborted",
                                               !.live = FALSE]} :
            runs' = [runs EXCEPT ![job.active] = r]
      BY <1>2, <2>2
    <3>3. runs[job.active] \in Run
      BY <1>0, <3>1
    <3>4. r \in Run
      BY <3>2, <3>3, RunUpdates
    <3>5. /\ r.of = runs[job.active].of
          /\ r.cursor = runs[job.active].cursor
          /\ r.blocked = runs[job.active].blocked
      BY <3>2, <3>3 DEF Run
    <3> QED
      BY <1>0, <3>1, <3>2, <3>4, <3>5
  <2> QED
    BY <2>1, <2>2
<1>4. /\ job' \in Job /\ job'.active \in {0, job.active}
      /\ job'.state = "completed" => job.state = "completed"
  <2>1. CASE ExpireLease
    BY <1>0, <2>1 DEF ExpireLease
  <2>2. CASE CooldownEnds
    BY <1>0, <2>2, CollectionAssumption DEF CooldownEnds, Job
  <2>3. ASSUME NEW state \in {"ready", "paused", "cancelled"},
               SetJobState(state)
        PROVE  /\ job' \in Job /\ job'.active \in {0, job.active}
               /\ job'.state = "completed" => job.state = "completed"
    <3>1. \/ job' = [job EXCEPT !.state = "ready"]
          \/ job' = [state |-> state, active |-> 0, cooldown |-> FALSE]
      BY <2>3 DEF SetJobState
    <3>2. CASE job' = [job EXCEPT !.state = "ready"]
      BY <1>0, <3>2 DEF Job
    <3>3. CASE job' = [state |-> state, active |-> 0, cooldown |-> FALSE]
      BY <3>3, CollectionAssumption DEF Job
    <3> QED
      BY <3>1, <3>2, <3>3
  <2> QED
    BY <2>1, <2>2, <2>3
<1>5. TypeOK'
  BY <1>1, <1>3, <1>4 DEF TypeOK, LockTypeOK, lockVars
<1>6. LockInvariant'
  BY <1>1 DEF LockInvariant, LockIsHeld, WaitingIsQueued, AheadIsCounted,
              LiveWaitsForOnePage, At, lockVars
<1>7. RunInvariant'
  <2>2. \A w \in Backfillers :
          /\ exec'[w].last <= Len(runs)
          /\ exec'[w].pc \notin {"idle", "probed"} =>
               Claimed(w) /\ exec'[w].run = exec[w].run
          /\ exec'[w].pc = "claimed" => exec[w].pc = "claimed"
          /\ exec'[w].pc \in {"locked", "reserved", "answered"} =>
               Mine(w).cursor[exec'[w].scope] < Pages[exec'[w].scope]
    BY <1>1 DEF RunInvariant, RunsAreTheirs, PageIsOpen, Claimed
  <2> QED
    BY <1>1, <1>3, <1>4, <1>5, <2>2, RunFrame
<1> QED
  BY <1>5, <1>6, <1>7

-----------------------------------------------------------------------------
(* The transactions that change scopes *)

\* Who is still fenced works on the newest run, of a job that is ready.
LEMMA FencedIsNewest ==
  ASSUME CollectionInvariant, NEW w \in Backfillers, Claimed(w), Fenced(w)
  PROVE  exec[w].run = Len(runs) /\ job.state = "ready"
BY DEF CollectionInvariant, RunInvariant, RunsAreTheirs, ActiveIsNewest, Fenced

\* The executor of the newest run changes its scopes, and what is stored.
LEMMA ScopesFrame ==
  ASSUME CollectionInvariant, TypeOK', NEW w \in Backfillers,
         Claimed(w), Fenced(w), UNCHANGED <<job, fetched>>,
         \A v \in Backfillers : v # w => exec'[v] = exec[v],
         exec'[w].pc \in {"choosing", "release"},
         exec'[w].run = exec[w].run, exec'[w].last = exec[w].last,
         Len(runs') = Len(runs), runs'[exec[w].run].of = Mine(w).of,
         \A i \in 1..Len(runs) : i # exec[w].run => runs'[i] = runs[i],
         stored' = [s \in Scopes |-> stored'[s]],
         \A s \in Scopes :
           /\ stored[s] \subseteq stored'[s]
           /\ 1..runs'[exec[w].run].cursor[s] \subseteq stored'[s]
           /\ LET known == Mine(w).cursor[s]
                  known2 == runs'[exec[w].run].cursor[s]
                  stopped == \E i \in 1..Len(runs) : s \in runs[i].blocked
                  stopped2 == \E i \in 1..Len(runs) : s \in runs'[i].blocked
              IN stored[s] \subseteq 1..(IF stopped THEN known + 1 ELSE known) =>
                   stored'[s] \subseteq
                     1..(IF stopped2 THEN known2 + 1 ELSE known2),
         PageIsOpen'
  PROVE  RunInvariant'
<1> USE DEF CollectionInvariant, RunInvariant
<1>0. /\ runs \in Seq(Run) /\ runs' \in Seq(Run) /\ Len(runs) \in Nat
      /\ DOMAIN runs = 1..Len(runs) /\ DOMAIN runs' = 1..Len(runs)
      /\ exec[w].run = Len(runs) /\ job.state = "ready"
      /\ Len(runs) \in 1..Len(runs)
  BY FencedIsNewest DEF TypeOK, RunsAreTheirs
<1>1. ScopesAreKept' /\ NothingIsEarly'
  <2>1. runs' # <<>>
    BY <1>0
  <2> QED
    BY <2>1 DEF ScopesAreKept, NothingIsEarly
<1>2. RunsAreTheirs'
  BY DEF RunsAreTheirs, Claimed
<1>3. ActiveIsNewest'
  BY DEF ActiveIsNewest
<1>4. RetriedWasBlocked'
  <2> SUFFICES ASSUME NEW v \in Backfillers, exec'[v].pc = "claimed",
                      NEW s \in runs'[exec'[v].run].blocked
               PROVE  \E r \in 1..(exec'[v].run - 1) : s \in runs'[r].blocked
    BY DEF RetriedWasBlocked, Mine, At
  <2>1. v # w /\ exec'[v] = exec[v] /\ Claimed(v)
    BY DEF Claimed
  <2>2. exec[v].run \in 1..Len(runs) /\ exec[v].run # exec[w].run
    BY <2>1 DEF RunsAreTheirs
  <2>3. PICK r \in 1..(exec[v].run - 1) : s \in runs[r].blocked
    BY <2>1, <2>2 DEF RetriedWasBlocked, Mine, At
  <2>4. r \in 1..Len(runs) /\ r # exec[w].run
    BY <1>0, <2>2
  <2> QED
    BY <2>1, <2>3, <2>4
<1>5. StoredUpToCursor'
  <2>1. Chained' => Chained
    BY <1>0 DEF Chained, Mine
  <2>2. ASSUME NEW r \in 1..Len(runs), NEW s \in Scopes
        PROVE  1..runs'[r].cursor[s] \subseteq stored'[s]
    <3>1. CASE r = exec[w].run
      BY <3>1
    <3>2. CASE r # exec[w].run
      BY <1>0, <3>2 DEF StoredUpToCursor
    <3> QED
      BY <3>1, <3>2
  <2>3. ASSUME Chained', NEW s \in Scopes
        PROVE  stored'[s] \subseteq
                 1..(IF \E r \in 1..Len(runs) : s \in runs'[r].blocked
                     THEN runs'[Len(runs)].cursor[s] + 1
                     ELSE runs'[Len(runs)].cursor[s])
    <3>1. runs # <<>>
      BY <1>0
    <3>2. stored[s] \subseteq
            1..(IF \E r \in 1..Len(runs) : s \in runs[r].blocked
                THEN runs[Len(runs)].cursor[s] + 1
                ELSE runs[Len(runs)].cursor[s])
      BY <1>0, <2>1, <2>3, <3>1 DEF StoredUpToCursor
    <3> QED
      BY <1>0, <3>2 DEF Mine
  <2> QED
    BY <1>0, <2>2, <2>3 DEF StoredUpToCursor
<1>6. CompletedIsDrained'
  BY <1>0 DEF CompletedIsDrained
<1> QED
  BY <1>1, <1>2, <1>3, <1>4, <1>5, <1>6

\* The scopes are set up, and blocked ones are taken up again or not.
LEMMA ImportStep ==
  ASSUME CollectionInvariant, NEW w \in Backfillers, Import(w)
  PROVE  CollectionInvariant'
<1> USE DEF CollectionInvariant
<1>1. PICK retry \in BOOLEAN :
        Save(w, [Mine(w) EXCEPT !.imported = TRUE,
                   !.blocked = IF retry THEN {} ELSE Mine(w).blocked])
  BY DEF Import
<1> DEFINE B == IF retry THEN {} ELSE Mine(w).blocked
           r == [Mine(w) EXCEPT !.imported = TRUE, !.blocked = B]
           e == [exec[w] EXCEPT !.pc = "choosing"]
<1>2. /\ exec[w] \in Exec /\ Claimed(w) /\ Mine(w) \in Run /\ Fenced(w)
      /\ exec[w].run \in 1..Len(runs) /\ At(w, "claimed")
  BY ExecTypes DEF Import, At, Claimed
<1>3. B \in SUBSET Scopes /\ B \subseteq Mine(w).blocked
  BY <1>2 DEF Run
<1>4. Move(w, e) /\ Save(w, r)
      /\ UNCHANGED <<lockVars, job, stored, fetched, left>>
  BY <1>1 DEF Import, Go
<1>5. /\ e \in Exec /\ e.pc = "choosing"
      /\ e.last = exec[w].last /\ e.run = exec[w].run
  <2>1. e \in Exec
    BY <1>2, ExecUpdates DEF PCs
  <2> QED
    BY <1>2, <2>1 DEF Exec
<1> HIDE DEF e, B
<1>6. /\ r \in Run
      /\ r.of = Mine(w).of /\ r.cursor = Mine(w).cursor /\ r.blocked = B
  <2>1. r \in Run
    BY <1>2, <1>3, RunUpdates
  <2> QED
    BY <1>2, <2>1 DEF Run
<1> HIDE DEF r
<1>7. /\ exec' \in [Backfillers -> Exec] /\ exec'[w] = e
      /\ \A v \in Backfillers : v # w => exec'[v] = exec[v]
  BY <1>4, <1>5, Moving
<1>8. /\ runs' \in Seq(Run) /\ Len(runs') = Len(runs)
      /\ runs'[exec[w].run] = r
      /\ \A i \in 1..Len(runs) : i # exec[w].run => runs'[i] = runs[i]
  BY <1>2, <1>4, <1>6, Saving
<1>9. TypeOK'
  BY <1>4, <1>7, <1>8 DEF TypeOK, LockTypeOK, lockVars
<1>10. LockInvariant'
  BY <1>4, <1>5, <1>7, LockFrame DEF AtPage
<1>11. exec[w].run = Len(runs) /\ Len(runs) \in Nat /\ DOMAIN runs = 1..Len(runs)
  BY <1>2, FencedIsNewest, ExecTypes
<1>12. \A s \in Scopes : (\E i \in 1..Len(runs) : s \in runs[i].blocked) =>
                           \E i \in 1..Len(runs) : s \in runs'[i].blocked
  <2> SUFFICES ASSUME NEW s \in Scopes, NEW i \in 1..Len(runs),
                      s \in runs[i].blocked
               PROVE  \E j \in 1..Len(runs) : s \in runs'[j].blocked
    OBVIOUS
  <2>1. CASE i # exec[w].run
    BY <1>8, <2>1
  <2>2. CASE i = exec[w].run
    <3>1. PICK j \in 1..(exec[w].run - 1) : s \in runs[j].blocked
      BY <1>2, <2>2 DEF RunInvariant, RetriedWasBlocked, Mine
    <3>2. j \in 1..Len(runs) /\ j # exec[w].run
      BY <1>11
    <3> QED
      BY <1>8, <3>1, <3>2
  <2> QED
    BY <2>1, <2>2
<1>13. \A s \in Scopes : 1..Mine(w).cursor[s] \subseteq stored[s]
  BY <1>2, <1>11 DEF RunInvariant, StoredUpToCursor, Mine
<1>14. PageIsOpen'
  <2> SUFFICES ASSUME NEW v \in Backfillers,
                      exec'[v].pc \in {"locked", "reserved", "answered"}
               PROVE  runs'[exec'[v].run].cursor[exec'[v].scope]
                        < Pages[exec'[v].scope]
    BY DEF PageIsOpen, Mine
  <2>1. v # w /\ exec'[v] = exec[v] /\ Claimed(v)
    BY <1>5, <1>7 DEF Claimed
  <2>2. exec[v].run \in 1..Len(runs) /\ exec[v].run # exec[w].run
    BY <1>2, <2>1 DEF RunInvariant, RunsAreTheirs
  <2> QED
    BY <1>8, <2>1, <2>2 DEF RunInvariant, PageIsOpen, Mine
<1>15. stored = [s \in Scopes |-> stored[s]]
  BY DEF RunInvariant, ScopesAreKept
<1>16. \A s \in Scopes :
         /\ stored[s] \subseteq stored'[s]
         /\ 1..runs'[exec[w].run].cursor[s] \subseteq stored'[s]
         /\ LET known == Mine(w).cursor[s]
                known2 == runs'[exec[w].run].cursor[s]
                stopped == \E i \in 1..Len(runs) : s \in runs[i].blocked
                stopped2 == \E i \in 1..Len(runs) : s \in runs'[i].blocked
            IN stored[s] \subseteq 1..(IF stopped THEN known + 1 ELSE known) =>
                 stored'[s] \subseteq
                   1..(IF stopped2 THEN known2 + 1 ELSE known2)
  <2> SUFFICES ASSUME NEW s \in Scopes
               PROVE  LET known == Mine(w).cursor[s]
                          stopped == \E i \in 1..Len(runs) : s \in runs[i].blocked
                          stopped2 == \E i \in 1..Len(runs) : s \in runs'[i].blocked
                      IN stored[s] \subseteq 1..(IF stopped THEN known + 1 ELSE known) =>
                           stored[s] \subseteq
                             1..(IF stopped2 THEN known + 1 ELSE known)
    BY <1>4, <1>6, <1>8, <1>13
  <2>1. Mine(w).cursor[s] \in Nat
    BY <1>2 DEF Run
  <2> QED
    BY <1>12, <2>1
<1>17. RunInvariant'
  <2>1. stored' = [s \in Scopes |-> stored'[s]]
    BY <1>4, <1>15
  <2>2. exec'[w].pc \in {"choosing", "release"} /\ exec'[w].run = exec[w].run
        /\ exec'[w].last = exec[w].last /\ runs'[exec[w].run].of = Mine(w).of
        /\ UNCHANGED <<job, fetched>>
    BY <1>4, <1>5, <1>6, <1>7, <1>8
  <2> QED
    BY <1>2, <1>7, <1>8, <1>9, <1>14, <1>16, <2>1, <2>2, ScopesFrame
<1> QED
  BY <1>9, <1>10, <1>17

\* The posts of a page are stored, with the cursor or with a scope set aside.
LEMMA StoreStep ==
  ASSUME CollectionInvariant, NEW w \in Backfillers,
         Checkpoint(w) \/ BlockPage(w)
  PROVE  CollectionInvariant'
<1> USE DEF CollectionInvariant
<1> DEFINE s == exec[w].scope
           p == NextPage(w)
           e == [exec[w] EXCEPT !.pc = "release"]
<1>1. /\ exec[w] \in Exec /\ Claimed(w) /\ Mine(w) \in Run /\ Fenced(w)
      /\ exec[w].run \in 1..Len(runs) /\ At(w, "answered")
      /\ s \in Scopes /\ Pages[s] \in Nat
  BY ExecTypes DEF Checkpoint, BlockPage, At, Claimed
<1>2. /\ e \in Exec /\ e.pc = "release"
      /\ e.last = exec[w].last /\ e.run = exec[w].run
  <2>1. e \in Exec
    BY <1>1, ExecUpdates DEF PCs
  <2> QED
    BY <1>1, <2>1 DEF Exec
<1>3. Move(w, e) /\ UNCHANGED <<lockVars, job, fetched>>
      /\ left' \in 0..MaxHindrances
  BY HindranceTypes DEF Checkpoint, BlockPage, Go
<1>4. /\ p = Mine(w).cursor[s] + 1 /\ Mine(w).cursor[s] \in Nat
      /\ p \in 1..Pages[s]
  <2>1. Mine(w).cursor[s] < Pages[s]
    BY <1>1 DEF RunInvariant, PageIsOpen, At
  <2>2. Mine(w).cursor[s] \in Nat
    BY <1>1 DEF Run
  <2> QED
    BY <1>1, <2>1, <2>2 DEF NextPage
<1> HIDE DEF e, p
<1>5. stored' = stored \/ stored' = [stored EXCEPT ![s] = stored[s] \cup {p}]
  BY DEF Checkpoint, BlockPage, Store, p
<1>6. PICK r \in Run :
        /\ Save(w, r) /\ r.of = Mine(w).of
        /\ \/ /\ r.cursor = [Mine(w).cursor EXCEPT ![s] = p]
              /\ r.blocked = Mine(w).blocked
              /\ stored' = [stored EXCEPT ![s] = stored[s] \cup {p}]
           \/ /\ r.cursor = Mine(w).cursor
              /\ r.blocked = Mine(w).blocked \cup {s}
  <2>1. CASE Checkpoint(w)
    <3> DEFINE r == [Mine(w) EXCEPT !.cursor[s] = p]
    <3>0. p \in Nat /\ p <= Pages[s] /\ s \in Scopes /\ Mine(w) \in Run
      BY <1>1, <1>4
    <3>1. r \in Run
      <4> HIDE DEF s
      <4> QED
        BY <3>0, RunUpdates
    <3>2. /\ r.of = Mine(w).of /\ r.blocked = Mine(w).blocked
          /\ r.cursor = [Mine(w).cursor EXCEPT ![s] = p]
      BY <1>1 DEF Run
    <3>3. Save(w, r) /\ stored' = [stored EXCEPT ![s] = stored[s] \cup {p}]
      BY <2>1 DEF Checkpoint, Store, p
    <3> HIDE DEF r
    <3> QED
      BY <3>1, <3>2, <3>3
  <2>2. CASE BlockPage(w)
    <3> DEFINE B == Mine(w).blocked \cup {s}
               r == [Mine(w) EXCEPT !.blocked = B]
    <3>1. B \in SUBSET Scopes
      BY <1>1 DEF Run
    <3>2. Save(w, r)
      BY <2>2 DEF BlockPage
    <3> HIDE DEF B
    <3>3. r \in Run
      BY <1>1, <3>1, RunUpdates
    <3>4. r.of = Mine(w).of /\ r.cursor = Mine(w).cursor /\ r.blocked = B
      BY <1>1 DEF Run
    <3> HIDE DEF r
    <3> QED
      BY <3>2, <3>3, <3>4 DEF B
  <2> QED
    BY <2>1, <2>2
<1> HIDE DEF s
<1>7. /\ exec' \in [Backfillers -> Exec] /\ exec'[w] = e
      /\ \A v \in Backfillers : v # w => exec'[v] = exec[v]
  BY <1>2, <1>3, Moving
<1>8. /\ runs' \in Seq(Run) /\ Len(runs') = Len(runs)
      /\ runs'[exec[w].run] = r
      /\ \A i \in 1..Len(runs) : i # exec[w].run => runs'[i] = runs[i]
  BY <1>1, <1>6, Saving
<1>9. /\ stored = [t \in Scopes |-> stored[t]]
      /\ \A t \in Scopes : stored[t] \subseteq 1..Pages[t]
  BY DEF RunInvariant, ScopesAreKept, TypeOK
<1>10. /\ stored' = [t \in Scopes |-> stored'[t]]
       /\ \A t \in Scopes : t # s => stored'[t] = stored[t]
       /\ stored'[s] \in {stored[s], stored[s] \cup {p}}
  <2>1. CASE stored' = stored
    BY <1>9, <2>1
  <2>2. CASE stored' = [stored EXCEPT ![s] = stored[s] \cup {p}]
    <3>1. stored' = [t \in Scopes |-> IF t = s THEN stored[s] \cup {p}
                                               ELSE stored[t]]
      BY <1>9, <2>2
    <3> QED
      BY <1>1, <3>1
  <2> QED
    BY <1>5, <2>1, <2>2
<1>11. TypeOK'
  <2>1. \A t \in Scopes : stored'[t] \subseteq 1..Pages[t]
    BY <1>4, <1>9, <1>10
  <2> QED
    BY <1>3, <1>7, <1>8, <2>1 DEF TypeOK, LockTypeOK, lockVars
<1>12. owner = w
  BY <1>1 DEF LockInvariant, LockIsHeld, AtPage, At
<1>13. LockInvariant'
  BY <1>2, <1>3, <1>7, <1>12, LockFrame
<1>14. PageIsOpen'
  BY <1>2, <1>7, <1>12 DEF PageIsOpen, LockInvariant, LockIsHeld, AtPage, At
<1>15. exec[w].run = Len(runs) /\ Len(runs) \in Nat /\ DOMAIN runs = 1..Len(runs)
  BY <1>1, FencedIsNewest, ExecTypes
<1>16. \A i \in 1..Len(runs) : runs[i].blocked \subseteq runs'[i].blocked
  BY <1>6, <1>8 DEF Mine
<1>17. ASSUME NEW t \in Scopes
       PROVE  /\ stored[t] \subseteq stored'[t]
              /\ 1..runs'[exec[w].run].cursor[t] \subseteq stored'[t]
              /\ LET known == Mine(w).cursor[t]
                     known2 == runs'[exec[w].run].cursor[t]
                     stopped == \E i \in 1..Len(runs) : t \in runs[i].blocked
                     stopped2 == \E i \in 1..Len(runs) : t \in runs'[i].blocked
                 IN stored[t] \subseteq 1..(IF stopped THEN known + 1 ELSE known) =>
                      stored'[t] \subseteq
                        1..(IF stopped2 THEN known2 + 1 ELSE known2)
  <2>1. /\ Mine(w).cursor \in [Scopes -> Nat] /\ Mine(w).cursor[t] \in Nat
        /\ 1..Mine(w).cursor[t] \subseteq stored[t]
    BY <1>1, <1>15 DEF Run, RunInvariant, StoredUpToCursor, Mine
  <2>2. stored[t] \subseteq stored'[t]
    BY <1>10
  <2>3. (\E i \in 1..Len(runs) : t \in runs[i].blocked) =>
          \E i \in 1..Len(runs) : t \in runs'[i].blocked
    BY <1>16
  <2>4. CASE t # s
    <3>1. r.cursor[t] = Mine(w).cursor[t] /\ stored'[t] = stored[t]
      BY <1>6, <1>10, <2>1, <2>4
    <3> QED
      BY <1>8, <2>1, <2>2, <2>3, <3>1
  <2>5. CASE t = s /\ r.cursor = [Mine(w).cursor EXCEPT ![s] = p]
                   /\ stored' = [stored EXCEPT ![s] = stored[s] \cup {p}]
    <3>1. r.cursor[t] = p /\ p = Mine(w).cursor[t] + 1
          /\ stored'[t] = stored[t] \cup {p}
      <4>1. stored'[s] = stored[s] \cup {p}
        BY <1>1, <1>9, <2>5
      <4> QED
        BY <1>4, <2>1, <2>5, <4>1
    <3>2. 1..p \subseteq stored'[t]
      BY <2>1, <3>1
    <3> QED
      BY <1>8, <2>1, <2>2, <2>3, <3>1, <3>2
  <2>6. CASE t = s /\ r.cursor = Mine(w).cursor
                   /\ r.blocked = Mine(w).blocked \cup {s}
    <3>1. r.cursor[t] = Mine(w).cursor[t] /\ p = Mine(w).cursor[t] + 1
          /\ stored'[t] \subseteq stored[t] \cup {p}
      BY <1>4, <1>10, <2>6
    <3>2. \E i \in 1..Len(runs) : t \in runs'[i].blocked
      BY <1>1, <1>8, <2>6
    <3> QED
      BY <1>8, <2>1, <2>2, <3>1, <3>2
  <2> QED
    BY <1>6, <2>4, <2>5, <2>6
<1>18. RunInvariant'
  <2>1. exec'[w].pc \in {"choosing", "release"} /\ exec'[w].run = exec[w].run
        /\ exec'[w].last = exec[w].last /\ runs'[exec[w].run].of = Mine(w).of
        /\ UNCHANGED <<job, fetched>>
    BY <1>2, <1>3, <1>6, <1>7, <1>8
  <2> QED
    BY <1>1, <1>7, <1>8, <1>10, <1>11, <1>14, <1>17, <2>1, ScopesFrame
<1> QED
  BY <1>11, <1>13, <1>18

\* A claim: the newest run is continued, or a first run starts from nothing.
LEMMA ClaimStep ==
  ASSUME CollectionInvariant, NEW w \in Backfillers, claim_job(w)
  PROVE  CollectionInvariant'
<1> USE DEF CollectionInvariant
<1>1. CASE ~Claimable(w)
  <2>1. Move(w, Idle) /\ UNCHANGED <<job, runs, stored, fetched>>
        /\ UNCHANGED lockVars /\ left' \in 0..MaxHindrances
    BY <1>1, HindranceTypes DEF claim_job
  <2> QED
    BY <2>1, RestStep
<1>2. CASE Claimable(w)
  <2> DEFINE n == Len(runs) + 1
             i == job.active
             old == Aborted(i)
             last == exec[w].last
             c == Continuing(last)
             e == [exec[w] EXCEPT !.pc = "claimed", !.run = n]
  <2>1. /\ exec[w] \in Exec /\ runs \in Seq(Run) /\ Len(runs) \in Nat
        /\ last \in 0..Len(runs) /\ n \in 1..MaxRuns
        /\ DOMAIN runs = 1..Len(runs)
    <3>1. last \in 0..MaxRuns /\ last <= Len(runs)
      BY ExecTypes DEF RunInvariant, RunsAreTheirs
    <3> QED
      BY <3>1, ExecTypes, CollectionAssumption DEF claim_job
  <2>2. /\ runs' = Append(old, c)
        /\ job' = [job EXCEPT !.active = n]
        /\ Move(w, e)
        /\ UNCHANGED <<lockVars, stored, fetched, left>>
        /\ job.state = "ready" /\ (last # 0 => last = Len(runs))
        /\ At(w, "probed")
    BY <1>2 DEF claim_job, Claimable
  <2>3. /\ old \in Seq(Run) /\ Len(old) = Len(runs)
        /\ \A j \in 1..Len(runs) : /\ old[j].of = runs[j].of
                                   /\ old[j].cursor = runs[j].cursor
                                   /\ old[j].blocked = runs[j].blocked
    <3>1. CASE i = 0
      BY <2>1, <3>1 DEF Aborted
    <3>2. CASE i # 0
      <4>1. i \in 1..Len(runs) /\ runs[i] \in Run
        BY <2>1, <3>2 DEF RunInvariant, ActiveIsNewest
      <4> DEFINE a == [runs[i] EXCEPT !.status = "aborted"]
      <4>2. a \in Run
        BY <4>1, RunUpdates
      <4>3. a.of = runs[i].of /\ a.cursor = runs[i].cursor
            /\ a.blocked = runs[i].blocked
        BY <4>1 DEF Run
      <4>4. old = [runs EXCEPT ![i] = a]
        BY <3>2 DEF Aborted
      <4> HIDE DEF a, old
      <4> QED
        BY <2>1, <4>1, <4>2, <4>3, <4>4
    <3> QED
      BY <3>1, <3>2
  <2>4. /\ c \in Run
        /\ last = 0 => /\ c.of = 0 /\ c.blocked = {}
                       /\ \A s \in Scopes : c.cursor[s] = 0
        /\ last # 0 => /\ c.of = last /\ c.blocked = runs[last].blocked
                       /\ c.cursor = runs[last].cursor
    <3>1. Fresh \in Run
      BY CollectionAssumption DEF Fresh, Run, Scopes
    <3>2. CASE last = 0
      BY <3>1, <3>2 DEF Continuing, Fresh
    <3>3. CASE last # 0
      <4>1. runs[last] \in Run /\ last \in 0..MaxRuns
        BY <2>1, <3>3, CollectionAssumption
      <4>2. c = [Fresh EXCEPT !.of = last, !.imported = runs[last].imported,
                   !.cursor = runs[last].cursor, !.blocked = runs[last].blocked]
        BY <3>3 DEF Continuing
      <4> QED
        BY <3>1, <3>3, <4>1, <4>2 DEF Run
    <3> QED
      BY <3>2, <3>3
  <2>5. /\ e \in Exec /\ e.pc = "claimed" /\ e.run = n /\ e.last = last
    <3>1. e \in Exec
      <4>1. exec[w] \in Exec /\ n \in 0..MaxRuns
        BY <2>1
      <4> HIDE DEF n
      <4> QED
        BY <4>1, ExecUpdates DEF PCs
    <3> QED
      BY <2>1, <3>1 DEF Exec
  <2> HIDE DEF e, c, old, last
  <2>6. /\ exec' \in [Backfillers -> Exec] /\ exec'[w] = e
        /\ \A v \in Backfillers : v # w => exec'[v] = exec[v]
    BY <2>2, <2>5, Moving
  <2>7. /\ runs' \in Seq(Run) /\ Len(runs') = n /\ runs'[n] = c
        /\ DOMAIN runs' = 1..n
        /\ \A j \in 1..Len(runs) : runs'[j] = old[j]
    BY <2>1, <2>2, <2>3, <2>4
  <2>8. \A j \in 1..Len(runs) : /\ runs'[j].of = runs[j].of
                                /\ runs'[j].cursor = runs[j].cursor
                                /\ runs'[j].blocked = runs[j].blocked
    BY <2>3, <2>7
  <2>9. job' \in Job /\ job'.active = n /\ job'.state = "ready"
    <3>1. job \in Job /\ n \in 0..MaxRuns
      BY <2>1 DEF TypeOK
    <3> HIDE DEF n
    <3> QED
      BY <2>2, <3>1 DEF Job
  <2>10. TypeOK'
    <3>1. Len(runs') <= MaxRuns
      BY <2>1, <2>7
    <3> QED
      BY <2>2, <2>6, <2>7, <2>9, <3>1 DEF TypeOK, LockTypeOK, lockVars
  <2>11. LockInvariant'
    BY <2>2, <2>5, <2>6, LockFrame DEF AtPage
  <2>12. ScopesAreKept' /\ NothingIsEarly'
    <3>1. runs' # <<>>
      BY <2>1, <2>7
    <3> QED
      BY <2>2, <3>1 DEF RunInvariant, ScopesAreKept, NothingIsEarly
  <2>13. RunsAreTheirs'
    <3>1. \A v \in Backfillers : v # w =>
            /\ exec'[v].last <= Len(runs)
            /\ exec'[v].pc \notin {"idle", "probed"} =>
                 exec'[v].run \in 1..Len(runs)
      BY <2>6 DEF RunInvariant, RunsAreTheirs, Claimed
    <3>2. exec'[w].last <= Len(runs) /\ exec'[w].run = n
      BY <2>1, <2>5, <2>6
    <3>3. \A v \in Backfillers : exec'[v].last \in Nat
      BY <2>6 DEF Exec
    <3>4. \A v \in Backfillers :
            /\ exec'[v].last <= Len(runs')
            /\ exec'[v].pc \notin {"idle", "probed"} =>
                 exec'[v].run \in 1..Len(runs')
      BY <2>1, <2>7, <3>1, <3>2, <3>3
    <3>5. \A v, x \in Backfillers :
            /\ exec'[v].pc \notin {"idle", "probed"}
            /\ exec'[x].pc \notin {"idle", "probed"} /\ v # x
            => exec'[v].run # exec'[x].run
      <4>1. \A v \in Backfillers :
              v # w /\ exec'[v].pc \notin {"idle", "probed"} =>
                exec'[v].run # n
        BY <2>1, <3>1
      <4>2. \A v, x \in Backfillers :
              /\ exec'[v].pc \notin {"idle", "probed"}
              /\ exec'[x].pc \notin {"idle", "probed"}
              /\ v # x /\ v # w /\ x # w
              => exec'[v].run # exec'[x].run
        BY <2>6 DEF RunInvariant, RunsAreTheirs, Claimed
      <4> QED
        BY <3>2, <4>1, <4>2
    <3> QED
      BY <3>4, <3>5 DEF RunsAreTheirs, Claimed
  <2>14. ActiveIsNewest' /\ CompletedIsDrained'
    BY <2>7, <2>9 DEF ActiveIsNewest, CompletedIsDrained
  <2>15. PageIsOpen'
    <3> SUFFICES ASSUME NEW v \in Backfillers,
                        exec'[v].pc \in {"locked", "reserved", "answered"}
                 PROVE  runs'[exec'[v].run].cursor[exec'[v].scope]
                          < Pages[exec'[v].scope]
      BY DEF PageIsOpen, Mine
    <3>1. v # w /\ exec'[v] = exec[v] /\ Claimed(v)
      BY <2>5, <2>6 DEF Claimed
    <3>2. exec[v].run \in 1..Len(runs)
      BY <3>1 DEF RunInvariant, RunsAreTheirs
    <3> QED
      BY <2>8, <3>1, <3>2 DEF RunInvariant, PageIsOpen, Mine
  <2>16. RetriedWasBlocked'
    <3> SUFFICES ASSUME NEW v \in Backfillers, exec'[v].pc = "claimed",
                        NEW s \in runs'[exec'[v].run].blocked
                 PROVE  \E r \in 1..(exec'[v].run - 1) : s \in runs'[r].blocked
      BY DEF RetriedWasBlocked, Mine, At
    <3>1. CASE v # w
      <4>1. exec'[v] = exec[v] /\ Claimed(v)
        BY <2>6, <3>1 DEF Claimed
      <4>2. exec[v].run \in 1..Len(runs)
        BY <4>1 DEF RunInvariant, RunsAreTheirs
      <4>3. s \in runs[exec[v].run].blocked
        BY <2>8, <4>1, <4>2
      <4>4. PICK r \in 1..(exec[v].run - 1) : s \in runs[r].blocked
        BY <4>1, <4>3 DEF RunInvariant, RetriedWasBlocked, Mine, At
      <4>5. r \in 1..Len(runs)
        BY <2>1, <4>2
      <4> QED
        BY <2>8, <4>1, <4>4, <4>5
    <3>2. CASE v = w
      <4>1. exec'[v].run = n /\ s \in c.blocked
        BY <2>5, <2>6, <2>7, <3>2
      <4>2. last \in 1..Len(runs) /\ s \in runs[last].blocked
        BY <2>1, <2>4, <4>1
      <4>3. last \in 1..(n - 1)
        BY <2>1, <4>2
      <4> QED
        BY <2>8, <4>1, <4>2, <4>3
    <3> QED
      BY <3>1, <3>2
  <2>17. StoredUpToCursor'
    <3>1. ASSUME NEW r \in 1..n, NEW s \in Scopes
          PROVE  1..runs'[r].cursor[s] \subseteq stored'[s]
      <4>1. CASE r = n /\ last = 0
        BY <2>4, <2>7, <4>1
      <4>2. CASE r = n /\ last # 0
        BY <2>1, <2>2, <2>4, <2>7, <4>2 DEF RunInvariant, StoredUpToCursor
      <4>3. CASE r # n
        <5>1. r \in 1..Len(runs)
          BY <2>1, <4>3
        <5> QED
          BY <2>1, <2>2, <2>8, <5>1 DEF RunInvariant, StoredUpToCursor
      <4> QED
        BY <4>1, <4>2, <4>3
    <3>2. ASSUME Chained', NEW s \in Scopes
          PROVE  stored'[s] \subseteq
                   1..(IF \E r \in 1..n : s \in runs'[r].blocked
                       THEN runs'[n].cursor[s] + 1 ELSE runs'[n].cursor[s])
      <4>1. Chained
        BY <2>1, <2>7, <2>8, <3>2 DEF Chained
      <4>2. c.of = Len(runs)
        BY <2>1, <2>7, <3>2 DEF Chained
      <4>3. CASE last = 0
        BY <2>1, <2>2, <2>4, <4>2, <4>3 DEF RunInvariant, NothingIsEarly
      <4>4. CASE last # 0
        <5>1. last = Len(runs) /\ runs # <<>> /\ last \in 1..Len(runs)
          BY <2>1, <2>2, <4>4
        <5>2. stored[s] \subseteq
                1..(IF \E r \in 1..Len(runs) : s \in runs[r].blocked
                    THEN runs[last].cursor[s] + 1 ELSE runs[last].cursor[s])
          BY <2>1, <4>1, <5>1 DEF RunInvariant, StoredUpToCursor
        <5>3. (\E r \in 1..Len(runs) : s \in runs[r].blocked) =>
                \E r \in 1..n : s \in runs'[r].blocked
          BY <2>1, <2>8
        <5>4. runs'[n].cursor[s] = runs[last].cursor[s]
              /\ runs[last].cursor[s] \in Nat /\ stored'[s] = stored[s]
          BY <2>1, <2>2, <2>4, <2>7, <4>4, <5>1 DEF Run
        <5> QED
          BY <5>2, <5>3, <5>4
      <4> QED
        BY <4>3, <4>4
    <3> QED
      BY <2>7, <3>1, <3>2 DEF StoredUpToCursor
  <2> QED
    BY <2>10, <2>11, <2>12, <2>13, <2>14, <2>15, <2>16, <2>17 DEF RunInvariant
<1> QED
  BY <1>1, <1>2

-----------------------------------------------------------------------------
(* What is paid for: the accounts, in parts *)

\* A request that was reserved and not sent is still to be paid for.
Reserved == \E w \in Backfillers : At(w, "reserved")
PaidIsReserved == Len(fetched) + (IF Reserved THEN 1 ELSE 0) <= Requested

\* The page that an executor with a live claim is about to store.
InHand(x) == \E w \in Backfillers :
  At(w, "answered") /\ Fenced(w) /\ x = <<exec[w].scope, NextPage(w)>>

\* The newest run has passed the page.
Passed(x) == runs # <<>> /\ x[2] <= runs[Len(runs)].cursor[x[1]]

\* Pages that will have to be paid for again.
Lost == {x \in PaidPages : ~Passed(x) /\ ~InHand(x)}

\* A request that is going to be sent although its claim is gone.
Stray == \E w \in Backfillers : At(w, "reserved") /\ ~Fenced(w)

\* Whatever was or will be paid for again was charged to a hindrance.
LossesAreCharged == Chained =>
  Len(fetched) + Cardinality(Lost) + (IF Stray THEN 1 ELSE 0)
    <= Cardinality(PaidPages) + (MaxHindrances - left)

AccountInvariant == /\ PaidIsReserved
                    /\ Requested <= MaxRequests
                    /\ IsFiniteSet(PaidPages)
                    /\ runs = <<>> => fetched = <<>>
                    /\ LossesAreCharged

\* Steps that keep what is accounted for, or what is known of the pages.
KeepsRequests == /\ Len(runs') = Len(runs)
                 /\ \A i \in 1..Len(runs) : runs'[i].requests = runs[i].requests
KeepsCursors == /\ Len(runs') = Len(runs)
                /\ \A i \in 1..Len(runs) : /\ runs'[i].of = runs[i].of
                                           /\ runs'[i].cursor = runs[i].cursor

\* What an executor does alone, unless it claims, pays or stores: nothing that
\* it has in hand is lost without a hindrance.
TurnOf(w) ==
  /\ UNCHANGED fetched /\ KeepsCursors
  /\ \A v \in Backfillers : v # w =>
       exec'[v] = exec[v] /\ (Claimed(v) /\ Fenced(v) => Fenced(v)')
  /\ exec'[w].pc = "reserved" => Fenced(w)'
  /\ \/ left' = left /\ ~(At(w, "answered") /\ Fenced(w))
     \/ left' = left - 1

\* Requests of the runs are finitely many.
LEMMA RequestsFinite ==
  ASSUME TypeOK
  PROVE  IsFiniteSet(Requests) /\ Requested \in Nat
<1>1. DOMAIN runs = 1..Len(runs) /\ Len(runs) \in Nat
  BY DEF TypeOK
<1>2. IsFiniteSet(1..Len(runs)) /\ IsFiniteSet(1..RunRequests)
  BY <1>1, CollectionAssumption, FS_Interval
<1>3. IsFiniteSet((1..Len(runs)) \X (1..RunRequests))
  BY <1>2, FS_Product
<1>4. Requests \subseteq (1..Len(runs)) \X (1..RunRequests)
  BY <1>1 DEF Requests
<1>5. IsFiniteSet(Requests)
  BY <1>3, <1>4, FS_Subset
<1> QED
  BY <1>5, FS_CardinalityType DEF Requested

\* New runs that have not asked for anything change nothing.
LEMMA RequestedFrame ==
  ASSUME TypeOK, TypeOK', Len(runs) <= Len(runs'),
         \A i \in 1..Len(runs) : runs'[i].requests = runs[i].requests,
         \A i \in (Len(runs) + 1)..Len(runs') : runs'[i].requests = 0
  PROVE  Requested' = Requested
<1>1. /\ DOMAIN runs = 1..Len(runs) /\ Len(runs) \in Nat
      /\ DOMAIN runs' = 1..Len(runs') /\ Len(runs') \in Nat
      /\ RunRequests \in Nat
  BY CollectionAssumption DEF TypeOK
<1>2. ASSUME NEW i \in 1..Len(runs'), NEW n \in 1..RunRequests
      PROVE  n <= runs'[i].requests <=> i \in 1..Len(runs) /\ n <= runs[i].requests
  <2>1. CASE i \in 1..Len(runs)
    BY <1>1, <2>1
  <2>2. CASE i \notin 1..Len(runs)
    <3>1. runs'[i].requests = 0
      BY <1>1, <2>2
    <3> QED
      BY <1>1, <2>2, <3>1
  <2> QED
    BY <2>1, <2>2
<1>3. Requests' = Requests
  <2>1. ASSUME NEW q \in (1..Len(runs')) \X (1..RunRequests)
        PROVE  q \in Requests' <=> q \in Requests
    <3>1. q[1] \in 1..Len(runs') /\ q[2] \in 1..RunRequests
          /\ q = <<q[1], q[2]>>
      BY <2>1
    <3> QED
      BY <1>1, <1>2, <3>1 DEF Requests
  <2>2. /\ Requests' \subseteq (1..Len(runs')) \X (1..RunRequests)
        /\ Requests \subseteq (1..Len(runs')) \X (1..RunRequests)
    <3>1. (1..Len(runs)) \subseteq 1..Len(runs')
      BY <1>1
    <3> QED
      BY <1>1, <3>1 DEF Requests
  <2> QED
    BY <2>1, <2>2
<1> QED
  BY <1>3 DEF Requested

\* A run that asks once more.
LEMMA RequestedOnceMore ==
  ASSUME TypeOK, TypeOK', Len(runs') = Len(runs),
         NEW r \in 1..Len(runs), runs'[r].requests = runs[r].requests + 1,
         \A i \in 1..Len(runs) : i # r => runs'[i].requests = runs[i].requests
  PROVE  Requested' = Requested + 1
<1> DEFINE q == <<r, runs[r].requests + 1>>
<1>1. /\ DOMAIN runs = 1..Len(runs) /\ Len(runs) \in Nat
      /\ DOMAIN runs' = 1..Len(runs)
      /\ RunRequests \in Nat /\ runs[r] \in Run /\ runs'[r] \in Run
  BY CollectionAssumption DEF TypeOK
<1>2. runs[r].requests \in Nat /\ runs[r].requests + 1 \in 1..RunRequests
  BY <1>1 DEF Run
<1>3. q \notin Requests
  BY <1>2 DEF Requests
<1>4. ASSUME NEW i \in 1..Len(runs), NEW n \in 1..RunRequests
      PROVE  <<i, n>> \in Requests' <=> <<i, n>> \in Requests \/ <<i, n>> = q
  <2>1. /\ <<i, n>> \in Requests' <=> n <= runs'[i].requests
        /\ <<i, n>> \in Requests <=> n <= runs[i].requests
    BY <1>1 DEF Requests
  <2>2. CASE i = r
    BY <1>2, <2>1, <2>2
  <2>3. CASE i # r
    BY <2>1, <2>3
  <2> QED
    BY <2>2, <2>3
<1>5. /\ Requests' \subseteq (1..Len(runs)) \X (1..RunRequests)
      /\ Requests \cup {q} \subseteq (1..Len(runs)) \X (1..RunRequests)
  BY <1>1, <1>2 DEF Requests
<1> HIDE DEF q
<1>6. Requests' = Requests \cup {q}
  BY <1>4, <1>5
<1> QED
  BY <1>3, <1>6, RequestsFinite, FS_AddElement DEF Requested

\* The lost pages are finitely many.
LEMMA LostFinite ==
  ASSUME IsFiniteSet(PaidPages)
  PROVE  /\ IsFiniteSet(Lost) /\ Cardinality(Lost) \in Nat
         /\ Cardinality(PaidPages) \in Nat
<1>1. Lost \in SUBSET PaidPages
  BY DEF Lost
<1> QED
  BY <1>1, FS_Subset, FS_CardinalityType

\* Steps that pay for nothing: what is lost is charged.
LEMMA Balance ==
  ASSUME TypeOK, TypeOK', IsFiniteSet(PaidPages), LossesAreCharged,
         UNCHANGED fetched, Chained' => Chained, NEW y,
         Chained' => \/ left' = left /\ Lost' \subseteq Lost /\ (Stray' => Stray)
                     \/ left' = left - 1 /\ Lost' \subseteq Lost
                     \/ /\ left' = left - 1 /\ Lost' \subseteq Lost \cup {y}
                        /\ Stray' => Stray
  PROVE  LossesAreCharged'
<1> SUFFICES ASSUME Chained'
             PROVE  Len(fetched) + Cardinality(Lost') + (IF Stray' THEN 1 ELSE 0)
                      <= Cardinality(PaidPages) + (MaxHindrances - left')
  BY DEF LossesAreCharged, PaidPages
<1>1. /\ IsFiniteSet(Lost) /\ Cardinality(Lost) \in Nat
      /\ Cardinality(PaidPages) \in Nat
  BY LostFinite
<1>2. /\ left \in Int /\ left' \in Int /\ MaxHindrances \in Int
      /\ Len(fetched) \in Nat
  BY CollectionAssumption DEF TypeOK
<1>3. Len(fetched) + Cardinality(Lost) + (IF Stray THEN 1 ELSE 0)
        <= Cardinality(PaidPages) + (MaxHindrances - left)
  BY DEF LossesAreCharged
<1>4. ASSUME Lost' \subseteq Lost
      PROVE  Cardinality(Lost') \in Nat /\ Cardinality(Lost') <= Cardinality(Lost)
  <2>1. Lost' \in SUBSET Lost
    BY <1>4
  <2> HIDE DEF Lost
  <2> QED
    BY <1>1, <2>1, FS_Subset, FS_CardinalityType
<1>5. ASSUME Lost' \subseteq Lost \cup {y}
      PROVE  /\ Cardinality(Lost') \in Nat
             /\ Cardinality(Lost') <= Cardinality(Lost) + 1
  <2>1. /\ IsFiniteSet(Lost \cup {y})
        /\ Cardinality(Lost \cup {y}) <= Cardinality(Lost) + 1
    <3>1. /\ IsFiniteSet(Lost \cup {y})
          /\ Cardinality(Lost \cup {y}) = IF y \in Lost THEN Cardinality(Lost)
                                                   ELSE Cardinality(Lost) + 1
      <4> HIDE DEF Lost
      <4> QED
        BY <1>1, FS_AddElement
    <3> QED
      BY <1>1, <3>1
  <2>2. Lost' \in SUBSET (Lost \cup {y})
    BY <1>5
  <2>3. /\ Cardinality(Lost') \in Nat
        /\ Cardinality(Lost') <= Cardinality(Lost \cup {y})
        /\ Cardinality(Lost \cup {y}) \in Nat
    BY <2>1, <2>2, FS_Subset, FS_CardinalityType
  <2> QED
    BY <1>1, <2>1, <2>3
<1> HIDE DEF Lost
<1>6. CASE left' = left /\ Lost' \subseteq Lost /\ (Stray' => Stray)
  BY <1>1, <1>2, <1>3, <1>4, <1>6
<1>7. CASE left' = left - 1 /\ Lost' \subseteq Lost
  BY <1>1, <1>2, <1>3, <1>4, <1>7
<1>8. CASE left' = left - 1 /\ Lost' \subseteq Lost \cup {y} /\ (Stray' => Stray)
  BY <1>1, <1>2, <1>3, <1>5, <1>8
<1> QED
  BY <1>6, <1>7, <1>8

\* Cursors that are kept keep what has been passed.
LEMMA CursorsFrame ==
  ASSUME TypeOK, TypeOK', KeepsCursors
  PROVE  (Chained' => Chained) /\ \A x : Passed(x)' <=> Passed(x)
<1>1. /\ runs \in Seq(Run) /\ runs' \in Seq(Run)
      /\ DOMAIN runs = 1..Len(runs) /\ Len(runs) \in Nat
      /\ DOMAIN runs' = 1..Len(runs) /\ Len(runs') = Len(runs)
  BY DEF TypeOK, KeepsCursors
<1>2. Chained' => Chained
  BY <1>1 DEF Chained, KeepsCursors
<1>3. runs' = <<>> <=> runs = <<>>
  BY <1>1
<1>4. ASSUME NEW x, runs # <<>>
      PROVE  Passed(x)' <=> Passed(x)
  <2>1. Len(runs) \in 1..Len(runs)
    BY <1>1, <1>4
  <2> QED
    BY <1>1, <1>3, <1>4, <2>1 DEF Passed, KeepsCursors
<1> QED
  BY <1>2, <1>3, <1>4 DEF Passed

\* An executor that does not move keeps its page, as long as its claim lives.
LEMMA HandFrame ==
  ASSUME CollectionInvariant, KeepsCursors, NEW v \in Backfillers,
         exec'[v] = exec[v], Claimed(v) /\ Fenced(v) => Fenced(v)'
  PROVE  /\ \A x : At(v, "answered") /\ Fenced(v) /\ x = <<exec[v].scope, NextPage(v)>>
                     => InHand(x)'
         /\ At(v, "reserved")' /\ ~Fenced(v)' => Stray
<1>1. At(v, "answered") => Claimed(v) /\ NextPage(v)' = NextPage(v)
  <2> SUFFICES ASSUME At(v, "answered")
               PROVE  Claimed(v) /\ NextPage(v)' = NextPage(v)
    OBVIOUS
  <2>1. Claimed(v)
    BY DEF At, Claimed
  <2>2. exec[v].run \in 1..Len(runs)
    BY <2>1, ExecTypes
  <2> QED
    BY <2>1, <2>2 DEF NextPage, Mine, KeepsCursors
<1>2. At(v, "reserved") => Claimed(v)
  BY DEF At, Claimed
<1>3. /\ At(v, "answered")' <=> At(v, "answered")
      /\ At(v, "reserved")' <=> At(v, "reserved")
  BY DEF At
<1> QED
  BY <1>1, <1>2, <1>3 DEF InHand, Stray

\* Only one executor at a time is at a page.
LEMMA OneAtPage ==
  ASSUME CollectionInvariant, NEW v \in Backfillers, NEW w \in Backfillers,
         exec[v].pc \in AtPage, exec[w].pc \in AtPage
  PROVE  v = w
BY DEF CollectionInvariant, LockInvariant, LockIsHeld

\* A turn of an executor loses at most its own page, and pays for it with a
\* hindrance.
LEMMA TurnAccount ==
  ASSUME CollectionInvariant, TypeOK', IsFiniteSet(PaidPages),
         LossesAreCharged, NEW w \in Backfillers, TurnOf(w)
  PROVE  LossesAreCharged'
<1> DEFINE y == <<exec[w].scope, NextPage(w)>>
<1>0. TypeOK /\ UNCHANGED fetched /\ KeepsCursors
  BY DEF CollectionInvariant, TurnOf
<1>1. (Chained' => Chained) /\ \A x : Passed(x)' <=> Passed(x)
  BY <1>0, CursorsFrame
<1>2. ASSUME NEW x \in Lost', x \notin Lost
      PROVE  At(w, "answered") /\ Fenced(w) /\ x = y
  <2>1. x \in PaidPages /\ ~Passed(x) /\ ~InHand(x)'
    BY <1>0, <1>1, <1>2 DEF Lost, PaidPages
  <2>2. PICK v \in Backfillers :
          At(v, "answered") /\ Fenced(v) /\ x = <<exec[v].scope, NextPage(v)>>
    BY <1>2, <2>1 DEF Lost, InHand
  <2>3. ASSUME v # w PROVE FALSE
    BY <1>0, <2>1, <2>2, <2>3, HandFrame DEF TurnOf
  <2> QED
    BY <2>2, <2>3
<1>3. Stray' => Stray
  <2> SUFFICES ASSUME NEW v \in Backfillers, At(v, "reserved")', ~Fenced(v)'
               PROVE  Stray
    BY DEF Stray
  <2>1. v # w
    BY DEF TurnOf, At
  <2> QED
    BY <1>0, <2>1, HandFrame DEF TurnOf
<1>4. Lost' \subseteq Lost \cup {y}
  BY <1>2
<1>5. (left' = left /\ Lost' \subseteq Lost) \/ left' = left - 1
  BY <1>2 DEF TurnOf
<1> HIDE DEF y
<1> QED
  BY <1>0, <1>1, <1>3, <1>4, <1>5, Balance

\* The clock, the operator and the live harvests move no executor: what a claim
\* that ends has in hand, a page or a request, is charged.
LEMMA OutsideAccount ==
  ASSUME CollectionInvariant, TypeOK', IsFiniteSet(PaidPages),
         LossesAreCharged, UNCHANGED <<fetched, exec>>, KeepsCursors,
         \/ /\ left' = left
            /\ \A v \in Backfillers : Claimed(v) /\ Fenced(v) => Fenced(v)'
         \/ left' = left - 1
  PROVE  LossesAreCharged'
<1>0. TypeOK
  BY DEF CollectionInvariant
<1>1. (Chained' => Chained) /\ \A x : Passed(x)' <=> Passed(x)
  BY <1>0, CursorsFrame
<1>2. ASSUME NEW x \in Lost', x \notin Lost
      PROVE  \E v \in Backfillers :
        At(v, "answered") /\ Fenced(v) /\ x = <<exec[v].scope, NextPage(v)>>
  BY <1>1, <1>2 DEF Lost, PaidPages, InHand
<1>3. CASE \E v \in Backfillers : At(v, "answered")
  <2>1. PICK w \in Backfillers : At(w, "answered")
    BY <1>3
  <2> DEFINE y == <<exec[w].scope, NextPage(w)>>
  <2>2. Lost' \subseteq Lost \cup {y}
    BY <1>2, <2>1, OneAtPage DEF At, AtPage
  <2>3. ~Stray'
    BY <2>1, OneAtPage DEF Stray, At, AtPage
  <2>4. left' = left => Lost' \subseteq Lost
    <3> SUFFICES ASSUME left' = left, NEW x \in Lost', x \notin Lost
                 PROVE  FALSE
      OBVIOUS
    <3>1. PICK v \in Backfillers :
            At(v, "answered") /\ Fenced(v) /\ x = <<exec[v].scope, NextPage(v)>>
      BY <1>2
    <3>2. Claimed(v) /\ Fenced(v)'
      <4>1. left \in Nat
        BY <1>0, CollectionAssumption DEF TypeOK
      <4>2. Claimed(v)
        BY <3>1 DEF At, Claimed
      <4> QED
        BY <3>1, <4>1, <4>2
    <3>3. InHand(x)'
      BY <3>1, <3>2, HandFrame
    <3> QED
      BY <3>3 DEF Lost
  <2> HIDE DEF y
  <2> QED
    BY <1>0, <1>1, <2>2, <2>3, <2>4, Balance
<1>4. CASE ~\E v \in Backfillers : At(v, "answered")
  <2>1. Lost' \subseteq Lost
    BY <1>2, <1>4
  <2>2. left' = left => (Stray' => Stray)
    <3> SUFFICES ASSUME left' = left, NEW v \in Backfillers,
                        At(v, "reserved")', ~Fenced(v)'
                 PROVE  Stray
      BY DEF Stray
    <3>1. left \in Nat
      BY <1>0, CollectionAssumption DEF TypeOK
    <3> QED
      BY <3>1, HandFrame
  <2> QED
    BY <1>0, <1>1, <2>1, <2>2, Balance
<1> QED
  BY <1>3, <1>4

\* An executor that does not claim changes its own run alone, and ends no claim
\* but its own.
LEMMA OthersKeepClaims ==
  ASSUME CollectionInvariant, NEW w \in Backfillers, NEW e, Move(w, e),
         Len(runs') = Len(runs),
         \A i \in 1..Len(runs) : i # exec[w].run => runs'[i] = runs[i],
         Claimed(w) \/ UNCHANGED runs,
         UNCHANGED job \/ (Claimed(w) /\ job.active = exec[w].run)
  PROVE  /\ exec'[w] = e
         /\ \A v \in Backfillers : v # w =>
              exec'[v] = exec[v] /\ (Claimed(v) /\ Fenced(v) => Fenced(v)')
<1>1. /\ exec'[w] = e
      /\ \A v \in Backfillers : v # w => exec'[v] = exec[v]
  BY DEF CollectionInvariant, TypeOK, Move
<1>2. ASSUME NEW v \in Backfillers, v # w, Claimed(v), Fenced(v)
      PROVE  Fenced(v)'
  <2>1. exec[v].run \in 1..Len(runs) /\ (Claimed(w) => exec[v].run # exec[w].run)
    BY <1>2 DEF CollectionInvariant, RunInvariant, RunsAreTheirs
  <2>2. runs'[exec[v].run] = runs[exec[v].run] /\ UNCHANGED job
    BY <1>2, <2>1 DEF Fenced
  <2> QED
    BY <1>1, <1>2, <2>2 DEF Fenced, Mine
<1> QED
  BY <1>1, <1>2

\* A turn that reserves nothing keeps the accounts.
LEMMA TurnKeepsAccounts ==
  ASSUME CollectionInvariant, TypeOK', AccountInvariant,
         NEW w \in Backfillers, TurnOf(w), KeepsRequests,
         exec'[w].pc # "reserved"
  PROVE  AccountInvariant'
<1>0. TypeOK /\ Len(runs) \in Nat /\ Len(runs') = Len(runs)
      /\ runs \in Seq(Run) /\ runs' \in Seq(Run)
      /\ UNCHANGED fetched
  BY DEF CollectionInvariant, TypeOK, KeepsRequests, TurnOf
<1>1. Requested' = Requested
  BY <1>0, RequestedFrame DEF KeepsRequests
<1>2. Reserved' => Reserved
  BY DEF Reserved, TurnOf, At
<1>3. PaidIsReserved' /\ (Requested <= MaxRequests)'
  <2>1. Requested \in Nat /\ Len(fetched) \in Nat
    BY <1>0, RequestsFinite DEF TypeOK
  <2>2. Len(fetched) + (IF Reserved THEN 1 ELSE 0) <= Requested
        /\ Requested <= MaxRequests
    BY DEF AccountInvariant, PaidIsReserved
  <2>3. Len(fetched') + (IF Reserved' THEN 1 ELSE 0) <= Requested'
    BY <1>0, <1>1, <1>2, <2>1, <2>2
  <2> QED
    BY <1>1, <2>2, <2>3 DEF PaidIsReserved
<1>4. IsFiniteSet(PaidPages)' /\ (runs' = <<>> => fetched' = <<>>)
  BY <1>0 DEF AccountInvariant, PaidPages
<1>5. LossesAreCharged'
  BY TurnAccount DEF AccountInvariant
<1> QED
  BY <1>3, <1>4, <1>5 DEF AccountInvariant

\* A step of an executor that leaves the job and the runs alone.
LEMMA PlainAccounts ==
  ASSUME CollectionInvariant, TypeOK', AccountInvariant,
         NEW w \in Backfillers, NEW e, Move(w, e), e.pc # "reserved",
         UNCHANGED <<job, runs, fetched>>,
         \/ left' = left /\ ~(At(w, "answered") /\ Fenced(w))
         \/ left' = left - 1
  PROVE  AccountInvariant'
<1>1. /\ exec'[w] = e
      /\ \A v \in Backfillers : v # w =>
           exec'[v] = exec[v] /\ (Claimed(v) /\ Fenced(v) => Fenced(v)')
  <2>1. /\ Len(runs') = Len(runs) /\ UNCHANGED runs /\ UNCHANGED job
        /\ \A i \in 1..Len(runs) : i # exec[w].run => runs'[i] = runs[i]
    OBVIOUS
  <2> QED
    BY <2>1, OthersKeepClaims
<1>2. TurnOf(w) /\ KeepsRequests
  BY <1>1 DEF TurnOf, KeepsRequests, KeepsCursors
<1> QED
  BY <1>1, <1>2, TurnKeepsAccounts

\* An executor that saves its run with its cursors and its requests as they are.
LEMMA SaveAccounts ==
  ASSUME CollectionInvariant, TypeOK', AccountInvariant,
         NEW w \in Backfillers, NEW e, Move(w, e), e.pc # "reserved",
         Claimed(w), NEW r \in Run, Save(w, r),
         r.of = Mine(w).of, r.cursor = Mine(w).cursor,
         r.requests = Mine(w).requests,
         UNCHANGED fetched, UNCHANGED job \/ job.active = exec[w].run,
         \/ left' = left /\ ~(At(w, "answered") /\ Fenced(w))
         \/ left' = left - 1
  PROVE  AccountInvariant'
<1>0. exec[w].run \in 1..Len(runs) /\ TypeOK
  BY ExecTypes DEF CollectionInvariant
<1>1. /\ runs' \in Seq(Run) /\ Len(runs') = Len(runs)
      /\ runs'[exec[w].run] = r
      /\ \A i \in 1..Len(runs) : i # exec[w].run => runs'[i] = runs[i]
  BY <1>0, Saving
<1>2. /\ exec'[w] = e
      /\ \A v \in Backfillers : v # w =>
           exec'[v] = exec[v] /\ (Claimed(v) /\ Fenced(v) => Fenced(v)')
  <2>1. UNCHANGED job \/ (Claimed(w) /\ job.active = exec[w].run)
    OBVIOUS
  <2> QED
    BY <1>1, <2>1, OthersKeepClaims
<1>3. KeepsCursors /\ KeepsRequests
  BY <1>0, <1>1 DEF KeepsCursors, KeepsRequests, Mine
<1>4. TurnOf(w)
  BY <1>2, <1>3 DEF TurnOf
<1> QED
  BY <1>2, <1>3, <1>4, TurnKeepsAccounts

\* The steps of an executor that neither claim, pay nor save.
LEMMA QuietAccounts ==
  ASSUME CollectionInvariant, TypeOK', AccountInvariant, NEW w \in Backfillers,
         \/ Probe(w) \/ Choose(w) \/ Stop(w) \/ PageFails(w)
         \/ ProviderRefuses(w) \/ Unrecorded(w) \/ Release(w)
         \/ Stale(w) \/ Die(w)
         \/ claim_job(w) /\ ~Claimable(w)
         \/ Reserve(w) /\ ~MayReserve(w)
  PROVE  AccountInvariant'
<1>0. exec[w] \in Exec /\ left \in Nat
  BY ExecTypes, CollectionAssumption DEF CollectionInvariant, TypeOK
<1>1. Idle.pc = "idle"
  BY DEF Idle
<1>2. UNCHANGED <<job, runs, fetched>>
  BY DEF Probe, Choose, Stop, PageFails, ProviderRefuses, Unrecorded, Release,
         Stale, Die, claim_job, Reserve
<1>3. \/ left' = left /\ ~(At(w, "answered") /\ Fenced(w))
      \/ left' = left - 1
  BY DEF Probe, Choose, Stop, PageFails, ProviderRefuses, Unrecorded, Release,
         Stale, Die, claim_job, Reserve, Hinder, At
<1>4. \E e : Move(w, e) /\ e.pc # "reserved"
  <2>1. CASE Probe(w)
    <3>1. Move(w, [exec[w] EXCEPT !.pc = "probed", !.last = Len(runs)])
      BY <2>1 DEF Probe
    <3>2. [exec[w] EXCEPT !.pc = "probed", !.last = Len(runs)].pc = "probed"
      BY <1>0 DEF Exec
    <3> QED
      BY <3>1, <3>2
  <2>2. CASE Choose(w)
    <3>1. PICK first : Move(w, [exec[w] EXCEPT !.pc = "locked", !.scope = first])
      BY <2>2 DEF Choose
    <3>2. [exec[w] EXCEPT !.pc = "locked", !.scope = first].pc = "locked"
      BY <1>0 DEF Exec
    <3> QED
      BY <3>1, <3>2
  <2>3. CASE Stop(w) \/ Release(w)
    <3>1. PICK x : x # "reserved" /\ Move(w, [exec[w] EXCEPT !.pc = x])
      BY <2>3 DEF Stop, Release, Go
    <3>2. [exec[w] EXCEPT !.pc = x].pc = x
      BY <1>0 DEF Exec
    <3> QED
      BY <3>1, <3>2
  <2>4. CASE PageFails(w) \/ Unrecorded(w) \/ (Reserve(w) /\ ~MayReserve(w))
    <3>1. Skip(w)
      BY <2>4 DEF PageFails, Unrecorded, Reserve
    <3>2. [exec[w] EXCEPT !.pc = "release", !.error = TRUE,
             !.deferred = exec[w].deferred \cup {exec[w].scope}].pc = "release"
      BY <1>0 DEF Exec
    <3> QED
      BY <3>1, <3>2 DEF Skip
  <2>5. CASE ProviderRefuses(w)
    <3>1. PICK c : Move(w, [exec[w] EXCEPT !.pc = "release", !.error = TRUE,
                              !.stop = TRUE, !.cool = c])
      BY <2>5 DEF ProviderRefuses
    <3>2. [exec[w] EXCEPT !.pc = "release", !.error = TRUE, !.stop = TRUE,
                          !.cool = c].pc = "release"
      BY <1>0 DEF Exec
    <3> QED
      BY <3>1, <3>2
  <2>6. CASE Stale(w) \/ Die(w) \/ (claim_job(w) /\ ~Claimable(w))
    <3>1. Move(w, Idle)
      BY <2>6 DEF Stale, Die, claim_job
    <3> QED
      BY <1>1, <3>1
  <2> QED
    BY <2>1, <2>2, <2>3, <2>4, <2>5, <2>6
<1> QED
  BY <1>2, <1>3, <1>4, PlainAccounts

\* The steps of an executor that save its run, and neither pay nor store.
LEMMA SavingAccounts ==
  ASSUME CollectionInvariant, TypeOK', AccountInvariant, NEW w \in Backfillers,
         Import(w) \/ BlockPage(w) \/ Finish(w)
  PROVE  AccountInvariant'
<1>0. exec[w] \in Exec /\ left \in Nat
      /\ (Claimed(w) => Mine(w) \in Run /\ exec[w].scope \in Scopes)
  BY ExecTypes, CollectionAssumption DEF CollectionInvariant, TypeOK
<1>1. \A x : [exec[w] EXCEPT !.pc = x].pc = x
  BY <1>0 DEF Exec
<1>2. ASSUME Claimed(w)
      PROVE  \A B, x :
        /\ [Mine(w) EXCEPT !.imported = TRUE, !.blocked = B].of = Mine(w).of
        /\ [Mine(w) EXCEPT !.imported = TRUE, !.blocked = B].cursor = Mine(w).cursor
        /\ [Mine(w) EXCEPT !.imported = TRUE, !.blocked = B].requests = Mine(w).requests
        /\ [Mine(w) EXCEPT !.blocked = B].of = Mine(w).of
        /\ [Mine(w) EXCEPT !.blocked = B].cursor = Mine(w).cursor
        /\ [Mine(w) EXCEPT !.blocked = B].requests = Mine(w).requests
        /\ [Mine(w) EXCEPT !.status = x].of = Mine(w).of
        /\ [Mine(w) EXCEPT !.status = x].cursor = Mine(w).cursor
        /\ [Mine(w) EXCEPT !.status = x].requests = Mine(w).requests
  BY <1>0, <1>2 DEF Run
<1>3. CASE Import(w)
  <2>1. Claimed(w)
    BY <1>3 DEF Import, At, Claimed
  <2>2. PICK retry \in BOOLEAN :
          Save(w, [Mine(w) EXCEPT !.imported = TRUE,
                    !.blocked = IF retry THEN {} ELSE Mine(w).blocked])
    BY <1>3 DEF Import
  <2> DEFINE B == IF retry THEN {} ELSE Mine(w).blocked
             r == [Mine(w) EXCEPT !.imported = TRUE, !.blocked = B]
             e == [exec[w] EXCEPT !.pc = "choosing"]
  <2>3. B \in SUBSET Scopes
    BY <1>0, <2>1 DEF Run
  <2>4. r \in Run /\ r.of = Mine(w).of /\ r.cursor = Mine(w).cursor
        /\ r.requests = Mine(w).requests
    <3> HIDE DEF B
    <3> QED
      BY <1>0, <1>2, <2>1, <2>3, RunUpdates
  <2>5. /\ Save(w, r) /\ Move(w, e) /\ e.pc = "choosing"
        /\ UNCHANGED <<job, fetched, left>> /\ ~At(w, "answered")
    BY <1>1, <1>3, <2>2 DEF Import, Go, At
  <2> HIDE DEF r, e
  <2> QED
    BY <2>1, <2>4, <2>5, SaveAccounts
<1>4. CASE BlockPage(w)
  <2>1. Claimed(w)
    BY <1>4 DEF BlockPage, At, Claimed
  <2> DEFINE B == Mine(w).blocked \cup {exec[w].scope}
             r == [Mine(w) EXCEPT !.blocked = B]
             e == [exec[w] EXCEPT !.pc = "release"]
  <2>3. B \in SUBSET Scopes
    BY <1>0, <2>1 DEF Run
  <2>4. r \in Run /\ r.of = Mine(w).of /\ r.cursor = Mine(w).cursor
        /\ r.requests = Mine(w).requests
    <3> HIDE DEF B
    <3> QED
      BY <1>0, <1>2, <2>1, <2>3, RunUpdates
  <2>5. /\ Save(w, r) /\ Move(w, e) /\ e.pc = "release"
        /\ UNCHANGED <<job, fetched>> /\ left' = left - 1
    BY <1>1, <1>4 DEF BlockPage, Go, Hinder
  <2> HIDE DEF r, e
  <2> QED
    BY <2>1, <2>4, <2>5, SaveAccounts
<1>5. CASE Finish(w)
  <2>1. Claimed(w) /\ job.active = exec[w].run
    BY <1>5 DEF Finish, At, Claimed, Fenced
  <2> DEFINE x == IF exec[w].error THEN "failed"
                  ELSE IF Drained(exec[w].run) THEN "success" ELSE "partial"
             r == [Mine(w) EXCEPT !.status = x]
  <2>3. x \in {"running", "aborted", "partial", "failed", "success"}
    OBVIOUS
  <2>4. r \in Run /\ r.of = Mine(w).of /\ r.cursor = Mine(w).cursor
        /\ r.requests = Mine(w).requests
    <3> HIDE DEF x
    <3> QED
      BY <1>0, <1>2, <2>1, <2>3, RunUpdates
  <2>5. /\ Save(w, r) /\ Move(w, Idle) /\ Idle.pc = "idle"
        /\ UNCHANGED <<fetched, left>> /\ ~At(w, "answered")
    BY <1>5 DEF Finish, At, Idle
  <2> HIDE DEF r
  <2> QED
    BY <2>1, <2>4, <2>5, SaveAccounts
<1> QED
  BY <1>3, <1>4, <1>5

\* Reserving: the request that will be sent is accounted for.
LEMMA ReserveAccounts ==
  ASSUME CollectionInvariant, TypeOK', AccountInvariant, NEW w \in Backfillers,
         Reserve(w)
  PROVE  AccountInvariant'
<1>1. CASE ~MayReserve(w)
  BY <1>1, QuietAccounts
<1>2. CASE MayReserve(w)
  <2> DEFINE q == Mine(w).requests + 1
             r == [Mine(w) EXCEPT !.requests = q]
             e == [exec[w] EXCEPT !.pc = "reserved"]
  <2>1. /\ TypeOK /\ Claimed(w) /\ exec[w].run \in 1..Len(runs)
        /\ Mine(w) \in Run /\ exec[w] \in Exec /\ Len(runs) \in Nat
    <3>1. Claimed(w)
      BY DEF Reserve, At, Claimed
    <3> QED
      BY <3>1, ExecTypes DEF CollectionInvariant
  <2>2. q \in 0..RunRequests
    BY <1>2, <2>1, CollectionAssumption DEF MayReserve, Allowance, Run
  <2>3. /\ r \in Run /\ r.requests = q /\ r.of = Mine(w).of
        /\ r.cursor = Mine(w).cursor /\ r.status = Mine(w).status
        /\ r.live = Mine(w).live
    <3> HIDE DEF q
    <3> QED
      <4>1. r \in Run
        BY <2>1, <2>2, RunUpdates
      <4> QED
        BY <2>1, <4>1 DEF Run
  <2>4. e.pc = "reserved" /\ e.run = exec[w].run
    BY <2>1 DEF Exec
  <2>5. Save(w, r) /\ Move(w, e) /\ UNCHANGED <<job, fetched, left>>
        /\ exec[w].pc = "locked"
    BY <1>2 DEF Reserve, Go, At
  <2> HIDE DEF e, r
  <2>6. /\ Len(runs') = Len(runs) /\ runs'[exec[w].run] = r
        /\ \A i \in 1..Len(runs) : i # exec[w].run => runs'[i] = runs[i]
    BY <2>1, <2>3, <2>5, Saving
  <2>7. /\ exec'[w] = e
        /\ \A v \in Backfillers : v # w =>
             exec'[v] = exec[v] /\ (Claimed(v) /\ Fenced(v) => Fenced(v)')
    BY <2>1, <2>5, <2>6, OthersKeepClaims
  <2>8. Fenced(w)'
    BY <1>2, <2>3, <2>4, <2>5, <2>6, <2>7 DEF MayReserve, Fenced, Mine
  <2>9. TurnOf(w)
    <3>1. KeepsCursors
      BY <2>1, <2>3, <2>6 DEF KeepsCursors, Mine
    <3>2. ~At(w, "answered")
      BY <2>5 DEF At
    <3> QED
      BY <2>5, <2>7, <2>8, <3>1, <3>2 DEF TurnOf
  <2>10. Requested' = Requested + 1
    <3>1. runs'[exec[w].run].requests = runs[exec[w].run].requests + 1
      BY <2>3, <2>6 DEF Mine
    <3>2. \A i \in 1..Len(runs) : i # exec[w].run =>
            runs'[i].requests = runs[i].requests
      BY <2>6
    <3> QED
      BY <2>1, <2>6, <3>1, <3>2, RequestedOnceMore
  <2>11. ~Reserved
    <3>1. exec[w].pc \in AtPage
      BY <2>5 DEF AtPage
    <3> QED
      BY <2>5, <3>1, OneAtPage DEF Reserved, At, AtPage
  <2>12. Requested \in Nat /\ Len(fetched) \in Nat /\ MaxRequests \in Nat
    BY <2>1, RequestsFinite, CollectionAssumption DEF TypeOK
  <2>13. Requested < MaxRequests
    BY <1>2 DEF MayReserve, Allowance
  <2>14. Len(fetched) <= Requested
    <3>1. Len(fetched) + 0 <= Requested
      BY <2>11 DEF AccountInvariant, PaidIsReserved
    <3> QED
      BY <2>12, <3>1
  <2>15. PaidIsReserved' /\ (Requested <= MaxRequests)'
    <3>1. Len(fetched') + (IF Reserved' THEN 1 ELSE 0) <= Requested'
      BY <2>5, <2>10, <2>12, <2>14
    <3> QED
      BY <2>10, <2>12, <2>13, <3>1 DEF PaidIsReserved
  <2>16. IsFiniteSet(PaidPages)' /\ (runs' = <<>> => fetched' = <<>>)
    <3>1. runs' = <<>> => runs = <<>>
      BY <2>1, <2>6
    <3> QED
      BY <2>5, <3>1 DEF AccountInvariant, PaidPages
  <2>17. LossesAreCharged'
    BY <2>9, TurnAccount DEF AccountInvariant
  <2> QED
    BY <2>15, <2>16, <2>17 DEF AccountInvariant
<1> QED
  BY <1>1, <1>2

\* Paying for a page: for the first time, or because it was lost, or for a claim
\* that is gone.
LEMMA FetchAccounts ==
  ASSUME CollectionInvariant, TypeOK', AccountInvariant, NEW w \in Backfillers,
         Fetch(w)
  PROVE  AccountInvariant'
<1> DEFINE x == <<exec[w].scope, NextPage(w)>>
           e == [exec[w] EXCEPT !.pc = "answered"]
<1>1. /\ TypeOK /\ Claimed(w) /\ exec[w].run \in 1..Len(runs)
      /\ Mine(w) \in Run /\ exec[w] \in Exec /\ Len(runs) \in Nat
      /\ exec[w].scope \in Scopes /\ fetched \in Seq(Page)
      /\ exec[w].pc = "reserved" /\ exec[w].pc \in AtPage
  <2>1. Claimed(w)
    BY DEF Fetch, At, Claimed
  <2> QED
    BY <2>1, ExecTypes DEF CollectionInvariant, TypeOK, Fetch, At, AtPage
<1>2. e.pc = "answered" /\ e.run = exec[w].run /\ e.scope = exec[w].scope
  BY <1>1 DEF Exec
<1>3. fetched' = Append(fetched, x) /\ UNCHANGED <<job, runs, left>>
  BY DEF Fetch
<1>4. /\ exec'[w] = e
      /\ \A v \in Backfillers : v # w => exec'[v] = exec[v]
  BY <1>1 DEF Fetch, Go, Move, TypeOK
<1>5. \A v \in Backfillers : v # w => exec[v].pc \notin AtPage
  BY <1>1, OneAtPage
<1>6. /\ \A z : ~InHand(z)
      /\ \A z : InHand(z)' <=> Fenced(w) /\ z = x
      /\ \A z : Passed(z)' <=> Passed(z)
      /\ Chained' <=> Chained
      /\ ~Reserved' /\ Reserved
      /\ ~Stray' /\ (Stray <=> ~Fenced(w))
  <2>1. \A v \in Backfillers : ~At(v, "answered")
    BY <1>1, <1>5 DEF At, AtPage
  <2>2. \A v \in Backfillers : /\ At(v, "answered")' <=> v = w
                               /\ ~At(v, "reserved")'
                               /\ At(v, "reserved") <=> v = w
    BY <1>1, <1>2, <1>4, <1>5 DEF At, AtPage
  <2>3. (Fenced(w)' <=> Fenced(w)) /\ x = <<exec'[w].scope, NextPage(w)'>>
    BY <1>2, <1>3, <1>4 DEF Fenced, Mine, NextPage
  <2>4. /\ \A z : ~InHand(z)
        /\ \A z : InHand(z)' <=> Fenced(w) /\ z = x
    BY <2>1, <2>2, <2>3 DEF InHand
  <2>5. ~Reserved' /\ Reserved /\ ~Stray' /\ (Stray <=> ~Fenced(w))
    BY <2>2 DEF Reserved, Stray
  <2>6. (\A z : Passed(z)' <=> Passed(z)) /\ (Chained' <=> Chained)
    BY <1>3 DEF Passed, Chained
  <2> QED
    BY <2>4, <2>5, <2>6
<1>7. Fenced(w) => ~Passed(x)
  <2>1. ASSUME Fenced(w) PROVE exec[w].run = Len(runs)
    BY <1>1, <2>1, FencedIsNewest
  <2>2. Mine(w).cursor[exec[w].scope] \in Nat
    BY <1>1 DEF Run
  <2> QED
    BY <2>1, <2>2 DEF Passed, NextPage, Mine
<1> HIDE DEF x, e
<1>8. /\ PaidPages' = PaidPages \cup {x}
      /\ Len(fetched') = Len(fetched) + 1 /\ Len(fetched) \in Nat
  <2>1. /\ Len(fetched) \in Nat /\ Len(fetched') = Len(fetched) + 1
        /\ DOMAIN fetched = 1..Len(fetched)
        /\ DOMAIN fetched' = 1..(Len(fetched) + 1)
        /\ fetched'[Len(fetched) + 1] = x
        /\ \A i \in 1..Len(fetched) : fetched'[i] = fetched[i]
    <3>1. fetched' \in Seq(Page)
      BY DEF TypeOK
    <3> QED
      BY <1>1, <1>3, <3>1
  <2>2. ASSUME NEW z PROVE z \in PaidPages' <=> z \in PaidPages \cup {x}
    <3>1. z \in PaidPages' <=> \E i \in 1..(Len(fetched) + 1) : fetched'[i] = z
      BY <2>1 DEF PaidPages
    <3>2. z \in PaidPages <=> \E i \in 1..Len(fetched) : fetched[i] = z
      BY <2>1 DEF PaidPages
    <3>3. ASSUME NEW i \in 1..(Len(fetched) + 1), fetched'[i] = z
          PROVE  z \in PaidPages \cup {x}
      <4>1. CASE i = Len(fetched) + 1
        BY <2>1, <3>3, <4>1
      <4>2. CASE i # Len(fetched) + 1
        <5>1. i \in 1..Len(fetched)
          BY <2>1, <4>2
        <5> QED
          BY <2>1, <3>2, <3>3, <5>1
      <4> QED
        BY <4>1, <4>2
    <3>4. ASSUME NEW i \in 1..Len(fetched), fetched[i] = z
          PROVE  z \in PaidPages'
      <4>1. i \in 1..(Len(fetched) + 1) /\ fetched'[i] = z
        BY <2>1, <3>4
      <4> QED
        BY <3>1, <4>1
    <3>5. x \in PaidPages'
      <4>1. Len(fetched) + 1 \in 1..(Len(fetched) + 1)
        BY <2>1
      <4> QED
        BY <2>1, <4>1 DEF PaidPages
    <3> QED
      BY <3>1, <3>2, <3>3, <3>4, <3>5
  <2> QED
    BY <2>1, <2>2
<1>9. /\ Requested' = Requested /\ Requested \in Nat
  <2>1. Requests' = Requests
    BY <1>3 DEF Requests
  <2> QED
    BY <1>1, <2>1, RequestsFinite DEF Requested
<1>10. PaidIsReserved' /\ (Requested <= MaxRequests)'
  <2>1. Len(fetched) + 1 <= Requested /\ Requested <= MaxRequests
    BY <1>6 DEF AccountInvariant, PaidIsReserved
  <2>2. Len(fetched') + 0 <= Requested'
    BY <1>8, <1>9, <2>1
  <2> QED
    BY <1>6, <1>9, <2>1, <2>2 DEF PaidIsReserved
<1>11. /\ IsFiniteSet(PaidPages) /\ IsFiniteSet(PaidPages)'
       /\ Cardinality(PaidPages) \in Nat
       /\ Cardinality(PaidPages') = IF x \in PaidPages THEN Cardinality(PaidPages)
                                    ELSE Cardinality(PaidPages) + 1
       /\ IsFiniteSet(Lost) /\ Cardinality(Lost) \in Nat
  <2>1. IsFiniteSet(PaidPages)
    BY DEF AccountInvariant
  <2>2. IsFiniteSet(Lost) /\ Cardinality(Lost) \in Nat
        /\ Cardinality(PaidPages) \in Nat
    BY <2>1, LostFinite
  <2> HIDE DEF PaidPages
  <2> QED
    BY <1>8, <2>1, <2>2, FS_AddElement
<1>12. \A z : z \in Lost' <=>
          z \in PaidPages \cup {x} /\ ~Passed(z) /\ ~(Fenced(w) /\ z = x)
  BY <1>6, <1>8 DEF Lost
<1>13. \A z : z \in Lost <=> z \in PaidPages /\ ~Passed(z)
  BY <1>6 DEF Lost
<1>14. LossesAreCharged'
  <2> SUFFICES ASSUME Chained
               PROVE  Len(fetched) + 1 + Cardinality(Lost') + 0
                        <= Cardinality(PaidPages') + (MaxHindrances - left)
    BY <1>3, <1>6, <1>8 DEF LossesAreCharged
  <2>0. left \in Int /\ MaxHindrances \in Int
    BY <1>1, CollectionAssumption DEF TypeOK
  <2>1. Len(fetched) + Cardinality(Lost) + (IF Fenced(w) THEN 0 ELSE 1)
          <= Cardinality(PaidPages) + (MaxHindrances - left)
    BY <1>6 DEF AccountInvariant, LossesAreCharged
  <2> HIDE DEF Lost, PaidPages
  <2>2. CASE Fenced(w) /\ x \in PaidPages
    <3>1. x \in Lost /\ Lost' = Lost \ {x}
      BY <1>7, <1>12, <1>13, <2>2
    <3>2. Cardinality(Lost') = Cardinality(Lost) - 1
      BY <1>11, <3>1, FS_RemoveElement
    <3> QED
      BY <1>8, <1>11, <2>0, <2>1, <2>2, <3>2
  <2>3. CASE Fenced(w) /\ x \notin PaidPages
    <3>1. Lost' = Lost
      BY <1>12, <1>13, <2>3
    <3> QED
      BY <1>8, <1>11, <2>0, <2>1, <2>3, <3>1
  <2>4. CASE ~Fenced(w) /\ x \in PaidPages
    <3>1. Lost' = Lost
      BY <1>12, <1>13, <2>4
    <3> QED
      BY <1>8, <1>11, <2>0, <2>1, <2>4, <3>1
  <2>5. CASE ~Fenced(w) /\ x \notin PaidPages
    <3>1. Lost' = Lost \/ Lost' = Lost \cup {x}
      BY <1>12, <1>13, <2>5
    <3>2. Cardinality(Lost') \in Nat /\ Cardinality(Lost') <= Cardinality(Lost) + 1
      <4>1. CASE Lost' = Lost
        BY <1>11, <4>1
      <4>2. CASE Lost' = Lost \cup {x}
        <5>1. Cardinality(Lost \cup {x}) = IF x \in Lost THEN Cardinality(Lost)
                                           ELSE Cardinality(Lost) + 1
          BY <1>11, FS_AddElement
        <5> QED
          BY <1>11, <4>2, <5>1
      <4> QED
        BY <3>1, <4>1, <4>2
    <3> QED
      BY <1>8, <1>11, <2>0, <2>1, <2>5, <3>2
  <2> QED
    BY <2>2, <2>3, <2>4, <2>5
<1>15. runs' # <<>>
  BY <1>1, <1>3
<1> QED
  BY <1>10, <1>11, <1>14, <1>15 DEF AccountInvariant

\* Storing the page: what was in hand has been passed, and nothing is lost.
LEMMA CheckpointAccounts ==
  ASSUME CollectionInvariant, TypeOK', AccountInvariant, NEW w \in Backfillers,
         Checkpoint(w)
  PROVE  AccountInvariant'
<1> DEFINE s == exec[w].scope
           p == NextPage(w)
           n == exec[w].run
           r == [Mine(w) EXCEPT !.cursor[s] = p]
           e == [exec[w] EXCEPT !.pc = "release"]
<1>1. /\ TypeOK /\ Claimed(w) /\ n \in 1..Len(runs)
      /\ Mine(w) \in Run /\ exec[w] \in Exec /\ Len(runs) \in Nat
      /\ s \in Scopes /\ Pages[s] \in Nat
      /\ exec[w].pc = "answered" /\ exec[w].pc \in AtPage
      /\ Fenced(w) /\ n = Len(runs)
  <2>1. Claimed(w) /\ Fenced(w)
    BY DEF Checkpoint, At, Claimed
  <2> QED
    BY <2>1, ExecTypes, FencedIsNewest
       DEF CollectionInvariant, Checkpoint, At, AtPage
<1>2. Mine(w).cursor[s] \in Nat /\ Mine(w).cursor[s] < Pages[s]
  BY <1>1 DEF CollectionInvariant, RunInvariant, PageIsOpen, Run
<1>3. p = Mine(w).cursor[s] + 1 /\ p \in Nat /\ p <= Pages[s]
  BY <1>1, <1>2 DEF NextPage
<1>4. /\ r \in Run /\ r.requests = Mine(w).requests /\ r.of = Mine(w).of
      /\ r.cursor[s] = p
      /\ \A t \in Scopes : t # s => r.cursor[t] = Mine(w).cursor[t]
  <2> HIDE DEF s, p
  <2>1. r \in Run
    BY <1>1, <1>3, RunUpdates
  <2>2. Mine(w).cursor \in [Scopes -> Nat]
    BY <1>1 DEF Run
  <2>3. r.requests = Mine(w).requests /\ r.of = Mine(w).of
        /\ r.cursor = [Mine(w).cursor EXCEPT ![s] = p]
    BY <1>1 DEF Run
  <2> QED
    BY <1>1, <2>1, <2>2, <2>3
<1>5. e.pc = "release"
  BY <1>1 DEF Exec
<1>6. Save(w, r) /\ Move(w, e) /\ UNCHANGED <<job, fetched, left>>
  BY DEF Checkpoint, Go
<1> HIDE DEF r, e, p
<1>7. /\ Len(runs') = Len(runs) /\ runs'[n] = r /\ runs' \in Seq(Run)
      /\ \A i \in 1..Len(runs) : i # n => runs'[i] = runs[i]
  BY <1>1, <1>4, <1>6, Saving
<1>8. /\ exec'[w] = e
      /\ \A v \in Backfillers : v # w => exec'[v] = exec[v]
  BY <1>1, <1>6 DEF Move, TypeOK
<1>9. \A v \in Backfillers : v # w => exec[v].pc \notin AtPage
  BY <1>1, OneAtPage
<1>10. ~Reserved' /\ ~Stray'
  <2>1. \A v \in Backfillers : ~At(v, "reserved")'
    BY <1>5, <1>8, <1>9 DEF At, AtPage
  <2> QED
    BY <2>1 DEF Reserved, Stray
<1>11. Requested' = Requested
  <2>1. \A i \in 1..Len(runs) : runs'[i].requests = runs[i].requests
    BY <1>4, <1>7 DEF Mine
  <2> QED
    BY <1>1, <1>7, <2>1, RequestedFrame
<1>12. runs # <<>> /\ runs' # <<>>
  BY <1>1, <1>7
<1>13. Lost' \subseteq Lost
  <2> SUFFICES ASSUME NEW z \in Lost' PROVE z \in Lost
    OBVIOUS
  <2>1. z \in PaidPages /\ ~Passed(z)'
    BY <1>6 DEF Lost, PaidPages
  <2>2. z[1] \in Scopes /\ z[2] \in Nat /\ z = <<z[1], z[2]>>
    <3>1. fetched \in Seq(Page)
      BY <1>1 DEF TypeOK
    <3>2. z \in Page
      BY <2>1, <3>1 DEF PaidPages
    <3> QED
      BY <3>2 DEF Page
  <2>3. ~(z[2] <= r.cursor[z[1]])
    BY <1>1, <1>7, <1>12, <2>1 DEF Passed
  <2>4. z # <<s, p>>
    BY <1>3, <1>4, <2>3
  <2>5. ~Passed(z)
    <3>1. CASE z[1] = s
      BY <1>1, <1>2, <1>3, <1>4, <2>2, <2>3, <3>1 DEF Passed, Mine
    <3>2. CASE z[1] # s
      BY <1>1, <1>4, <2>2, <2>3, <3>2 DEF Passed, Mine
    <3> QED
      BY <3>1, <3>2
  <2>6. ~InHand(z)
    <3> SUFFICES ASSUME NEW v \in Backfillers, At(v, "answered"),
                        z = <<exec[v].scope, NextPage(v)>>
                 PROVE  FALSE
      BY DEF InHand
    <3>1. v = w
      BY <1>9 DEF At, AtPage
    <3> QED
      BY <2>4, <3>1 DEF p
  <2> QED
    BY <2>1, <2>5, <2>6 DEF Lost
<1>14. LossesAreCharged'
  <2>1. Chained' => Chained
    <3>1. \A i \in 1..Len(runs) : runs'[i].of = runs[i].of
      BY <1>4, <1>7 DEF Mine
    <3>2. DOMAIN runs = 1..Len(runs) /\ DOMAIN runs' = 1..Len(runs)
      BY <1>1, <1>7 DEF TypeOK
    <3> QED
      BY <3>1, <3>2 DEF Chained
  <2> HIDE DEF n
  <2> QED
    BY <1>1, <1>6, <1>10, <1>13, <2>1, Balance DEF AccountInvariant
<1>15. PaidIsReserved' /\ (Requested <= MaxRequests)'
  <2>1. Requested \in Nat /\ Len(fetched) \in Nat
    BY <1>1, RequestsFinite DEF TypeOK
  <2>2. Len(fetched) + (IF Reserved THEN 1 ELSE 0) <= Requested
        /\ Requested <= MaxRequests
    BY DEF AccountInvariant, PaidIsReserved
  <2>3. Len(fetched') + 0 <= Requested'
    BY <1>6, <1>11, <2>1, <2>2
  <2> QED
    BY <1>10, <1>11, <2>2, <2>3 DEF PaidIsReserved
<1> QED
  BY <1>6, <1>12, <1>14, <1>15 DEF AccountInvariant, PaidPages

\* A claim: nobody had a live one, and the new run knows of what was passed.
LEMMA ClaimAccounts ==
  ASSUME CollectionInvariant, TypeOK', AccountInvariant, NEW w \in Backfillers,
         claim_job(w)
  PROVE  AccountInvariant'
<1>1. CASE ~Claimable(w)
  BY <1>1, QuietAccounts
<1>2. CASE Claimable(w)
  <2> DEFINE n == Len(runs) + 1
             i == job.active
             old == Aborted(i)
             last == exec[w].last
             c == Continuing(last)
             e == [exec[w] EXCEPT !.pc = "claimed", !.run = n]
  <2>1. /\ TypeOK /\ exec[w] \in Exec /\ runs \in Seq(Run) /\ Len(runs) \in Nat
        /\ last \in 0..Len(runs) /\ DOMAIN runs = 1..Len(runs)
    <3>1. last \in 0..MaxRuns /\ last <= Len(runs)
      BY ExecTypes DEF CollectionInvariant, RunInvariant, RunsAreTheirs
    <3> QED
      BY <3>1, ExecTypes, CollectionAssumption DEF CollectionInvariant
  <2>2. /\ runs' = Append(old, c) /\ Move(w, e)
        /\ UNCHANGED <<fetched, left>>
        /\ (i # 0 => ~runs[i].live) /\ (last # 0 => last = Len(runs))
    BY <1>2 DEF claim_job, Claimable
  <2>3. /\ old \in Seq(Run) /\ Len(old) = Len(runs)
        /\ \A j \in 1..Len(runs) : /\ old[j].of = runs[j].of
                                   /\ old[j].requests = runs[j].requests
                                   /\ old[j].cursor = runs[j].cursor
    <3>1. CASE i = 0
      BY <2>1, <3>1 DEF Aborted
    <3>2. CASE i # 0
      <4>1. i \in 1..Len(runs) /\ runs[i] \in Run
        BY <2>1, <3>2 DEF CollectionInvariant, RunInvariant, ActiveIsNewest
      <4> DEFINE a == [runs[i] EXCEPT !.status = "aborted"]
      <4>2. a \in Run
        BY <4>1, RunUpdates
      <4>3. a.of = runs[i].of /\ a.cursor = runs[i].cursor
            /\ a.requests = runs[i].requests
        BY <4>1 DEF Run
      <4>4. old = [runs EXCEPT ![i] = a]
        BY <3>2 DEF Aborted
      <4> HIDE DEF a, old
      <4> QED
        BY <2>1, <4>1, <4>2, <4>3, <4>4
    <3> QED
      BY <3>1, <3>2
  <2>4. /\ c \in Run /\ c.requests = 0
        /\ last = 0 => c.of = 0
        /\ last # 0 => c.cursor = runs[last].cursor
    <3>1. Fresh \in Run
      BY CollectionAssumption DEF Fresh, Run, Scopes
    <3>2. CASE last = 0
      BY <3>1, <3>2 DEF Continuing, Fresh
    <3>3. CASE last # 0
      <4>1. runs[last] \in Run /\ last \in 0..MaxRuns
        BY <2>1, <3>3, CollectionAssumption DEF TypeOK
      <4>2. c = [Fresh EXCEPT !.of = last, !.imported = runs[last].imported,
                   !.cursor = runs[last].cursor, !.blocked = runs[last].blocked]
        BY <3>3 DEF Continuing
      <4>3. Fresh.requests = 0
        BY DEF Fresh
      <4> QED
        BY <3>1, <3>3, <4>1, <4>2, <4>3 DEF Run
    <3> QED
      BY <3>2, <3>3
  <2>5. e.pc = "claimed"
    BY <2>1 DEF Exec
  <2> HIDE DEF e, c, old, last
  <2>6. /\ exec'[w] = e
        /\ \A v \in Backfillers : v # w => exec'[v] = exec[v]
    BY <2>1, <2>2 DEF Move, TypeOK
  <2>7. /\ runs' \in Seq(Run) /\ Len(runs') = n /\ runs'[n] = c
        /\ DOMAIN runs' = 1..n
        /\ \A j \in 1..Len(runs) : runs'[j] = old[j]
    <3>1. runs' \in Seq(Run) /\ Len(runs') = Len(old) + 1
          /\ runs'[Len(old) + 1] = c /\ DOMAIN runs' = 1..(Len(old) + 1)
          /\ \A j \in 1..Len(old) : runs'[j] = old[j]
      BY <2>2, <2>3, <2>4
    <3> QED
      BY <2>1, <2>3, <3>1
  <2>8. Requested' = Requested
    <3>1. /\ Len(runs) <= Len(runs')
          /\ \A j \in 1..Len(runs) : runs'[j].requests = runs[j].requests
          /\ \A j \in (Len(runs) + 1)..Len(runs') : runs'[j].requests = 0
      <4>1. ASSUME NEW j \in (Len(runs) + 1)..Len(runs') PROVE j = n
        BY <2>1, <2>7
      <4> QED
        BY <2>1, <2>3, <2>4, <2>7, <4>1
    <3> QED
      BY <2>1, <3>1, RequestedFrame
  <2>9. \A v \in Backfillers : Claimed(v) => ~Fenced(v)
    <3> SUFFICES ASSUME NEW v \in Backfillers, Claimed(v), Fenced(v)
                 PROVE  FALSE
      OBVIOUS
    <3>1. exec[v].run \in 1..Len(runs)
      BY ExecTypes
    <3>2. i # 0 /\ runs[i].live
      BY <2>1, <3>1 DEF Fenced, Mine
    <3> QED
      BY <2>2, <3>2
  <2>10. \A z : ~InHand(z)
    BY <2>9 DEF InHand, Claimed, At
  <2>11. (Reserved' => Reserved) /\ (Stray' => Stray)
    <3>1. ASSUME NEW v \in Backfillers, At(v, "reserved")'
          PROVE  At(v, "reserved") /\ ~Fenced(v)
      <4>1. v # w
        BY <2>5, <2>6, <3>1 DEF At
      <4> QED
        BY <2>6, <2>9, <3>1, <4>1 DEF At, Claimed
    <3> QED
      BY <3>1 DEF Reserved, Stray
  <2>12. ASSUME Chained' PROVE Chained /\ Lost' \subseteq Lost
    <3>1. \A j \in 1..Len(runs) : runs'[j].of = runs[j].of
      BY <2>3, <2>7
    <3>2. Chained
      BY <2>1, <2>7, <2>12, <3>1 DEF Chained
    <3>3. c.of = Len(runs)
      BY <2>1, <2>7, <2>12 DEF Chained
    <3>4. CASE last = 0
      <4>1. Len(runs) = 0
        BY <2>4, <3>3, <3>4
      <4>2. fetched' = <<>>
        BY <2>1, <2>2, <4>1 DEF AccountInvariant
      <4>3. PaidPages' = {}
        BY <4>2 DEF PaidPages
      <4> QED
        BY <3>2, <4>3 DEF Lost
    <3>5. CASE last # 0
      <4>1. last = Len(runs) /\ runs # <<>> /\ runs' # <<>>
        <5>1. last = Len(runs) /\ Len(runs) # 0
          BY <2>2, <3>5
        <5>2. Len(runs') # 0
          <6>1. n # 0
            BY <2>1
          <6> QED
            BY <2>7, <6>1
        <5>3. Len(<<>>) = 0
          OBVIOUS
        <5> QED
          BY <5>1, <5>2, <5>3
      <4>2. runs'[Len(runs')].cursor = runs[Len(runs)].cursor
        BY <2>4, <2>7, <3>5, <4>1
      <4>3. \A z : Passed(z)' <=> Passed(z)
        BY <4>1, <4>2 DEF Passed
      <4> QED
        BY <2>2, <2>10, <3>2, <4>3 DEF Lost, PaidPages
    <3> QED
      BY <3>4, <3>5
  <2>13. LossesAreCharged'
    <3> HIDE DEF n
    <3> QED
      BY <2>1, <2>2, <2>11, <2>12, Balance DEF AccountInvariant
  <2>14. PaidIsReserved' /\ (Requested <= MaxRequests)'
    <3>1. Requested \in Nat /\ Len(fetched) \in Nat
      BY <2>1, RequestsFinite DEF TypeOK
    <3>2. Len(fetched) + (IF Reserved THEN 1 ELSE 0) <= Requested
          /\ Requested <= MaxRequests
      BY DEF AccountInvariant, PaidIsReserved
    <3>3. Len(fetched') + (IF Reserved' THEN 1 ELSE 0) <= Requested'
      BY <2>2, <2>8, <2>11, <3>1, <3>2
    <3> QED
      BY <2>8, <3>2, <3>3 DEF PaidIsReserved
  <2>15. runs' # <<>>
    BY <2>1, <2>7
  <2> QED
    BY <2>2, <2>13, <2>14, <2>15 DEF AccountInvariant, PaidPages
<1> QED
  BY <1>1, <1>2

\* The clock, the operator and the live harvests: a claim ends at the price of a
\* hindrance, unless nobody works on it.
LEMMA OutsideAccounts ==
  ASSUME CollectionInvariant, TypeOK', AccountInvariant,
         \/ ExpireLease \/ CooldownEnds
         \/ \E state \in {"ready", "paused", "cancelled"} : SetJobState(state)
         \/ UNCHANGED jobVars
  PROVE  AccountInvariant'
<1>0. /\ TypeOK /\ runs \in Seq(Run) /\ Len(runs) \in Nat
      /\ job.active # 0 => job.active \in 1..Len(runs) /\ runs[job.active] \in Run
  BY DEF CollectionInvariant, TypeOK, RunInvariant, ActiveIsNewest
<1>1. UNCHANGED <<fetched, exec>>
  BY DEF ExpireLease, CooldownEnds, SetJobState, jobVars
<1>2. KeepsCursors /\ KeepsRequests
  <2>1. CASE UNCHANGED runs
    BY <2>1 DEF KeepsCursors, KeepsRequests
  <2>2. ASSUME job.active # 0,
               \E r : /\ runs' = [runs EXCEPT ![job.active] = r] /\ r \in Run
                      /\ r.of = runs[job.active].of
                      /\ r.cursor = runs[job.active].cursor
                      /\ r.requests = runs[job.active].requests
        PROVE  KeepsCursors /\ KeepsRequests
    BY <1>0, <2>2 DEF KeepsCursors, KeepsRequests
  <2>3. CASE ExpireLease
    <3> DEFINE r == [runs[job.active] EXCEPT !.live = FALSE]
    <3>1. job.active # 0 /\ runs' = [runs EXCEPT ![job.active] = r]
      BY <2>3 DEF ExpireLease
    <3>2. r \in Run /\ r.of = runs[job.active].of
          /\ r.cursor = runs[job.active].cursor
          /\ r.requests = runs[job.active].requests
      BY <1>0, <3>1 DEF Run
    <3> QED
      BY <2>2, <3>1, <3>2
  <2>4. CASE \E state \in {"ready", "paused", "cancelled"} : SetJobState(state)
    <3> DEFINE r == [runs[job.active] EXCEPT !.status = "aborted", !.live = FALSE]
    <3>1. CASE job.active = 0
      BY <2>1, <2>4, <3>1 DEF SetJobState
    <3>2. CASE job.active # 0
      <4>1. UNCHANGED runs \/ runs' = [runs EXCEPT ![job.active] = r]
        BY <2>4, <3>2 DEF SetJobState
      <4>2. r \in Run /\ r.of = runs[job.active].of
            /\ r.cursor = runs[job.active].cursor
            /\ r.requests = runs[job.active].requests
        BY <1>0, <3>2 DEF Run
      <4> QED
        BY <2>1, <2>2, <3>2, <4>1, <4>2
    <3> QED
      BY <3>1, <3>2
  <2> QED
    BY <2>1, <2>3, <2>4 DEF CooldownEnds, jobVars
<1>3. \/ /\ left' = left
         /\ \A v \in Backfillers : Claimed(v) /\ Fenced(v) => Fenced(v)'
      \/ left' = left - 1
  <2>1. CASE ExpireLease /\ Orphaned(job.active)
    <3>1. \A v \in Backfillers : Claimed(v) => ~Fenced(v)
      BY <2>1 DEF Orphaned, Claimed, At, Fenced
    <3> QED
      BY <2>1, <3>1 DEF ExpireLease
  <2>2. CASE ExpireLease /\ ~Orphaned(job.active)
    BY <2>2 DEF ExpireLease, Hinder
  <2>3. CASE CooldownEnds
    <3>1. job'.state = job.state /\ job'.active = job.active
          /\ UNCHANGED <<runs, exec, left>>
      BY <1>0, <2>3 DEF CooldownEnds, TypeOK, Job
    <3> QED
      BY <3>1 DEF Fenced, Mine
  <2>4. CASE SetJobState("ready")
    <3>1. \A v \in Backfillers : ~Fenced(v)
      BY <2>4 DEF SetJobState, Fenced
    <3> QED
      BY <2>4, <3>1 DEF SetJobState
  <2>5. CASE SetJobState("paused") \/ SetJobState("cancelled")
    BY <2>5 DEF SetJobState, Hinder
  <2>6. CASE UNCHANGED jobVars
    BY <2>6 DEF jobVars, Fenced, Mine
  <2> QED
    BY <2>1, <2>2, <2>3, <2>4, <2>5, <2>6
<1>4. LossesAreCharged'
  BY <1>1, <1>2, <1>3, OutsideAccount DEF AccountInvariant
<1>5. Requested' = Requested /\ (runs' = <<>> => runs = <<>>)
  <2>1. Len(runs') = Len(runs) /\ runs' \in Seq(Run)
    BY <1>2 DEF KeepsCursors, TypeOK
  <2> QED
    BY <1>0, <1>2, <2>1, RequestedFrame DEF KeepsRequests
<1>6. Reserved' <=> Reserved
  BY <1>1 DEF Reserved, At
<1>7. PaidIsReserved' /\ (Requested <= MaxRequests)'
  BY <1>1, <1>5, <1>6 DEF AccountInvariant, PaidIsReserved
<1> QED
  BY <1>1, <1>4, <1>5, <1>7 DEF AccountInvariant, PaidPages

\* Every step keeps the accounts.
LEMMA AccountStep ==
  CollectionInvariant /\ TypeOK' /\ AccountInvariant /\ [Next]_vars
    => AccountInvariant'
<1> SUFFICES ASSUME CollectionInvariant, TypeOK', AccountInvariant, [Next]_vars
             PROVE  AccountInvariant'
  OBVIOUS
<1>1. ASSUME NEW w \in Backfillers, Execute(w)
      PROVE  AccountInvariant'
  <2>1. CASE \/ Probe(w) \/ Choose(w) \/ Stop(w) \/ PageFails(w)
             \/ ProviderRefuses(w) \/ Unrecorded(w) \/ Release(w)
             \/ Stale(w) \/ Die(w)
    BY <2>1, QuietAccounts
  <2>2. CASE Import(w) \/ BlockPage(w) \/ Finish(w)
    BY <2>2, SavingAccounts
  <2>3. CASE claim_job(w)
    BY <2>3, ClaimAccounts
  <2>4. CASE Reserve(w)
    BY <2>4, ReserveAccounts
  <2>5. CASE Fetch(w)
    BY <2>5, FetchAccounts
  <2>6. CASE Checkpoint(w)
    BY <2>6, CheckpointAccounts
  <2> QED
    BY <1>1, <2>1, <2>2, <2>3, <2>4, <2>5, <2>6 DEF Execute
<1>2. CASE \/ ExpireLease \/ CooldownEnds
           \/ \E state \in {"ready", "paused", "cancelled"} : SetJobState(state)
           \/ UNCHANGED jobVars
  BY <1>2, OutsideAccounts
<1>3. CASE UNCHANGED vars
  BY <1>2, <1>3 DEF vars
<1> QED
  BY <1>1, <1>2, <1>3 DEF Next

\* Nothing is accounted for, paid or lost at the start.
LEMMA AccountInit == Init => AccountInvariant
<1> SUFFICES ASSUME Init PROVE AccountInvariant
  OBVIOUS
<1>1. /\ runs = <<>> /\ fetched = <<>> /\ left = MaxHindrances
      /\ \A w \in Backfillers : exec[w].pc = "idle"
      /\ MaxHindrances \in Nat /\ MaxRequests \in Nat
  BY CollectionAssumption DEF Init, Idle
<1>2. Requests = {} /\ PaidPages = {} /\ Lost = {} /\ Len(fetched) = 0
  BY <1>1 DEF Requests, PaidPages, Lost
<1>3. Requested = 0 /\ Cardinality(PaidPages) = 0 /\ Cardinality(Lost) = 0
      /\ IsFiniteSet(PaidPages)
  BY <1>2, FS_EmptySet DEF Requested
<1>4. ~Reserved /\ ~Stray
  BY <1>1 DEF Reserved, Stray, At
<1>5. PaidIsReserved /\ Requested <= MaxRequests
  BY <1>1, <1>2, <1>3, <1>4 DEF PaidIsReserved
<1>6. LossesAreCharged
  BY <1>1, <1>2, <1>3, <1>4 DEF LossesAreCharged
<1> QED
  BY <1>1, <1>3, <1>5, <1>6 DEF AccountInvariant


-----------------------------------------------------------------------------
(* The theorems *)

\* The invariant holds before anything is claimed.
LEMMA InitHolds == Init => CollectionInvariant
<1> SUFFICES ASSUME Init PROVE CollectionInvariant
  OBVIOUS
<1> USE CollectionAssumption, LockAssumption DEF Init, LockInit
<1>1. TypeOK
  <2>1. LockTypeOK
    BY DEF LockTypeOK
  <2>2. job \in Job /\ runs \in Seq(Run) /\ Len(runs) <= MaxRuns
    BY DEF Job
  <2>3. /\ \A s \in Scopes : stored[s] \subseteq 1..Pages[s]
        /\ fetched \in Seq(Page)
    OBVIOUS
  <2>4. Idle \in Exec
    BY DEF Idle, Exec, Scopes
  <2> QED
    BY <2>1, <2>2, <2>3, <2>4 DEF TypeOK
<1>2. \A w \in Backfillers : exec[w] = Idle
  OBVIOUS
<1>3. Idle.pc = "idle" /\ Idle.last = 0
  BY DEF Idle
<1>4. LockInvariant
  BY <1>2, <1>3 DEF LockInvariant, LockIsHeld, WaitingIsQueued, AheadIsCounted,
                    LiveWaitsForOnePage, AtPage, At
<1>5. Len(runs) = 0 /\ DOMAIN runs = {}
  OBVIOUS
<1>6. RunInvariant
  BY <1>2, <1>3, <1>5 DEF RunInvariant, ScopesAreKept, NothingIsEarly,
     RunsAreTheirs, ActiveIsNewest, PageIsOpen, RetriedWasBlocked,
     StoredUpToCursor, CompletedIsDrained, Claimed, At
<1> QED
  BY <1>1, <1>4, <1>6 DEF CollectionInvariant

\* Every step of an executor, a live harvest, the clock or the operator keeps
\* the invariant.
LEMMA StepHolds == CollectionInvariant /\ [Next]_vars => CollectionInvariant'
<1> SUFFICES ASSUME CollectionInvariant, [Next]_vars
             PROVE  CollectionInvariant'
  OBVIOUS
<1>1. ASSUME NEW w \in Backfillers, Execute(w)
      PROVE  CollectionInvariant'
  <2>1. CASE Probe(w)
    BY <2>1, ProbeStep
  <2>2. CASE claim_job(w)
    BY <2>2, ClaimStep
  <2>3. CASE Import(w)
    BY <2>3, ImportStep
  <2>4. CASE Choose(w)
    BY <2>4, ChooseStep
  <2>5. CASE Stop(w) \/ PageFails(w) \/ Unrecorded(w) \/ ProviderRefuses(w)
    BY <2>5, PlainStep
  <2>6. CASE Reserve(w)
    BY <2>6, ReserveStep
  <2>7. CASE Fetch(w)
    BY <2>7, FetchStep
  <2>8. CASE Checkpoint(w) \/ BlockPage(w)
    BY <2>8, StoreStep
  <2>9. CASE Release(w)
    BY <2>9, ReleaseStep
  <2>10. CASE Finish(w)
    BY <2>10, FinishStep
  <2>11. CASE Stale(w) \/ Die(w)
    BY <2>11, GiveUpStep
  <2> QED
    BY <1>1, <2>1, <2>2, <2>3, <2>4, <2>5, <2>6, <2>7, <2>8, <2>9, <2>10,
       <2>11 DEF Execute
<1>2. CASE LiveNext /\ UNCHANGED jobVars
  <2>1. UNCHANGED <<job, runs, stored, fetched, exec, left>>
    BY <1>2 DEF jobVars
  <2>2. LockInvariant' /\ LockTypeOK'
    BY <1>2, <2>1, LiveStep
  <2>3. TypeOK'
    BY <2>1, <2>2 DEF CollectionInvariant, TypeOK
  <2>4. RunInvariant'
    BY <2>1 DEF CollectionInvariant, RunInvariant, ScopesAreKept,
       NothingIsEarly, RunsAreTheirs, ActiveIsNewest, PageIsOpen,
       RetriedWasBlocked, StoredUpToCursor, CompletedIsDrained, Claimed, At,
       Mine, Chained
  <2> QED
    BY <2>2, <2>3, <2>4 DEF CollectionInvariant
<1>3. CASE \/ ExpireLease \/ CooldownEnds
           \/ \E state \in {"ready", "paused", "cancelled"} : SetJobState(state)
  BY <1>3, OperatorStep
<1>4. CASE UNCHANGED vars
  <2>1. UNCHANGED <<job, runs, stored, fetched, exec, left>>
        /\ UNCHANGED <<owner, queue, live, ticks, ahead>>
    BY <1>4 DEF vars, jobVars, lockVars
  <2>2. TypeOK'
    BY <2>1 DEF CollectionInvariant, TypeOK, LockTypeOK
  <2>3. LockInvariant'
    BY <2>1 DEF CollectionInvariant, LockInvariant, LockIsHeld,
       WaitingIsQueued, AheadIsCounted, LiveWaitsForOnePage, At
  <2>4. RunInvariant'
    BY <2>1 DEF CollectionInvariant, RunInvariant, ScopesAreKept,
       NothingIsEarly, RunsAreTheirs, ActiveIsNewest, PageIsOpen,
       RetriedWasBlocked, StoredUpToCursor, CompletedIsDrained, Claimed, At,
       Mine, Chained
  <2> QED
    BY <2>2, <2>3, <2>4 DEF CollectionInvariant
<1> QED
  BY <1>1, <1>2, <1>3, <1>4 DEF Next

\* The inductive invariant of the collection.
THEOREM CollectionInvariantHolds == Spec => []CollectionInvariant
BY InitHolds, StepHolds, PTL DEF Spec

\* The job, its runs, the executors and the lock have their types.
THEOREM CollectionTypeCorrect == Spec => []TypeOK
<1>1. CollectionInvariant => TypeOK
  BY DEF CollectionInvariant
<1> QED
  BY <1>1, CollectionInvariantHolds, PTL

\* However often executors are replaced, die or come late: no cursor passes a
\* page whose posts are not stored (PageCheckpoint.persist), and the newest run
\* knows of every stored page (copy_continuation_scopes).
THEOREM CursorsAgreeWithPosts == Spec => []StoredUpToCursor
<1>1. CollectionInvariant => StoredUpToCursor
  BY DEF CollectionInvariant, RunInvariant
<1> QED
  BY <1>1, CollectionInvariantHolds, PTL

\* A job is completed (finish_run) only when every page of it is stored.
THEOREM CompletedHasEverything == Spec => []CompletedIsDrained
<1>1. CollectionInvariant => CompletedIsDrained
  BY DEF CollectionInvariant, RunInvariant
<1> QED
  BY <1>1, CollectionInvariantHolds, PTL

\* A live harvest that waits for the writer lock sees at most the one request
\* go out that was reserved before (backfill_yield_requested).
THEOREM LiveIsNotOvertaken == Spec => []LiveWaitsForOnePage
<1>1. CollectionInvariant => LiveWaitsForOnePage
  BY DEF CollectionInvariant, LockInvariant
<1> QED
  BY <1>1, CollectionInvariantHolds, PTL

\* The accounts are kept: the second inductive invariant of the collection.
THEOREM AccountsAreKept == Spec => []AccountInvariant
<1>1. CollectionInvariant => TypeOK
  BY DEF CollectionInvariant
<1> QED
  BY <1>1, AccountInit, AccountStep, CollectionInvariantHolds, PTL DEF Spec

\* The provider is asked no more often than claim_api_request has accounted for,
\* and never beyond the allowance of the job, over all its runs.
THEOREM SpendingIsAccounted == Spec => []SpendWithinAllowance
<1>1. CollectionInvariant /\ AccountInvariant => SpendWithinAllowance
  <2> SUFFICES ASSUME CollectionInvariant, AccountInvariant
               PROVE  SpendWithinAllowance
    OBVIOUS
  <2>1. Requested \in Nat /\ Len(fetched) \in Nat
    BY RequestsFinite DEF CollectionInvariant, TypeOK
  <2> QED
    BY <2>1 DEF AccountInvariant, PaidIsReserved, SpendWithinAllowance
<1> QED
  BY <1>1, AccountsAreKept, CollectionInvariantHolds, PTL

\* As long as every run continues the one before it, each page that is paid for
\* again is charged to a hindrance of its own.
THEOREM RepeatsAreCharged == Spec => []PaidAgainOnlyAfterLoss
<1>1. CollectionInvariant /\ AccountInvariant => PaidAgainOnlyAfterLoss
  <2> SUFFICES ASSUME CollectionInvariant, AccountInvariant, Chained
               PROVE  Repeats <= MaxHindrances - left
    BY DEF PaidAgainOnlyAfterLoss
  <2>1. /\ Cardinality(Lost) \in Nat /\ Cardinality(PaidPages) \in Nat
        /\ Len(fetched) \in Nat /\ left \in Int /\ MaxHindrances \in Int
    BY LostFinite, CollectionAssumption
       DEF AccountInvariant, CollectionInvariant, TypeOK
  <2>2. Len(fetched) + Cardinality(Lost) + (IF Stray THEN 1 ELSE 0)
          <= Cardinality(PaidPages) + (MaxHindrances - left)
    BY DEF AccountInvariant, LossesAreCharged
  <2> HIDE DEF Lost, PaidPages
  <2> QED
    BY <2>1, <2>2 DEF Repeats
<1> QED
  BY <1>1, AccountsAreKept, CollectionInvariantHolds, PTL

=============================================================================
