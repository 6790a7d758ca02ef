------------------------ MODULE EnrichmentQueueProofs ------------------------
(***************************************************************************)
(* Proofs about EnrichmentQueue, for every set of workers, attempt limit   *)
(* and number of hindrances: type correctness, the accounting of attempts  *)
(* (FailedWasTried, DispatchesBounded), the publication fence              *)
(* (PublisherNotReplaced), and that stages succeed only when published and *)
(* are only ever reopened as successes.                                    *)
(***************************************************************************)
EXTENDS EnrichmentQueue, TLAPS

\* A run between its claim and its release.
Active(w) == job[w].pc \in {"working", "calling", "publishing", "committing",
                            "finishing"}

\* The stages that the claim of w has not started yet.
Unstarted(w) ==
  {s \in Stages :
     \/ job[w].pc = "working" /\ s = job[w].stage
     \/ /\ Active(w) /\ s \in job[w].work
        /\ job[w].stage = "translation" /\ s = "classification"}

\* What was paid for a stage and is not excused by a credit or a straddle is
\* at most `n`.
Charged(s, n) == hist.paid[s] <= n + hist.credit[s] + hist.straddles

\* ... and one more dispatch would still be.
Room(s, n) == hist.paid[s] < n + hist.credit[s] + hist.straddles

-----------------------------------------------------------------------------
(* The inductive invariant, in parts *)

\* The row lock over several statements: a run that publishes has it, and who
\* has it publishes or is in the second half of a claim of a row that is free.
LockIsHeld == \A w \in Workers :
  /\ job[w].pc = "committing" => lock = w
  /\ lock = w => job[w].pc \in {"claiming", "committing"}
  /\ lock = w /\ Claiming(w) => row.lease # "live"

\* A run that was replaced does not own the row, and one that may publish does.
OwnerIsCurrent == \A w \in Workers :
  /\ Active(w) /\ job[w].replaced => row.owner # w
  /\ job[w].pc = "committing" /\ job[w].ok => row.owner = w

\* A stage has an outcome only after an answer, and a good one only after it
\* was published.
OutcomeIsKnown == \A w \in Workers :
  /\ job[w].pc \in {"working", "calling"} => ~job[w].ok
  /\ job[w].pc = "finishing" /\ job[w].ok => job[w].stage \in hist.published

\* While the claim is live, what its run has still to publish is pending.
WorkIsPending == \A w \in Workers :
  row.owner = w /\ row.lease = "live" =>
    /\ job[w].pc \in {"working", "calling", "publishing", "committing"} =>
         Pending(row, job[w].stage)
    /\ \A s \in Unstarted(w) : Pending(row, s)

\* No attempt is recorded that was not made.
AttemptsArePaid == \A s \in Stages : row.stage[s].attempts <= hist.paid[s]

\* Every dispatch is on the row as an attempt, or is excused.
PaidIsCounted == \A s \in Stages : Charged(s, row.stage[s].attempts)

\* A claim that read an expired lease reads of no claim after that.
SawExpiredIsStale == \A w \in Workers :
  Claiming(w) /\ job[w].sawExpired => row.lease # "live"

\* A claim whose statements straddle nothing gets no spent stage: it was
\* quarantined by the first statement, or there was none.
ClaimIsClean == \A w \in Workers : Claiming(w) /\ ~job[w].straddled =>
  /\ job[w].started = {}
  /\ lock # w /\ Available(w) =>
       \A s \in Stages : Pending(row, s) /\ s \notin job[w].notYet =>
                           row.stage[s].attempts < MaxAttempts

\* A stage that its claim may start without counting an attempt, or beyond the
\* limit, was excused by a straddle when it was claimed.
StartIsCovered == \A w \in Workers : row.owner = w =>
  \A s \in Unstarted(w) :
    row.stage[s].marked \/ row.stage[s].attempts >= MaxAttempts =>
      Room(s, row.stage[s].attempts) /\ Room(s, MaxAttempts)

QueueInvariant == /\ TypeOK
                  /\ LockIsHeld
                  /\ OwnerIsCurrent
                  /\ OutcomeIsKnown
                  /\ SucceededIsPublished
                  /\ WorkIsPending
                  /\ AttemptsArePaid
                  /\ FailedWasTried
                  /\ PaidIsCounted
                  /\ DispatchesBounded
                  /\ SawExpiredIsStale
                  /\ ClaimIsClean
                  /\ StartIsCovered

-----------------------------------------------------------------------------
(* Type correctness *)

PCs == {"idle", "claiming", "working", "calling", "publishing", "committing",
        "finishing", "releasing"}

\* Updates of a job are jobs.
LEMMA JobUpdates ==
  ASSUME NEW j \in Job
  PROVE  /\ \A x \in PCs, b \in BOOLEAN : [j EXCEPT !.pc = x, !.late = b] \in Job
         /\ \A b \in BOOLEAN : [j EXCEPT !.called = b] \in Job
         /\ \A b \in BOOLEAN : [j EXCEPT !.ok = b] \in Job
         /\ \A b, c \in BOOLEAN : [j EXCEPT !.ok = b, !.progressed = c] \in Job
         /\ \A b, c \in BOOLEAN :
              [j EXCEPT !.sawExpired = b, !.replaced = c] \in Job
         /\ [j EXCEPT !.stage = "classification", !.called = FALSE,
                      !.ok = FALSE, !.progressed = FALSE] \in Job
         /\ \A s \in Stages : [j EXCEPT !.notYet = @ \cup {s}] \in Job
         /\ \A s \in Stages : [j EXCEPT !.started = @ \cup {s},
                                        !.straddled = TRUE] \in Job
         /\ [j EXCEPT !.straddled = TRUE] \in Job
BY DEF Job, PCs, Stages

\* A step of its own leaves a job.
LEMMA MovedIsJob ==
  ASSUME TypeOK, NEW w \in Workers, NEW pc \in PCs
  PROVE  Moved(w, pc) \in Job
<1>1. job[w] \in Job
      BY DEF TypeOK
<1>2. (row.lease = "expired" /\ row.owner = w) \in BOOLEAN
      OBVIOUS
<1> QED BY <1>1, <1>2, JobUpdates DEF Moved

\* The claim of another run leaves a job.
LEMMA OvertakenIsJob ==
  ASSUME TypeOK, NEW v \in Workers
  PROVE  Overtaken(v) \in Job
<1>1. job[v] \in Job
      BY DEF TypeOK
<1>2. (job[v].pc \notin {"idle", "claiming", "releasing"}) \in BOOLEAN
      OBVIOUS
<1> QED BY <1>1, <1>2, JobUpdates DEF Overtaken

\* A process that is idle, or releases, has a job.
LEMMA IdleIsJob == Idle \in Job /\ [Idle EXCEPT !.pc = "releasing"] \in Job
BY DEF Idle, Job, Stages

\* Updates of a stage are stages.
LEMMA StageUpdates ==
  ASSUME NEW t \in Stage
  PROVE  /\ \A b \in BOOLEAN : [t EXCEPT !.marked = b] \in Stage
         /\ \A b \in BOOLEAN : [t EXCEPT !.wait = b] \in Stage
         /\ \A n \in Nat : [t EXCEPT !.attempts = n] \in Stage
         /\ \A x \in {"pending", "succeeded", "failed"} :
              [t EXCEPT !.status = x, !.wait = FALSE] \in Stage
         /\ \A n \in Nat, x \in {"pending", "succeeded", "failed"}, b \in BOOLEAN :
              [t EXCEPT !.attempts = n, !.status = x, !.wait = b] \in Stage
BY DEF Stage

\* A counted attempt leaves a stage.
LEMMA CountedIsStage ==
  ASSUME NEW t \in Stage
  PROVE  Counted(t) \in Stage
<1> DEFINE mid == [t EXCEPT !.attempts = @ + 1]
<1>1. t.attempts + 1 \in Nat
      BY DEF Stage
<1>2. mid \in Stage
      BY <1>1, StageUpdates
<1> HIDE DEF mid
<1>3. [mid EXCEPT !.marked = TRUE] \in Stage
      BY <1>2, StageUpdates
<1> QED BY <1>3 DEF mid, Counted

\* Updates of a row are rows.
LEMMA RowUpdates ==
  ASSUME NEW r \in Row
  PROVE  /\ \A s \in Stages, t \in Stage : [r EXCEPT !.stage[s] = t] \in Row
         /\ \A m \in [Stages -> Stage] : [r EXCEPT !.stage = m] \in Row
         /\ \A o \in Workers \cup {NoOne, Gone}, l \in {"free", "live", "expired"},
              m \in [Stages -> Stage] :
                [r EXCEPT !.owner = o, !.lease = l, !.stage = m] \in Row
         /\ [r EXCEPT !.owner = Gone] \in Row
         /\ [r EXCEPT !.lease = "expired"] \in Row
BY DEF Row

\* Updates of the history are histories.
LEMMA HistUpdates ==
  ASSUME NEW h \in Hist
  PROVE  /\ \A s \in Stages : [h EXCEPT !.paid[s] = @ + 1] \in Hist
         /\ \A s \in Stages : [h EXCEPT !.credit[s] = @ + 1] \in Hist
         /\ [h EXCEPT !.straddles = @ + 1] \in Hist
         /\ \A s \in Stages : [h EXCEPT !.published = @ \cup {s}] \in Hist
BY DEF Hist

\* The quarantine of spent stages leaves a row.
LEMMA QuarantinedIsRow ==
  ASSUME NEW r \in Row
  PROVE  Quarantined(r) \in Row
BY DEF Quarantined, Row, Stage

\* The outcome that is recorded is a stage.
LEMMA OutcomeIsStage ==
  ASSUME TypeOK, NEW w \in Workers
  PROVE  Outcome(w) \in Stage
<1> DEFINE t == row.stage[job[w].stage]
           n == Attempts(w)
           x == IF job[w].ok THEN "succeeded"
                ELSE IF n >= MaxAttempts THEN "failed" ELSE "pending"
           b == ~job[w].ok /\ n < MaxAttempts /\ ~job[w].progressed
<1>1. t \in Stage
      BY DEF TypeOK, Row, Job
<1>2. n \in Nat
      BY <1>1 DEF Attempts, Stage
<1>3. x \in {"pending", "succeeded", "failed"}
      OBVIOUS
<1>4. b \in BOOLEAN
      OBVIOUS
<1>5. Outcome(w) = [t EXCEPT !.attempts = n, !.status = x, !.wait = b]
      BY DEF Outcome
<1> HIDE DEF t, n, x, b
<1>6. [t EXCEPT !.attempts = n, !.status = x, !.wait = b] \in Stage
      BY <1>1, <1>2, <1>3, <1>4 DEF Stage
<1> QED BY <1>5, <1>6

\* A run that goes on to its next stage has a job.
LEMMA NextStageIsJob ==
  ASSUME TypeOK, NEW w \in Workers
  PROVE  NextStage(w) \in Job
<1>1. Moved(w, "working") \in Job
      BY MovedIsJob DEF PCs
<1> QED BY <1>1, JobUpdates, IdleIsJob DEF NextStage

\* A reopened row is a row, and a claim that it crossed a job.
LEMMA ReopenedIsRow ==
  ASSUME TypeOK, NEW stages \in SUBSET Stages
  PROVE  Reopened(stages) \in Row
BY DEF TypeOK, Reopened, Row, Stage

LEMMA CrossedIsJob ==
  ASSUME TypeOK, NEW v \in Workers, NEW stages \in SUBSET Stages, NEW early
  PROVE  Crossed(v, stages, early) \in Job
<1>1. job[v] \in Job
      BY DEF TypeOK
<1>2. (IF v \in early THEN job[v].notYet \cup stages ELSE job[v].notYet) \in SUBSET Stages
      BY <1>1 DEF Job
<1>3. \A S \in SUBSET Stages : [job[v] EXCEPT !.straddled = TRUE, !.notYet = S] \in Job
      BY <1>1 DEF Job
<1> QED BY <1>1, <1>2, <1>3 DEF Crossed

\* Every step of every process preserves the types.
LEMMA TypeStep == TypeOK /\ [Next]_vars => TypeOK'
<1> SUFFICES ASSUME TypeOK, [Next]_vars PROVE TypeOK'
    OBVIOUS
<1> USE ConstantsAssumption
<1>0. /\ row \in Row /\ lock \in Workers \cup {NoOne}
      /\ job \in [Workers -> Job] /\ left \in 0..MaxHindrances /\ hist \in Hist
      BY DEF TypeOK
<1>1. ASSUME NEW w \in Workers, Begin(w) PROVE TypeOK'
  <2>1. PICK b, c \in BOOLEAN, S \in SUBSET Stages :
          job' = [job EXCEPT ![w] = [Idle EXCEPT !.pc = "claiming",
                    !.sawExpired = b, !.notYet = S, !.straddled = c]]
    <3> DEFINE b == row.lease = "expired"
               S == {s \in Stages : row.stage[s].wait}
               spent == row.lease # "live" /\ \E s \in Stages : Spent(row, s)
               c == spent /\ lock # NoOne
    <3>1. b \in BOOLEAN /\ c \in BOOLEAN /\ S \in SUBSET Stages
          OBVIOUS
    <3>2. job' = [job EXCEPT ![w] = [Idle EXCEPT !.pc = "claiming",
                    !.sawExpired = b, !.notYet = S, !.straddled = c]]
          BY <1>1 DEF Begin
    <3> QED BY <3>1, <3>2
  <2>2. [Idle EXCEPT !.pc = "claiming", !.sawExpired = b, !.notYet = S,
                     !.straddled = c] \in Job
        BY DEF Idle, Job, Stages
  <2> QED BY <1>0, <1>1, <2>1, <2>2 DEF Begin, TypeOK
<1>2. ASSUME NEW w \in Workers, Claim(w) PROVE TypeOK'
  <2> DEFINE r   == IF lock = w THEN Quarantined(row) ELSE row
             due == {s \in Stages : Pending(r, s) /\ s \notin job[w].notYet}
  <2>1. r \in Row
        BY <1>0, QuarantinedIsRow
  <2>2. CASE lock \in {NoOne, w} /\ Available(w) /\ due # {}
    <3> DEFINE m == [s \in Stages |->
                       [r.stage[s] EXCEPT !.marked = (s \in job[w].started)]]
    <3>1. m \in [Stages -> Stage]
      <4>1. \A s \in Stages : r.stage[s] \in Stage
            BY <2>1 DEF Row
      <4>2. \A s \in Stages : (s \in job[w].started) \in BOOLEAN
            OBVIOUS
      <4> QED BY <4>1, <4>2, StageUpdates
    <3>2. row' = [r EXCEPT !.owner = w, !.lease = "live", !.stage = m]
          BY <1>2, <2>2 DEF Claim
    <3>3. row' \in Row
          BY <2>1, <3>1, <3>2, RowUpdates
    <3>4. job' \in [Workers -> Job]
      <4>1. job' = [v \in Workers |->
                      IF v = w THEN [Idle EXCEPT !.pc = "working", !.work = due,
                                                 !.stage = FirstOf(due)]
                      ELSE Overtaken(v)]
            BY <1>2, <2>2 DEF Claim
      <4>2. [Idle EXCEPT !.pc = "working", !.work = due,
                         !.stage = FirstOf(due)] \in Job
            BY DEF Idle, Job, Stages, FirstOf
      <4> QED BY <4>1, <4>2, OvertakenIsJob, <1>0 DEF TypeOK
    <3>5. hist' \in Hist
      <4>1. hist' \in {hist, [hist EXCEPT !.straddles = @ + 1]}
            BY <1>2, <2>2 DEF Claim
      <4> QED BY <1>0, <4>1, HistUpdates
    <3>6. lock' \in Workers \cup {NoOne} /\ left' = left
          BY <1>0, <1>2 DEF Claim
    <3> QED BY <1>0, <3>3, <3>4, <3>5, <3>6 DEF TypeOK
  <2>3. CASE ~(lock \in {NoOne, w} /\ Available(w) /\ due # {})
    <3>1. row' = r /\ job' = [job EXCEPT ![w] = Idle] /\ hist' = hist
          BY <1>2, <2>3 DEF Claim
    <3>2. lock' \in Workers \cup {NoOne} /\ left' = left
          BY <1>0, <1>2 DEF Claim
    <3>3. job' \in [Workers -> Job]
          BY <1>0, <3>1, IdleIsJob
    <3> HIDE DEF r
    <3> QED BY <1>0, <2>1, <3>1, <3>2, <3>3 DEF TypeOK
  <2> QED BY <2>2, <2>3
<1>3. ASSUME NEW w \in Workers, Start(w) PROVE TypeOK'
  <2> DEFINE s == job[w].stage
  <2>1. s \in Stages
        BY <1>0 DEF Job
  <2>2. row' \in Row
    <3> DEFINE t == Counted(row.stage[s])
    <3>1. t \in Stage
          BY <1>0, <2>1, CountedIsStage DEF Row
    <3>2. row' = IF row.stage[s].marked THEN row ELSE [row EXCEPT !.stage[s] = t]
          BY <1>3 DEF Start
    <3> HIDE DEF s, t
    <3>3. [row EXCEPT !.stage[s] = t] \in Row
          BY <1>0, <2>1, <3>1, RowUpdates
    <3> QED BY <1>0, <3>2, <3>3
  <2>3. job' \in [Workers -> Job]
    <3>1. \A v \in Workers : job[v] \in Job
          BY <1>0
    <3>2. [Moved(w, "calling") EXCEPT !.called = TRUE] \in Job
          BY <1>0, MovedIsJob, JobUpdates DEF TypeOK, PCs
    <3>3. \A v \in Workers : [job[v] EXCEPT !.started = @ \cup {s},
                                          !.straddled = TRUE] \in Job
          BY <2>1, <3>1, JobUpdates
    <3> HIDE DEF s
    <3> QED BY <1>3, <3>1, <3>2, <3>3 DEF Start, s
  <2>4. hist' \in Hist
    <3>1. hist' = [hist EXCEPT !.paid[s] = @ + 1]
          BY <1>3 DEF Start
    <3> HIDE DEF s
    <3> QED BY <1>0, <2>1, <3>1, HistUpdates
  <2> QED BY <1>0, <1>3, <2>2, <2>3, <2>4 DEF Start, TypeOK
<1>4. ASSUME NEW w \in Workers, Refused(w) PROVE TypeOK'
  <2>1. Moved(w, "finishing") \in Job
        BY <1>0, MovedIsJob DEF TypeOK, PCs
  <2>2. job' \in [Workers -> Job]
        BY <1>0, <1>4, <2>1 DEF Refused
  <2> QED BY <1>0, <1>4, <2>2 DEF Refused, TypeOK
<1>5. ASSUME NEW w \in Workers, Answer(w) PROVE TypeOK'
  <2>1. PICK valid, progressed \in BOOLEAN :
          /\ progressed => left > 0
          /\ left' = IF progressed THEN left - 1 ELSE left
          /\ job' = [job EXCEPT ![w] =
               [Moved(w, IF valid \/ job[w].stage = "translation"
                         THEN "publishing" ELSE "finishing")
                  EXCEPT !.ok = valid, !.progressed = progressed]]
        BY <1>5 DEF Answer
  <2> DEFINE pc == IF valid \/ job[w].stage = "translation"
                   THEN "publishing" ELSE "finishing"
  <2>2. pc \in PCs
        BY DEF PCs
  <2> HIDE DEF pc
  <2>3. Moved(w, pc) \in Job
        BY <1>0, <2>2, MovedIsJob DEF TypeOK
  <2>4. [Moved(w, pc) EXCEPT !.ok = valid, !.progressed = progressed] \in Job
        BY <2>3, JobUpdates
  <2>5. job' = [job EXCEPT ![w] = [Moved(w, pc) EXCEPT !.ok = valid,
                                              !.progressed = progressed]]
        BY <2>1 DEF pc
  <2>6. job' \in [Workers -> Job]
        BY <1>0, <2>4, <2>5
  <2> QED BY <1>0, <1>5, <2>1, <2>6 DEF Answer, TypeOK
<1>6. ASSUME NEW w \in Workers, PublishBegin(w) PROVE TypeOK'
  <2>1. PICK fenced \in Fenced(w) :
          job' = [job EXCEPT ![w] =
                    [Moved(w, "committing") EXCEPT !.ok = @ /\ fenced]]
        BY <1>6 DEF PublishBegin
  <2>2. Moved(w, "committing") \in Job
        BY <1>0, MovedIsJob DEF TypeOK, PCs
  <2>3. (Moved(w, "committing").ok /\ fenced) \in BOOLEAN
        OBVIOUS
  <2>4. [Moved(w, "committing") EXCEPT !.ok = @ /\ fenced] \in Job
        BY <2>2, <2>3, JobUpdates
  <2>5. job' \in [Workers -> Job]
        BY <1>0, <2>1, <2>4
  <2> QED BY <1>0, <1>6, <2>5 DEF PublishBegin, TypeOK
<1>7. ASSUME NEW w \in Workers, PublishEnd(w) PROVE TypeOK'
  <2> DEFINE s == job[w].stage
             t == [row.stage[s] EXCEPT !.status = "succeeded", !.wait = FALSE]
  <2>1. s \in Stages
        BY <1>0 DEF Job
  <2>2. t \in Stage
        BY <1>0, <2>1, StageUpdates DEF Row
  <2>3. row' = row \/ row' = [row EXCEPT !.stage[s] = t]
        BY <1>7 DEF PublishEnd
  <2>4. hist' = hist \/ hist' = [hist EXCEPT !.published = @ \cup {s}]
        BY <1>7 DEF PublishEnd
  <2> HIDE DEF s, t
  <2>5. row' \in Row /\ hist' \in Hist
    <3>1. [row EXCEPT !.stage[s] = t] \in Row
          BY <1>0, <2>1, <2>2, RowUpdates
    <3>2. [hist EXCEPT !.published = @ \cup {s}] \in Hist
          BY <1>0, <2>1, HistUpdates
    <3> QED BY <1>0, <2>3, <2>4, <3>1, <3>2
  <2>6. Moved(w, "finishing") \in Job
        BY <1>0, MovedIsJob DEF TypeOK, PCs
  <2>7. job' \in [Workers -> Job]
        BY <1>0, <1>7, <2>6 DEF PublishEnd
  <2> QED BY <1>0, <1>7, <2>5, <2>7 DEF PublishEnd, TypeOK
<1>8. ASSUME NEW w \in Workers, Finish(w) PROVE TypeOK'
  <2> DEFINE s == job[w].stage
  <2>1. s \in Stages
        BY <1>0 DEF Job
  <2>2. row' = row \/ row' = [row EXCEPT !.stage[s] = Outcome(w)]
        BY <1>8 DEF Finish
  <2>3. hist' = hist \/ hist' = [hist EXCEPT !.credit[s] = @ + 1]
        BY <1>8 DEF Finish
  <2>4. \A v \in Workers : job'[v] \in {NextStage(w), job[v],
                                     [job[v] EXCEPT !.notYet = @ \cup {s}]}
        BY <1>8 DEF Finish
  <2>5. Outcome(w) \in Stage
        BY <1>0, <2>1, OutcomeIsStage DEF TypeOK
  <2>6. NextStage(w) \in Job
        BY <1>0, NextStageIsJob DEF TypeOK
  <2> HIDE DEF s
  <2>7. row' \in Row /\ hist' \in Hist
    <3>1. [row EXCEPT !.stage[s] = Outcome(w)] \in Row
          BY <1>0, <2>1, <2>5, RowUpdates
    <3>2. [hist EXCEPT !.credit[s] = @ + 1] \in Hist
          BY <1>0, <2>1, HistUpdates
    <3> QED BY <1>0, <2>2, <2>3, <3>1, <3>2
  <2>8. job' \in [Workers -> Job]
    <3>1. \A v \in Workers : job'[v] \in Job
      <4>1. \A v \in Workers : [job[v] EXCEPT !.notYet = @ \cup {s}] \in Job
            BY <1>0, <2>1, JobUpdates
      <4> QED BY <1>0, <2>4, <2>6, <4>1
    <3>2. job' = [v \in Workers |-> job'[v]]
          BY <1>8 DEF Finish
    <3> QED BY <3>1, <3>2
  <2> QED BY <1>0, <1>8, <2>7, <2>8 DEF Finish, TypeOK
<1>9. ASSUME NEW w \in Workers, Release(w) PROVE TypeOK'
  <2> DEFINE m == [s \in Stages |-> [row.stage[s] EXCEPT !.marked = FALSE]]
  <2>1. m \in [Stages -> Stage]
        BY <1>0, StageUpdates DEF Row
  <2>2. row' = row \/ row' = [row EXCEPT !.owner = NoOne, !.lease = "free", !.stage = m]
        BY <1>9 DEF Release
  <2>3. \A v \in Workers : job'[v] \in {Idle, job[v], [job[v] EXCEPT !.straddled = TRUE]}
        BY <1>9 DEF Release
  <2> HIDE DEF m
  <2>4. row' \in Row
    <3>1. [row EXCEPT !.owner = NoOne, !.lease = "free", !.stage = m] \in Row
          BY <1>0, <2>1 DEF Row
    <3> QED BY <1>0, <2>2, <3>1
  <2>5. job' \in [Workers -> Job]
    <3>1. \A v \in Workers : job'[v] \in Job
          BY <1>0, <2>3, IdleIsJob, JobUpdates
    <3>2. job' = [v \in Workers |-> job'[v]]
          BY <1>9 DEF Release
    <3> QED BY <3>1, <3>2
  <2> QED BY <1>0, <1>9, <2>4, <2>5 DEF Release, TypeOK
<1>10. ASSUME NEW w \in Workers, Abort(w) PROVE TypeOK'
  <2>1. job' \in [Workers -> Job]
        BY <1>0, <1>10, IdleIsJob DEF Abort
  <2> QED BY <1>0, <1>10, <2>1 DEF Abort, Unlocked, TypeOK
<1>11. ASSUME NEW w \in Workers, Die(w) PROVE TypeOK'
  <2>1. job' \in [Workers -> Job]
        BY <1>0, <1>11, IdleIsJob DEF Die
  <2>2. row' \in Row
        BY <1>0, <1>11, RowUpdates DEF Die
  <2> QED BY <1>0, <1>11, <2>1, <2>2 DEF Die, Unlocked, TypeOK
<1>12. CASE Expire
  <2>1. row' \in Row
        BY <1>0, <1>12, RowUpdates DEF Expire
  <2>2. left' \in 0..MaxHindrances
    <3>1. left' = left \/ (left > 0 /\ left' = left - 1)
          BY <1>12 DEF Expire
    <3> QED BY <1>0, <3>1
  <2> QED BY <1>0, <1>12, <2>1, <2>2 DEF Expire, TypeOK
<1>13. ASSUME NEW s \in Stages, RetryDue(s) PROVE TypeOK'
  <2>1. row' \in Row
    <3> DEFINE t == [row.stage[s] EXCEPT !.wait = FALSE]
    <3>1. t \in Stage
          BY <1>0, StageUpdates DEF Row
    <3>2. row' = [row EXCEPT !.stage[s] = t]
          BY <1>13 DEF RetryDue
    <3> HIDE DEF t
    <3> QED BY <1>0, <3>1, <3>2, RowUpdates
  <2> QED BY <1>0, <1>13, <2>1 DEF RetryDue, TypeOK
<1>14. CASE UNCHANGED vars
       BY <1>14 DEF vars, TypeOK
<1>15. CASE Requeue \/ Reopen
  <2>1. PICK stages \in SUBSET Stages, early \in SUBSET Workers :
          /\ Outdated(stages)
          /\ job' = [v \in Workers |-> Crossed(v, stages, early)]
    <3>1. {"translation"} \in SUBSET Stages /\ {} \in SUBSET Workers
          BY DEF Stages
    <3> QED BY <1>15, <3>1 DEF Requeue, Reopen
  <2>2. row' \in Row /\ job' \in [Workers -> Job]
        BY <2>1, ReopenedIsRow, CrossedIsJob DEF Outdated
  <2>3. left' \in 0..MaxHindrances
        BY <1>0, <2>1 DEF Outdated
  <2>4. lock' = lock /\ hist' = hist
        BY <1>15 DEF Requeue, Reopen
  <2> QED BY <1>0, <2>2, <2>3, <2>4 DEF TypeOK
<1> QED BY <1>1, <1>2, <1>3, <1>4, <1>5, <1>6, <1>7, <1>8, <1>9, <1>10, <1>11,
           <1>12, <1>13, <1>14, <1>15 DEF Next, RunStep

-----------------------------------------------------------------------------
(* What the larger actions do *)

\* What an update does to the other fields.
LEMMA MarkedFields ==
  ASSUME NEW t \in Stage, NEW b \in BOOLEAN, NEW u, u = [t EXCEPT !.marked = b]
  PROVE  /\ u.status = t.status /\ u.attempts = t.attempts
         /\ u.marked <=> b
BY DEF Stage

\* The quarantine fails the spent stages and changes nothing else.
LEMMA QuarantinedFields ==
  ASSUME NEW r \in Row, NEW s \in Stages, NEW q, q = Quarantined(r)
  PROVE  /\ q.owner = r.owner /\ q.lease = r.lease
         /\ q.stage[s].attempts = r.stage[s].attempts
         /\ q.stage[s].marked <=> r.stage[s].marked
         /\ q.stage[s].status = IF Spent(r, s) THEN "failed" ELSE r.stage[s].status
<1>1. r.stage[s] \in Stage
      BY DEF Row
<1>2. q.stage[s] = IF Spent(r, s)
                   THEN [r.stage[s] EXCEPT !.status = "failed", !.wait = FALSE]
                   ELSE r.stage[s]
      BY DEF Row, Quarantined
<1>3. q.owner = r.owner /\ q.lease = r.lease
      BY DEF Row, Quarantined
<1> QED BY <1>1, <1>2, <1>3 DEF Stage

\* What a claim leaves of the stages: attempts stay, a spent stage may fail.
LEMMA ClaimKeepsStages ==
  ASSUME TypeOK, NEW w \in Workers, Claim(w)
  PROVE  \A s \in Stages :
           /\ row'.stage[s].attempts = row.stage[s].attempts
           /\ \/ row'.stage[s].status = row.stage[s].status
              \/ /\ Spent(row, s) /\ lock = w
                 /\ row'.stage[s].status = "failed"
<1> DEFINE r   == IF lock = w THEN Quarantined(row) ELSE row
           due == {s \in Stages : Pending(r, s) /\ s \notin job[w].notYet}
<1>1. row \in Row /\ r \in Row
      BY QuarantinedIsRow DEF TypeOK
<1>2. \A s \in Stages :
           /\ r.stage[s].attempts = row.stage[s].attempts
           /\ \/ r.stage[s].status = row.stage[s].status
              \/ /\ Spent(row, s) /\ lock = w
                 /\ r.stage[s].status = "failed"
  <2>1. CASE lock = w
        BY <1>1, <2>1, QuarantinedFields
  <2>2. CASE lock # w
        BY <2>2
  <2> QED BY <2>1, <2>2
<1>3. \/ row' = r
      \/ row' = [r EXCEPT !.owner = w, !.lease = "live",
                   !.stage = [s \in Stages |->
                      [r.stage[s] EXCEPT !.marked = (s \in job[w].started)]]]
      BY DEF Claim
<1> HIDE DEF r
<1>4. CASE row' = r
      BY <1>2, <1>4
<1>5. CASE row' = [r EXCEPT !.owner = w, !.lease = "live",
                   !.stage = [s \in Stages |->
                      [r.stage[s] EXCEPT !.marked = (s \in job[w].started)]]]
  <2>1. \A s \in Stages : row'.stage[s] = [r.stage[s] EXCEPT !.marked = (s \in job[w].started)]
        BY <1>1, <1>5 DEF Row
  <2>2. \A s \in Stages : /\ row'.stage[s].attempts = r.stage[s].attempts
                          /\ row'.stage[s].status = r.stage[s].status
    <3> SUFFICES ASSUME NEW s \in Stages
                 PROVE  /\ row'.stage[s].attempts = r.stage[s].attempts
                        /\ row'.stage[s].status = r.stage[s].status
        OBVIOUS
    <3>1. r.stage[s] \in Stage /\ (s \in job[w].started) \in BOOLEAN
          BY <1>1 DEF Row
    <3>2. row'.stage[s] = [r.stage[s] EXCEPT !.marked = (s \in job[w].started)]
          BY <2>1
    <3> QED BY <3>1, <3>2, MarkedFields
  <2> QED BY <1>2, <2>2
<1> QED BY <1>3, <1>4, <1>5

\* A claim that gets the row: its run has exactly stages that are due.
ClaimGets(w) ==
  /\ lock \in {NoOne, w} /\ Available(w)
  /\ row'.owner = w /\ row'.lease = "live"
  /\ \A s \in Stages : row'.stage[s].marked <=> s \in job[w].started
  /\ job'[w] = [Idle EXCEPT !.pc = "working", !.work = job'[w].work,
                            !.stage = job'[w].stage]
  /\ job'[w].stage \in job'[w].work
  /\ \A s \in job'[w].work :
       /\ Pending(row, s) /\ Pending(row', s) /\ s \notin job[w].notYet
       /\ lock = w => row.stage[s].attempts < MaxAttempts
       /\ job[w].straddled /\ (row.stage[s].attempts >= MaxAttempts \/ s \in job[w].started)
            => hist' = [hist EXCEPT !.straddles = @ + 1]
  /\ \A v \in Workers \ {w} : job'[v] = Overtaken(v)
  /\ hist' = hist \/ hist' = [hist EXCEPT !.straddles = @ + 1]

\* A claim that gets nothing.
ClaimGetsNothing(w) ==
  /\ row'.owner = row.owner /\ row'.lease = row.lease
  /\ \A s \in Stages : row'.stage[s].marked <=> row.stage[s].marked
  /\ job' = [job EXCEPT ![w] = Idle]
  /\ hist' = hist

\* A claim gets the row with the stages that are due, or nothing.
LEMMA ClaimOutcome ==
  ASSUME TypeOK, NEW w \in Workers, Claim(w)
  PROVE  /\ lock' = (IF lock = w THEN NoOne ELSE lock)
         /\ ClaimGets(w) \/ ClaimGetsNothing(w)
<1> DEFINE r   == IF lock = w THEN Quarantined(row) ELSE row
           due == {s \in Stages : Pending(r, s) /\ s \notin job[w].notYet}
<1>1. row \in Row /\ r \in Row
      BY QuarantinedIsRow DEF TypeOK
<1>2. \A s \in due : Pending(row, s) /\ (lock = w => row.stage[s].attempts < MaxAttempts)
  <2>1. CASE lock = w
    <3>1. \A s \in Stages : r.stage[s].status = IF Spent(row, s) THEN "failed" ELSE row.stage[s].status
          BY <1>1, <2>1, QuarantinedFields
    <3>2. \A s \in Stages : row.stage[s].attempts \in Nat
          BY <1>1 DEF Row, Stage
    <3> HIDE DEF r
    <3> QED BY <3>1, <3>2, ConstantsAssumption DEF Pending, Spent
  <2>2. CASE lock # w
        BY <2>2
  <2> QED BY <2>1, <2>2
<1>3. lock' = (IF lock = w THEN NoOne ELSE lock)
      BY DEF Claim
<1>4. CASE lock \in {NoOne, w} /\ Available(w) /\ due # {}
  <2> DEFINE m == [s \in Stages |-> [r.stage[s] EXCEPT !.marked = (s \in job[w].started)]]
  <2>1. /\ row' = [r EXCEPT !.owner = w, !.lease = "live", !.stage = m]
        /\ job' = [v \in Workers |->
                     IF v = w THEN [Idle EXCEPT !.pc = "working", !.work = due,
                                                !.stage = FirstOf(due)]
                     ELSE Overtaken(v)]
        /\ hist' = IF job[w].straddled /\ Excusable(w, r, due)
                   THEN [hist EXCEPT !.straddles = @ + 1] ELSE hist
        BY <1>4 DEF Claim
  <2>2. row'.owner = w /\ row'.lease = "live" /\ row'.stage = m
    <3> HIDE DEF r, m
    <3> QED BY <1>1, <2>1 DEF Row
  <2>3. \A s \in Stages : row'.stage[s] =
                             [r.stage[s] EXCEPT !.marked = (s \in job[w].started)]
        BY <2>2
  <2>4. \A s \in Stages : /\ row'.stage[s].status = r.stage[s].status
                          /\ row'.stage[s].marked <=> s \in job[w].started
    <3> HIDE DEF r, m
    <3> SUFFICES ASSUME NEW s \in Stages
                 PROVE  /\ row'.stage[s].status = r.stage[s].status
                        /\ row'.stage[s].marked <=> s \in job[w].started
        OBVIOUS
    <3>1. r.stage[s] \in Stage /\ (s \in job[w].started) \in BOOLEAN
          BY <1>1 DEF Row
    <3> QED BY <2>3, <3>1, MarkedFields
  <2>5. \A s \in due : Pending(row', s)
        BY <2>4 DEF Pending
  <2>6. FirstOf(due) \in due
        BY <1>4 DEF FirstOf, Stages
  <2>10. ASSUME NEW s \in due, job[w].straddled,
                row.stage[s].attempts >= MaxAttempts \/ s \in job[w].started
         PROVE  hist' = [hist EXCEPT !.straddles = @ + 1]
    <3>1. Spent(r, s) \/ s \in job[w].started
      <4>1. CASE lock = w
        <5>1. row.stage[s].attempts < MaxAttempts /\ row.stage[s].attempts \in Nat
              BY <1>1, <1>2, <4>1 DEF Row, Stage
        <5> QED BY <2>10, <5>1, ConstantsAssumption
      <4>2. CASE lock # w
            BY <2>10, <4>2 DEF Spent
      <4> QED BY <4>1, <4>2
    <3>2. Excusable(w, r, due)
          BY <2>10, <3>1 DEF Excusable
    <3> QED BY <2>1, <2>10, <3>2
  <2> HIDE DEF due
  <2>7. /\ job'[w] = [Idle EXCEPT !.pc = "working", !.work = due, !.stage = FirstOf(due)]
        /\ job'[w].work = due /\ job'[w].stage = FirstOf(due)
        BY <2>1 DEF Idle
  <2>8. \A v \in Workers \ {w} : job'[v] = Overtaken(v)
        BY <2>1
  <2>9. \A s \in due : s \notin job[w].notYet
        BY DEF due
  <2>11. hist' = hist \/ hist' = [hist EXCEPT !.straddles = @ + 1]
        BY <2>1
  <2>12. \A s \in job'[w].work :
           /\ Pending(row, s) /\ Pending(row', s) /\ s \notin job[w].notYet
           /\ lock = w => row.stage[s].attempts < MaxAttempts
           /\ job[w].straddled /\ (row.stage[s].attempts >= MaxAttempts \/ s \in job[w].started)
                => hist' = [hist EXCEPT !.straddles = @ + 1]
    <3>1. \A s \in due :
            job[w].straddled /\ (row.stage[s].attempts >= MaxAttempts \/ s \in job[w].started)
              => hist' = [hist EXCEPT !.straddles = @ + 1]
          BY <2>10
    <3> QED BY <1>2, <2>5, <2>7, <2>9, <3>1
  <2>13. \A s \in Stages : row'.stage[s].marked <=> s \in job[w].started
        BY <2>4
  <2>14. job'[w] = [Idle EXCEPT !.pc = "working", !.work = job'[w].work,
                                !.stage = job'[w].stage]
        BY <2>7
  <2> QED BY <1>3, <1>4, <2>2, <2>6, <2>7, <2>8, <2>11, <2>12, <2>13, <2>14
          DEF ClaimGets
<1>5. CASE ~(lock \in {NoOne, w} /\ Available(w) /\ due # {})
  <2>1. row' = r /\ job' = [job EXCEPT ![w] = Idle] /\ hist' = hist
        BY <1>5 DEF Claim
  <2>2. /\ r.owner = row.owner /\ r.lease = row.lease
        /\ \A s \in Stages : r.stage[s].marked <=> row.stage[s].marked
    <3>1. CASE lock = w
          BY <1>1, <3>1, QuarantinedFields DEF Stages
    <3>2. CASE lock # w
          BY <3>2
    <3> QED BY <3>1, <3>2
  <2> HIDE DEF r
  <2> QED BY <1>3, <2>1, <2>2 DEF ClaimGetsNothing
<1> QED BY <1>4, <1>5

\* The fields of a job that no other process changes.
Kept(v) == /\ job'[v].pc = job[v].pc /\ job'[v].stage = job[v].stage
           /\ job'[v].work = job[v].work
           /\ job'[v].ok <=> job[v].ok
           /\ job'[v].called <=> job[v].called
           /\ job'[v].progressed <=> job[v].progressed

\* What a claim that gets the row does to every run.
LEMMA ClaimGetsJobs ==
  ASSUME TypeOK, NEW w \in Workers, ClaimGets(w)
  PROVE  /\ job'[w].pc = "working"
         /\ ~job'[w].ok /\ ~job'[w].replaced
         /\ \A v \in Workers \ {w} :
              /\ Kept(v)
              /\ ~job'[v].sawExpired
              /\ job'[v].straddled <=> job[v].straddled
              /\ job'[v].started = job[v].started /\ job'[v].notYet = job[v].notYet
              /\ job'[v].replaced <=> job[v].pc \notin {"idle", "claiming", "releasing"}
<1>1. /\ job'[w].pc = "working"
      /\ ~job'[w].ok /\ ~job'[w].replaced
  <2> DEFINE x == job'[w].work
             y == job'[w].stage
  <2>1. job'[w] = [Idle EXCEPT !.pc = "working", !.work = x, !.stage = y]
        BY DEF ClaimGets
  <2> HIDE DEF x, y
  <2> QED BY <2>1 DEF Idle
<1>2. ASSUME NEW v \in Workers \ {w}
      PROVE  /\ Kept(v)
             /\ ~job'[v].sawExpired
             /\ job'[v].straddled <=> job[v].straddled
             /\ job'[v].started = job[v].started /\ job'[v].notYet = job[v].notYet
             /\ job'[v].replaced <=> job[v].pc \notin {"idle", "claiming", "releasing"}
  <2> DEFINE b == job[v].pc \notin {"idle", "claiming", "releasing"}
             j == job[v]
             x == job'[v]
  <2>1. j \in Job /\ b \in BOOLEAN
        BY DEF TypeOK
  <2>2. x = [j EXCEPT !.sawExpired = FALSE, !.replaced = b]
        BY DEF ClaimGets, Overtaken
  <2> HIDE DEF b, j, x
  <2>3. /\ x.pc = j.pc /\ x.stage = j.stage /\ x.work = j.work
        /\ x.ok <=> j.ok
        /\ x.called <=> j.called
        /\ x.progressed <=> j.progressed
        /\ ~x.sawExpired
        /\ x.straddled <=> j.straddled
        /\ x.started = j.started /\ x.notYet = j.notYet
        /\ x.replaced <=> b
        BY <2>1, <2>2 DEF Job
  <2> QED BY <2>3 DEF Kept, b, j, x
<1> QED BY <1>1, <1>2

\* A dispatch counts an attempt once per claim, and straddles every claim.
LEMMA StartEffect ==
  ASSUME TypeOK, NEW w \in Workers, Start(w)
  PROVE  /\ job'[w].pc = "calling" /\ job'[w].stage = job[w].stage
         /\ job'[w].work = job[w].work
         /\ job'[w].ok <=> job[w].ok
         /\ job'[w].replaced <=> job[w].replaced
         /\ \A v \in Workers \ {w} :
              /\ Kept(v)
              /\ job'[v].sawExpired <=> job[v].sawExpired
              /\ job'[v].replaced <=> job[v].replaced
              /\ job[v].pc = "claiming" => job'[v].straddled
         /\ row'.owner = row.owner /\ row'.lease = row.lease /\ row.owner = w
         /\ \A s \in Stages : row'.stage[s].status = row.stage[s].status
         /\ \A s \in Stages \ {job[w].stage} : row'.stage[s] = row.stage[s]
         /\ \/ /\ row.stage[job[w].stage].marked
               /\ row' = row
            \/ /\ ~row.stage[job[w].stage].marked
               /\ row'.stage[job[w].stage].attempts = row.stage[job[w].stage].attempts + 1
         /\ hist' = [hist EXCEPT !.paid[job[w].stage] = @ + 1]
<1> DEFINE s == job[w].stage
<1>1. s \in Stages /\ job[w] \in Job /\ row \in Row
      BY DEF TypeOK, Job
<1>2. row.owner = w
      BY DEF Start, Holds, HeldNow
<1>3. hist' = [hist EXCEPT !.paid[job[w].stage] = @ + 1]
      BY DEF Start
<1>4. /\ job'[w].pc = "calling" /\ job'[w].stage = job[w].stage
      /\ job'[w].work = job[w].work
      /\ job'[w].ok <=> job[w].ok
      /\ job'[w].replaced <=> job[w].replaced
  <2> DEFINE b == row.lease = "expired" /\ row.owner = w
             j == job[w]
  <2>1. b \in BOOLEAN /\ j \in Job
        BY <1>1
  <2>2. job'[w] = [[j EXCEPT !.pc = "calling", !.late = b] EXCEPT !.called = TRUE]
        BY DEF Start, Moved
  <2> HIDE DEF b, j
  <2>3. /\ job'[w].pc = "calling" /\ job'[w].stage = j.stage
        /\ job'[w].work = j.work
        /\ job'[w].ok <=> j.ok
        /\ job'[w].replaced <=> j.replaced
        BY <2>1, <2>2 DEF Job
  <2> QED BY <2>3 DEF j
<1>5. ASSUME NEW v \in Workers \ {w}
      PROVE  /\ Kept(v)
             /\ job'[v].sawExpired <=> job[v].sawExpired
             /\ job'[v].replaced <=> job[v].replaced
             /\ job[v].pc = "claiming" => job'[v].straddled
  <2> DEFINE j == job[v]
             x == job'[v]
  <2>1. j \in Job
        BY DEF TypeOK
  <2>2. x = IF j.pc = "claiming"
            THEN [j EXCEPT !.started = @ \cup {s}, !.straddled = TRUE] ELSE j
        BY DEF Start, Claiming
  <2> HIDE DEF j, x, s
  <2>3. /\ x.pc = j.pc /\ x.stage = j.stage /\ x.work = j.work
        /\ x.ok <=> j.ok
        /\ x.called <=> j.called
        /\ x.progressed <=> j.progressed
        /\ x.sawExpired <=> j.sawExpired
        /\ x.replaced <=> j.replaced
        /\ j.pc = "claiming" => x.straddled
        BY <2>1, <2>2 DEF Job
  <2> QED BY <2>3 DEF Kept, j, x
<1>6. CASE row.stage[s].marked
  <2>1. row' = row
        BY <1>6 DEF Start
  <2> QED BY <1>2, <1>3, <1>4, <1>5, <1>6, <2>1
<1>7. CASE ~row.stage[s].marked
  <2> DEFINE t == row.stage[s]
             x == Counted(t)
  <2>1. row' = [row EXCEPT !.stage[s] = x]
        BY <1>7 DEF Start
  <2>2. t \in Stage
        BY <1>1 DEF Row
  <2>3. x.attempts = t.attempts + 1 /\ x.status = t.status
    <3> HIDE DEF t
    <3> QED BY <2>2 DEF Counted, Stage
  <2> HIDE DEF x, s
  <2>4. /\ row'.owner = row.owner /\ row'.lease = row.lease
        /\ row'.stage[s] = x
        /\ \A u \in Stages \ {s} : row'.stage[u] = row.stage[u]
        BY <1>1, <2>1 DEF Row
  <2>5. row'.stage[s].attempts = row.stage[s].attempts + 1
        BY <2>3, <2>4
  <2>6. \A u \in Stages : row'.stage[u].status = row.stage[u].status
        BY <2>3, <2>4
  <2> QED BY <1>2, <1>3, <1>4, <1>5, <1>7, <2>4, <2>5, <2>6 DEF s
<1> QED BY <1>6, <1>7

\* An outcome that is recorded: only by the owner, for a stage still pending.
FinishRecords(w) ==
  LET s == job[w].stage IN
  /\ row.owner = w /\ Pending(row, s)
  /\ row'.owner = row.owner /\ row'.lease = row.lease
  /\ row'.stage[s].attempts = Attempts(w)
  /\ row'.stage[s].marked <=> row.stage[s].marked
  /\ row'.stage[s].status = IF job[w].ok THEN "succeeded"
                            ELSE IF Attempts(w) >= MaxAttempts THEN "failed"
                            ELSE "pending"
  /\ \A u \in Stages \ {s} : row'.stage[u] = row.stage[u]
  /\ hist' = IF Credited(w) THEN [hist EXCEPT !.credit[s] = @ + 1] ELSE hist
  /\ \A v \in Workers \ {w} : Claiming(v) => s \in job'[v].notYet

\* The run of a finished stage goes on to its next stage, or releases the row.
FinishGoesOn(w) ==
  /\ ~job'[w].ok
  /\ \/ job'[w].pc = "releasing"
     \/ /\ job'[w].pc = "working" /\ job'[w].stage = "classification"
        /\ job[w].stage = "translation" /\ "classification" \in job[w].work
        /\ job'[w].work = job[w].work
        /\ job'[w].replaced <=> job[w].replaced

\* The end of a stage: its outcome is recorded or not, and the run goes on.
LEMMA FinishEffect ==
  ASSUME TypeOK, NEW w \in Workers, Finish(w)
  PROVE  /\ FinishRecords(w) \/ (row' = row /\ hist' = hist)
         /\ FinishGoesOn(w)
         /\ \A v \in Workers \ {w} :
              /\ Kept(v)
              /\ job'[v].sawExpired <=> job[v].sawExpired
              /\ job'[v].replaced <=> job[v].replaced
              /\ job'[v].straddled <=> job[v].straddled
              /\ job'[v].started = job[v].started
              /\ job[v].notYet \subseteq job'[v].notYet
<1> DEFINE s == job[w].stage
<1>1. s \in Stages /\ job[w] \in Job /\ row \in Row
      BY DEF TypeOK, Job
<1>2. PICK held \in Holds(w) :
        LET effective == held /\ Pending(row, s) IN
        /\ row' = IF effective THEN [row EXCEPT !.stage[s] = Outcome(w)] ELSE row
        /\ hist' = IF effective /\ Credited(w)
                   THEN [hist EXCEPT !.credit[s] = @ + 1] ELSE hist
        /\ job' = [v \in Workers |->
               IF v = w THEN NextStage(w)
               ELSE IF Claiming(v) /\ effective
                    THEN [job[v] EXCEPT !.notYet = @ \cup {s}] ELSE job[v]]
      BY DEF Finish
<1>3. held => row.owner = w
      BY DEF Holds, HeldNow
<1>4. FinishGoesOn(w)
  <2>1. job'[w] = NextStage(w)
        BY <1>2
  <2>2. CASE job[w].stage = "translation" /\ "classification" \in job[w].work
    <3> DEFINE b == row.lease = "expired" /\ row.owner = w
               j == job[w]
               x == job'[w]
    <3>1. b \in BOOLEAN /\ j \in Job
          BY <1>1
    <3>2. x = [[j EXCEPT !.pc = "working", !.late = b]
                 EXCEPT !.stage = "classification", !.called = FALSE,
                        !.ok = FALSE, !.progressed = FALSE]
          BY <2>1, <2>2 DEF NextStage, Moved
    <3> HIDE DEF b, j, x
    <3>3. /\ x.pc = "working" /\ x.stage = "classification" /\ x.work = j.work
          /\ ~x.ok
          /\ x.replaced <=> j.replaced
          BY <3>1, <3>2 DEF Job
    <3> QED BY <2>2, <3>3 DEF FinishGoesOn, j, x
  <2>3. CASE ~(job[w].stage = "translation" /\ "classification" \in job[w].work)
        BY <2>1, <2>3 DEF NextStage, FinishGoesOn, Idle
  <2> QED BY <2>2, <2>3
<1>5. ASSUME NEW v \in Workers \ {w}
      PROVE  /\ Kept(v)
             /\ job'[v].sawExpired <=> job[v].sawExpired
             /\ job'[v].replaced <=> job[v].replaced
             /\ job'[v].straddled <=> job[v].straddled
             /\ job'[v].started = job[v].started
             /\ job[v].notYet \subseteq job'[v].notYet
             /\ held /\ Pending(row, s) /\ Claiming(v) => s \in job'[v].notYet
  <2> DEFINE j == job[v]
             x == job'[v]
             new == [j EXCEPT !.notYet = @ \cup {s}]
  <2>1. j \in Job
        BY DEF TypeOK
  <2>2. x \in {j, new} /\ (held /\ Pending(row, s) /\ Claiming(v) => x = new)
        BY <1>2
  <2> HIDE DEF j, x, s
  <2>3. \A y \in {j, new} :
          /\ y.pc = j.pc /\ y.stage = j.stage /\ y.work = j.work
          /\ y.ok <=> j.ok
          /\ y.called <=> j.called
          /\ y.progressed <=> j.progressed
          /\ y.sawExpired <=> j.sawExpired
          /\ y.replaced <=> j.replaced
          /\ y.straddled <=> j.straddled
          /\ y.started = j.started
          /\ j.notYet \subseteq y.notYet
        BY <2>1 DEF Job
  <2>4. s \in new.notYet
        BY <2>1 DEF Job
  <2> QED BY <2>2, <2>3, <2>4 DEF Kept, j, x
<1>6. CASE held /\ Pending(row, s)
  <2> DEFINE t == row.stage[s]
             n == Attempts(w)
             y == IF job[w].ok THEN "succeeded"
                  ELSE IF n >= MaxAttempts THEN "failed" ELSE "pending"
             b == ~job[w].ok /\ n < MaxAttempts /\ ~job[w].progressed
             x == Outcome(w)
  <2>1. t \in Stage /\ n \in Nat /\ b \in BOOLEAN
        BY <1>1 DEF Row, Attempts, Stage
  <2>2. x = [t EXCEPT !.attempts = n, !.status = y, !.wait = b]
        BY DEF Outcome
  <2>3. row' = [row EXCEPT !.stage[s] = x]
        BY <1>2, <1>6
  <2> HIDE DEF t, n, y, b, x, s
  <2>4. x.attempts = n /\ x.status = y /\ (x.marked <=> t.marked)
        BY <2>1, <2>2 DEF Stage
  <2>5. /\ row'.owner = row.owner /\ row'.lease = row.lease
        /\ row'.stage[s] = x
        /\ \A u \in Stages \ {s} : row'.stage[u] = row.stage[u]
        BY <1>1, <2>3 DEF Row
  <2>6. hist' = IF Credited(w) THEN [hist EXCEPT !.credit[s] = @ + 1] ELSE hist
        BY <1>2, <1>6
  <2>7. FinishRecords(w)
        BY <1>3, <1>5, <1>6, <2>4, <2>5, <2>6 DEF FinishRecords, t, n, y, s
  <2> QED BY <1>4, <1>5, <2>7
<1>7. CASE ~(held /\ Pending(row, s))
  <2>1. row' = row /\ hist' = hist
        BY <1>2, <1>7
  <2> QED BY <1>4, <1>5, <2>1
<1> QED BY <1>6, <1>7

\* The fence of a publication: a result is published only by the owner.
LEMMA PublishBeginEffect ==
  ASSUME TypeOK, NEW w \in Workers, PublishBegin(w)
  PROVE  /\ job'[w].pc = "committing" /\ job'[w].stage = job[w].stage
         /\ job'[w].work = job[w].work
         /\ job'[w].replaced <=> job[w].replaced
         /\ job'[w].ok => job[w].ok /\ row.owner = w
         /\ \A v \in Workers \ {w} : job'[v] = job[v]
         /\ lock' = w /\ lock = NoOne /\ row' = row /\ hist' = hist
<1>1. PICK fenced \in Fenced(w) :
        job' = [job EXCEPT ![w] =
                  [Moved(w, "committing") EXCEPT !.ok = @ /\ fenced]]
      BY DEF PublishBegin
<1>2. fenced => row.owner = w
      BY DEF Fenced, Holds, HeldNow
<1> DEFINE b == row.lease = "expired" /\ row.owner = w
           j == job[w]
           c == j.ok /\ fenced
           x == job'[w]
<1>3. j \in Job /\ job \in [Workers -> Job] /\ b \in BOOLEAN /\ c \in BOOLEAN
      BY DEF TypeOK
<1>4. Moved(w, "committing").ok <=> j.ok
  <2> HIDE DEF b, j
  <2>1. Moved(w, "committing") = [j EXCEPT !.pc = "committing", !.late = b]
        BY DEF Moved, b, j
  <2> QED BY <1>3, <2>1 DEF Job
<1>5. x = [[j EXCEPT !.pc = "committing", !.late = b] EXCEPT !.ok = @ /\ fenced]
      BY <1>1, <1>3 DEF Moved
<1> HIDE DEF b, j, c, x
<1>6. /\ x.pc = "committing" /\ x.stage = j.stage
      /\ x.work = j.work
      /\ x.replaced <=> j.replaced
      /\ x.ok => j.ok /\ fenced
      BY <1>3, <1>5 DEF Job
<1>7. \A v \in Workers \ {w} : job'[v] = job[v]
      BY <1>1, <1>3
<1> QED BY <1>2, <1>6, <1>7 DEF PublishBegin, j, x

\* The first statement of a claim: what it read and what it locked.
LEMMA BeginEffect ==
  ASSUME TypeOK, NEW w \in Workers, Begin(w)
  PROVE  LET spent == row.lease # "live" /\ \E s \in Stages : Spent(row, s) IN
         /\ job[w].pc = "idle" /\ job'[w].pc = "claiming"
         /\ job'[w].sawExpired <=> row.lease = "expired"
         /\ job'[w].straddled <=> spent /\ lock # NoOne
         /\ job'[w].started = {}
         /\ lock' = IF spent /\ lock = NoOne THEN w ELSE lock
         /\ \A v \in Workers \ {w} : job'[v] = job[v]
         /\ row' = row /\ hist' = hist
<1> DEFINE spent == row.lease # "live" /\ \E s \in Stages : Spent(row, s)
           b == row.lease = "expired"
           c == spent /\ lock # NoOne
           S == {s \in Stages : row.stage[s].wait}
           x == job'[w]
<1>1. b \in BOOLEAN /\ c \in BOOLEAN /\ job \in [Workers -> Job]
      BY DEF TypeOK
<1>2. job' = [job EXCEPT ![w] = [Idle EXCEPT !.pc = "claiming", !.sawExpired = b,
                                             !.notYet = S, !.straddled = c]]
      BY DEF Begin
<1> HIDE DEF b, c, S
<1>3. /\ x.pc = "claiming" /\ x.started = {}
      /\ x.sawExpired <=> b
      /\ x.straddled <=> c
      BY <1>1, <1>2 DEF Idle
<1>4. \A v \in Workers \ {w} : job'[v] = job[v]
      BY <1>1, <1>2
<1> QED BY <1>3, <1>4 DEF Begin, b, c

\* A release changes the row of its owner only, and then straddles every claim.
LEMMA ReleaseEffect ==
  ASSUME TypeOK, NEW w \in Workers, Release(w)
  PROVE  /\ job'[w] = Idle /\ job[w].pc = "releasing"
         /\ lock' = lock /\ hist' = hist
         /\ \/ /\ row' = row
               /\ \A v \in Workers \ {w} : job'[v] = job[v]
            \/ /\ row.owner = w /\ row'.owner = NoOne /\ row'.lease = "free"
               /\ \A s \in Stages :
                    /\ row'.stage[s].status = row.stage[s].status
                    /\ row'.stage[s].attempts = row.stage[s].attempts
               /\ \A v \in Workers \ {w} :
                    /\ Kept(v)
                    /\ job[v].pc = "claiming" => job'[v].straddled
                    /\ job'[v].sawExpired <=> job[v].sawExpired
<1>1. /\ job'[w] = Idle /\ job[w].pc = "releasing"
      /\ lock' = lock /\ hist' = hist
      BY DEF Release
<1>2. CASE row.owner # w
  <2>1. row' = row /\ \A v \in Workers \ {w} : job'[v] = job[v]
        BY <1>2 DEF Release
  <2> QED BY <1>1, <2>1
<1>3. CASE row.owner = w
  <2> DEFINE m == [s \in Stages |-> [row.stage[s] EXCEPT !.marked = FALSE]]
  <2>1. row' = [row EXCEPT !.owner = NoOne, !.lease = "free", !.stage = m]
        BY <1>3 DEF Release
  <2>2. row \in Row
        BY DEF TypeOK
  <2>3. row'.owner = NoOne /\ row'.lease = "free" /\ row'.stage = m
    <3> HIDE DEF m
    <3> QED BY <2>1, <2>2 DEF Row
  <2>4. ASSUME NEW s \in Stages
        PROVE  /\ row'.stage[s].status = row.stage[s].status
               /\ row'.stage[s].attempts = row.stage[s].attempts
    <3>1. row'.stage[s] = [row.stage[s] EXCEPT !.marked = FALSE]
          BY <2>3
    <3>2. row.stage[s] \in Stage
          BY <2>2 DEF Row
    <3> QED BY <3>1, <3>2, MarkedFields
  <2>5. ASSUME NEW v \in Workers \ {w}
        PROVE  /\ Kept(v)
               /\ job[v].pc = "claiming" => job'[v].straddled
               /\ job'[v].sawExpired <=> job[v].sawExpired
    <3> DEFINE j == job[v]
               x == job'[v]
    <3>1. j \in Job
          BY DEF TypeOK
    <3>2. x = IF j.pc = "claiming" THEN [j EXCEPT !.straddled = TRUE] ELSE j
          BY <1>3 DEF Release, Claiming
    <3> HIDE DEF j, x
    <3>3. /\ x.pc = j.pc /\ x.stage = j.stage /\ x.work = j.work
          /\ x.ok <=> j.ok
          /\ x.called <=> j.called
          /\ x.progressed <=> j.progressed
          /\ j.pc = "claiming" => x.straddled
          /\ x.sawExpired <=> j.sawExpired
          BY <3>1, <3>2 DEF Job
    <3> QED BY <3>3 DEF Kept, j, x
  <2> QED BY <1>1, <1>3, <2>3, <2>4, <2>5
<1> QED BY <1>2, <1>3

\* The end of a publication: the status of a classification may change.
LEMMA PublishEndEffect ==
  ASSUME TypeOK, NEW w \in Workers, PublishEnd(w)
  PROVE  /\ row'.owner = row.owner /\ row'.lease = row.lease
         /\ \A s \in Stages :
              /\ row'.stage[s].attempts = row.stage[s].attempts
              /\ row'.stage[s].marked <=> row.stage[s].marked
              /\ \/ row'.stage[s].status = row.stage[s].status
                 \/ /\ s = job[w].stage /\ job[w].ok /\ row.lease = "live"
                    /\ row'.stage[s].status = "succeeded"
         /\ job'[w].pc = "finishing" /\ job'[w].stage = job[w].stage
         /\ job'[w].work = job[w].work
         /\ \A v \in Workers \ {w} : job'[v] = job[v]
<1> DEFINE u == job[w].stage
           t == [row.stage[u] EXCEPT !.status = "succeeded", !.wait = FALSE]
<1>1. u \in Stages /\ row \in Row /\ row.stage[u] \in Stage
      BY DEF TypeOK, Job, Row
<1>2. \/ row' = row
      \/ job[w].ok /\ row.lease = "live" /\ row' = [row EXCEPT !.stage[u] = t]
      BY DEF PublishEnd
<1>3. /\ t.status = "succeeded" /\ t.attempts = row.stage[u].attempts
      /\ t.marked <=> row.stage[u].marked
      BY <1>1 DEF Stage
<1> HIDE DEF u, t
<1>4. /\ row'.owner = row.owner /\ row'.lease = row.lease
      /\ \/ row' = row
         \/ /\ row'.stage[u] = t /\ \A s \in Stages \ {u} : row'.stage[s] = row.stage[s]
            /\ job[w].ok /\ row.lease = "live"
      BY <1>1, <1>2 DEF Row
<1>5. \A s \in Stages :
              /\ row'.stage[s].attempts = row.stage[s].attempts
              /\ row'.stage[s].marked <=> row.stage[s].marked
              /\ \/ row'.stage[s].status = row.stage[s].status
                 \/ /\ s = u /\ job[w].ok /\ row.lease = "live"
                    /\ row'.stage[s].status = "succeeded"
      BY <1>3, <1>4
<1>6. /\ job'[w].pc = "finishing" /\ job'[w].stage = job[w].stage
      /\ job'[w].work = job[w].work
      /\ \A v \in Workers \ {w} : job'[v] = job[v]
      BY DEF PublishEnd, Moved, TypeOK, Job
<1> QED BY <1>4, <1>5, <1>6 DEF u

\* Reopening a succeeded stage keeps everything but its status, and straddles
\* every claim.
LEMMA ReopenEffect ==
  ASSUME TypeOK, Requeue \/ Reopen
  PROVE  /\ lock = NoOne /\ lock' = lock /\ hist' = hist
         /\ row'.owner = row.owner /\ row'.lease = row.lease
         /\ \A s \in Stages :
              /\ row'.stage[s].attempts = row.stage[s].attempts
              /\ row'.stage[s].marked <=> row.stage[s].marked
              /\ \/ row'.stage[s].status = row.stage[s].status
                 \/ row.stage[s].status = "succeeded" /\ row'.stage[s].status = "pending"
         /\ \A v \in Workers :
              /\ Kept(v)
              /\ job'[v].sawExpired <=> job[v].sawExpired
              /\ job'[v].replaced <=> job[v].replaced
              /\ job[v].pc = "claiming" => job'[v].straddled
<1>1. PICK stages \in SUBSET Stages, early \in SUBSET Workers :
        /\ Outdated(stages)
        /\ job' = [v \in Workers |-> Crossed(v, stages, early)]
        /\ lock' = lock /\ hist' = hist
  <2>1. {"translation"} \in SUBSET Stages /\ {} \in SUBSET Workers
        BY DEF Stages
  <2> QED BY <2>1 DEF Requeue, Reopen
<1>2. /\ row'.owner = row.owner /\ row'.lease = row.lease
      /\ \A s \in Stages : row'.stage[s] =
           IF s \in stages THEN [row.stage[s] EXCEPT !.status = "pending"] ELSE row.stage[s]
      BY <1>1 DEF Outdated, Reopened, TypeOK, Row
<1>3. \A s \in stages : row.stage[s].status = "succeeded"
      BY <1>1 DEF Outdated
<1>4. ASSUME NEW s \in Stages
      PROVE  /\ row'.stage[s].attempts = row.stage[s].attempts
             /\ row'.stage[s].marked <=> row.stage[s].marked
             /\ \/ row'.stage[s].status = row.stage[s].status
                \/ row.stage[s].status = "succeeded" /\ row'.stage[s].status = "pending"
  <2>1. row.stage[s] \in Stage
        BY DEF TypeOK, Row
  <2> QED BY <1>2, <1>3, <2>1 DEF Stage
<1>5. ASSUME NEW v \in Workers
      PROVE  /\ Kept(v)
             /\ job'[v].sawExpired <=> job[v].sawExpired
             /\ job'[v].replaced <=> job[v].replaced
             /\ job[v].pc = "claiming" => job'[v].straddled
  <2> DEFINE S == IF v \in early THEN job[v].notYet \cup stages ELSE job[v].notYet
  <2>1. job[v] \in Job
        BY DEF TypeOK
  <2>2. job'[v] = IF Claiming(v) THEN [job[v] EXCEPT !.straddled = TRUE, !.notYet = S]
                                 ELSE job[v]
        BY <1>1, <2>1 DEF Crossed, Job
  <2> HIDE DEF S
  <2> QED BY <2>1, <2>2 DEF Job, Kept, Claiming
<1>6. lock = NoOne
      BY <1>1 DEF Outdated
<1> QED BY <1>1, <1>2, <1>4, <1>5, <1>6

\* The accounting of attempts and dispatches.
Accounts == PaidIsCounted /\ DispatchesBounded /\ StartIsCovered

\* What w has still to start, it had to start before.
StartsNoMore(w) ==
  row'.owner = w => /\ row.owner = w
                    /\ \A s \in Stages : row'.stage[s].marked => row.stage[s].marked
                    /\ Unstarted(w)' \subseteq Unstarted(w)

\* The counters are natural numbers.
LEMMA Numbers ==
  ASSUME TypeOK
  PROVE  /\ hist.straddles \in Nat
         /\ \A s \in Stages :
              /\ row.stage[s].attempts \in Nat
              /\ hist.paid[s] \in Nat /\ hist.credit[s] \in Nat
BY DEF TypeOK, Row, Stage, Hist

\* A step that counts nothing and claims nothing disturbs no account.
LEMMA QuietStep ==
  ASSUME Accounts,
         hist'.paid = hist.paid, hist'.credit = hist.credit,
         hist'.straddles = hist.straddles,
         \A s \in Stages : row'.stage[s].attempts = row.stage[s].attempts,
         \A v \in Workers : StartsNoMore(v)
  PROVE  Accounts'
<1>1. PaidIsCounted' /\ DispatchesBounded'
      BY DEF Accounts, PaidIsCounted, DispatchesBounded, Charged
<1>2. ASSUME NEW w \in Workers, row'.owner = w, NEW s \in Unstarted(w)',
             row'.stage[s].marked \/ row'.stage[s].attempts >= MaxAttempts
      PROVE  (Room(s, row.stage[s].attempts) /\ Room(s, MaxAttempts))'
  <2>1. s \in Stages /\ s \in Unstarted(w) /\ row.owner = w
        BY <1>2 DEF StartsNoMore, Unstarted
  <2>2. row.stage[s].marked \/ row.stage[s].attempts >= MaxAttempts
        BY <1>2, <2>1 DEF StartsNoMore
  <2>3. Room(s, row.stage[s].attempts) /\ Room(s, MaxAttempts)
        BY <2>1, <2>2 DEF Accounts, StartIsCovered
  <2> QED BY <2>1, <2>3 DEF Room
<1>3. StartIsCovered'
      BY <1>2 DEF StartIsCovered
<1> QED BY <1>1, <1>3 DEF Accounts

-----------------------------------------------------------------------------
(* The parts of the inductive invariant, step by step *)

\* The row lock stays with the process that publishes or claims.
LEMMA LockStep ==
  TypeOK /\ LockIsHeld /\ [Next]_vars => LockIsHeld'
<1> SUFFICES ASSUME TypeOK /\ LockIsHeld, [Next]_vars PROVE LockIsHeld'
    OBVIOUS
<1> USE ConstantsAssumption DEF LockIsHeld, Claiming
<1>1. ASSUME NEW w \in Workers, Begin(w) PROVE LockIsHeld'
      BY <1>1 DEF Begin, TypeOK, Job, Row, Moved, Unlocked, Idle
<1>2. ASSUME NEW w \in Workers, Claim(w) PROVE LockIsHeld'
  <2>1. lock' = (IF lock = w THEN NoOne ELSE lock)
        BY <1>2, ClaimOutcome
  <2>2. CASE ClaimGets(w)
    <3>1. /\ job'[w].pc = "working"
             /\ \A v \in Workers \ {w} : Kept(v)
          BY <2>2, ClaimGetsJobs
    <3> QED BY <2>1, <2>2, <3>1 DEF ClaimGets, Kept
  <2>3. CASE ClaimGetsNothing(w)
        BY <2>1, <2>3 DEF ClaimGetsNothing, TypeOK, Job, Idle
  <2> QED BY <1>2, <2>2, <2>3, ClaimOutcome
<1>3. ASSUME NEW w \in Workers, Start(w) PROVE LockIsHeld'
      BY <1>3 DEF Start, TypeOK, Job, Row, Moved, Unlocked, Idle
<1>4. ASSUME NEW w \in Workers, Refused(w) PROVE LockIsHeld'
      BY <1>4 DEF Refused, TypeOK, Job, Row, Moved, Unlocked, Idle
<1>5. ASSUME NEW w \in Workers, Answer(w) PROVE LockIsHeld'
      BY <1>5 DEF Answer, TypeOK, Job, Row, Moved, Unlocked, Idle
<1>6. ASSUME NEW w \in Workers, PublishBegin(w) PROVE LockIsHeld'
      BY <1>6
      DEF PublishBegin, TypeOK, Job, Row, Moved, Unlocked, Idle, Fenced, Holds,
          HeldNow
<1>7. ASSUME NEW w \in Workers, PublishEnd(w) PROVE LockIsHeld'
      BY <1>7 DEF PublishEnd, TypeOK, Job, Row, Moved, Unlocked, Idle
<1>8. ASSUME NEW w \in Workers, Finish(w) PROVE LockIsHeld'
  <2>1. /\ FinishRecords(w) \/ (row' = row /\ hist' = hist)
        /\ FinishGoesOn(w)
        /\ \A v \in Workers \ {w} : Kept(v)
        BY <1>8, FinishEffect
  <2>2. lock' = lock /\ lock = NoOne /\ job[w].pc = "finishing"
        BY <1>8 DEF Finish
  <2> QED BY <2>1, <2>2 DEF FinishRecords, FinishGoesOn, Kept
<1>9. ASSUME NEW w \in Workers, Release(w) PROVE LockIsHeld'
      BY <1>9 DEF Release, TypeOK, Job, Row, Moved, Unlocked, Idle
<1>10. ASSUME NEW w \in Workers, Abort(w) PROVE LockIsHeld'
      BY <1>10 DEF Abort, TypeOK, Job, Row, Moved, Unlocked, Idle
<1>11. ASSUME NEW w \in Workers, Die(w) PROVE LockIsHeld'
      BY <1>11 DEF Die, TypeOK, Job, Row, Moved, Unlocked, Idle
<1>12. CASE Expire
      BY <1>12 DEF Expire, TypeOK, Job, Row, Moved, Unlocked, Idle
<1>13. ASSUME NEW s \in Stages, RetryDue(s) PROVE LockIsHeld'
      BY <1>13 DEF RetryDue, TypeOK, Job, Row, Moved, Unlocked, Idle
<1>14. CASE UNCHANGED vars
      BY <1>14 DEF vars, TypeOK, Job, Row, Moved, Unlocked, Idle
<1>15. CASE Requeue \/ Reopen
      BY <1>15, ReopenEffect DEF Kept, TypeOK, Job, Row
<1> QED BY <1>1, <1>2, <1>3, <1>4, <1>5, <1>6, <1>7, <1>8, <1>9, <1>10, <1>11, <1>12, <1>13, <1>14,
           <1>15 DEF Next, RunStep

\* The run that publishes stays the owner: nobody can claim under its lock.
LEMMA OwnerStep ==
  TypeOK /\ LockIsHeld /\ OwnerIsCurrent /\ [Next]_vars => OwnerIsCurrent'
<1> SUFFICES ASSUME TypeOK /\ LockIsHeld /\ OwnerIsCurrent, [Next]_vars PROVE OwnerIsCurrent'
    OBVIOUS
<1> USE ConstantsAssumption DEF LockIsHeld, OwnerIsCurrent, Active, Claiming
<1>1. ASSUME NEW w \in Workers, Begin(w) PROVE OwnerIsCurrent'
      BY <1>1 DEF Begin, TypeOK, Stages, Job, Row, Moved, Unlocked, Idle
<1>2. ASSUME NEW w \in Workers, Claim(w) PROVE OwnerIsCurrent'
  <2>1. /\ lock' = (IF lock = w THEN NoOne ELSE lock)
        /\ job[w].pc = "claiming" /\ job[w] \in Job
        /\ row \in Row
        BY <1>2, ClaimOutcome DEF Claim, Claiming, TypeOK
  <2>2. \A s \in Stages :
           /\ row'.stage[s].attempts = row.stage[s].attempts
           /\ \/ row'.stage[s].status = row.stage[s].status
              \/ /\ Spent(row, s) /\ lock = w
                 /\ row'.stage[s].status = "failed"
        BY <1>2, ClaimKeepsStages
  <2>3. CASE ClaimGets(w)
    <3>1. /\ job'[w].pc = "working" /\ ~job'[w].replaced
             /\ \A v \in Workers \ {w} : Kept(v)
          BY <2>3, ClaimGetsJobs
    <3>2. hist' = hist \/ hist' = [hist EXCEPT !.straddles = @ + 1]
          BY <2>3 DEF ClaimGets
    <3>3. lock \in {NoOne, w} /\ row'.owner = w /\ row'.lease = "live"
          BY <2>3 DEF ClaimGets
    <3> QED BY <2>1, <2>2, <3>1, <3>2, <3>3 DEF Kept
  <2>4. CASE ClaimGetsNothing(w)
    <3>1. /\ row'.owner = row.owner /\ row'.lease = row.lease
          /\ hist' = hist
          /\ job'[w] = Idle
          /\ \A v \in Workers \ {w} : job'[v] = job[v]
          BY <2>4 DEF ClaimGetsNothing, TypeOK
    <3> QED BY <2>1, <2>2, <3>1 DEF Idle
  <2> QED BY <1>2, <2>3, <2>4, ClaimOutcome
<1>3. ASSUME NEW w \in Workers, Start(w) PROVE OwnerIsCurrent'
  <2>1. /\ job'[w].pc = "calling" /\ job'[w].stage = job[w].stage
        /\ job'[w].work = job[w].work
        /\ job'[w].ok <=> job[w].ok
        /\ job'[w].replaced <=> job[w].replaced
        /\ \A v \in Workers \ {w} : Kept(v) /\ (job'[v].replaced <=> job[v].replaced)
        /\ row'.owner = row.owner /\ row'.lease = row.lease /\ row.owner = w
        /\ \A s \in Stages : row'.stage[s].status = row.stage[s].status
        BY <1>3, StartEffect
  <2>2. /\ job[w].pc = "working" /\ lock' = lock /\ lock = NoOne
        /\ job[w].stage \in Stages
        BY <1>3 DEF Start, TypeOK, Job
  <2> QED BY <2>1, <2>2 DEF Kept
<1>4. ASSUME NEW w \in Workers, Refused(w) PROVE OwnerIsCurrent'
      BY <1>4 DEF Refused, TypeOK, Stages, Job, Row, Moved, Unlocked, Idle
<1>5. ASSUME NEW w \in Workers, Answer(w) PROVE OwnerIsCurrent'
      BY <1>5 DEF Answer, TypeOK, Stages, Job, Row, Moved, Unlocked, Idle
<1>6. ASSUME NEW w \in Workers, PublishBegin(w) PROVE OwnerIsCurrent'
  <2>1. /\ job'[w].pc = "committing" /\ job'[w].stage = job[w].stage
        /\ job'[w].work = job[w].work
        /\ job'[w].replaced <=> job[w].replaced
        /\ job'[w].ok => job[w].ok /\ row.owner = w
        /\ \A v \in Workers \ {w} : job'[v] = job[v]
        /\ lock' = w /\ lock = NoOne /\ row' = row /\ hist' = hist
        BY <1>6, PublishBeginEffect
  <2>2. job[w].pc = "publishing"
        BY <1>6 DEF PublishBegin
  <2> QED BY <2>1, <2>2 
<1>7. ASSUME NEW w \in Workers, PublishEnd(w) PROVE OwnerIsCurrent'
      BY <1>7 DEF PublishEnd, TypeOK, Stages, Job, Row, Moved, Unlocked, Idle
<1>8. ASSUME NEW w \in Workers, Finish(w) PROVE OwnerIsCurrent'
  <2>1. /\ FinishRecords(w) \/ (row' = row /\ hist' = hist)
        /\ FinishGoesOn(w)
        /\ \A v \in Workers \ {w} : Kept(v) /\ (job'[v].replaced <=> job[v].replaced)
        BY <1>8, FinishEffect
  <2>2. lock' = lock /\ lock = NoOne /\ job[w].pc = "finishing"
        BY <1>8 DEF Finish
  <2> QED BY <2>1, <2>2 DEF FinishRecords, FinishGoesOn, Kept
<1>9. ASSUME NEW w \in Workers, Release(w) PROVE OwnerIsCurrent'
      BY <1>9 DEF Release, TypeOK, Stages, Job, Row, Moved, Unlocked, Idle
<1>10. ASSUME NEW w \in Workers, Abort(w) PROVE OwnerIsCurrent'
      BY <1>10 DEF Abort, TypeOK, Stages, Job, Row, Moved, Unlocked, Idle
<1>11. ASSUME NEW w \in Workers, Die(w) PROVE OwnerIsCurrent'
      BY <1>11 DEF Die, TypeOK, Stages, Job, Row, Moved, Unlocked, Idle
<1>12. CASE Expire
      BY <1>12 DEF Expire, TypeOK, Stages, Job, Row, Moved, Unlocked, Idle
<1>13. ASSUME NEW s \in Stages, RetryDue(s) PROVE OwnerIsCurrent'
      BY <1>13 DEF RetryDue, TypeOK, Stages, Job, Row, Moved, Unlocked, Idle
<1>14. CASE UNCHANGED vars
      BY <1>14 DEF vars, TypeOK, Stages, Job, Row, Moved, Unlocked, Idle
<1>15. CASE Requeue \/ Reopen
      BY <1>15, ReopenEffect DEF Kept, TypeOK, Job, Row
<1> QED BY <1>1, <1>2, <1>3, <1>4, <1>5, <1>6, <1>7, <1>8, <1>9, <1>10, <1>11, <1>12, <1>13, <1>14,
           <1>15 DEF Next, RunStep

\* A stage succeeds only after its result was published.
LEMMA OutcomeStep ==
  TypeOK /\ OutcomeIsKnown /\ SucceededIsPublished /\ [Next]_vars => (OutcomeIsKnown /\ SucceededIsPublished)'
<1> SUFFICES ASSUME TypeOK /\ OutcomeIsKnown /\ SucceededIsPublished, [Next]_vars PROVE (OutcomeIsKnown /\ SucceededIsPublished)'
    OBVIOUS
<1> USE ConstantsAssumption DEF OutcomeIsKnown, SucceededIsPublished
<1>1. ASSUME NEW w \in Workers, Begin(w) PROVE (OutcomeIsKnown /\ SucceededIsPublished)'
      BY <1>1
      DEF Begin, TypeOK, Hist, Stages, Stage, Job, Row, Moved, Unlocked, Idle
<1>2. ASSUME NEW w \in Workers, Claim(w) PROVE (OutcomeIsKnown /\ SucceededIsPublished)'
  <2>1. /\ lock' = (IF lock = w THEN NoOne ELSE lock)
        /\ job[w].pc = "claiming" /\ job[w] \in Job
        /\ row \in Row
        BY <1>2, ClaimOutcome DEF Claim, Claiming, TypeOK
  <2>2. \A s \in Stages :
           /\ row'.stage[s].attempts = row.stage[s].attempts
           /\ \/ row'.stage[s].status = row.stage[s].status
              \/ /\ Spent(row, s) /\ lock = w
                 /\ row'.stage[s].status = "failed"
        BY <1>2, ClaimKeepsStages
  <2>3. CASE ClaimGets(w)
    <3>1. /\ job'[w].pc = "working" /\ ~job'[w].ok
             /\ \A v \in Workers \ {w} : Kept(v)
          BY <2>3, ClaimGetsJobs
    <3>2. hist' = hist \/ hist' = [hist EXCEPT !.straddles = @ + 1]
          BY <2>3 DEF ClaimGets
    <3>3. row'.owner = w /\ row'.lease = "live"
          BY <2>3 DEF ClaimGets
    <3> QED BY <2>1, <2>2, <3>1, <3>2, <3>3 DEF Kept, TypeOK, Hist
  <2>4. CASE ClaimGetsNothing(w)
    <3>1. /\ row'.owner = row.owner /\ row'.lease = row.lease
          /\ hist' = hist
          /\ job'[w] = Idle
          /\ \A v \in Workers \ {w} : job'[v] = job[v]
          BY <2>4 DEF ClaimGetsNothing, TypeOK
    <3> QED BY <2>1, <2>2, <3>1 DEF Idle
  <2> QED BY <1>2, <2>3, <2>4, ClaimOutcome
<1>3. ASSUME NEW w \in Workers, Start(w) PROVE (OutcomeIsKnown /\ SucceededIsPublished)'
  <2>1. /\ job'[w].pc = "calling" /\ job'[w].stage = job[w].stage
        /\ job'[w].work = job[w].work
        /\ job'[w].ok <=> job[w].ok
        /\ job'[w].replaced <=> job[w].replaced
        /\ \A v \in Workers \ {w} : Kept(v)
        /\ row'.owner = row.owner /\ row'.lease = row.lease /\ row.owner = w
        /\ \A s \in Stages : row'.stage[s].status = row.stage[s].status
        /\ hist' = [hist EXCEPT !.paid[job[w].stage] = @ + 1]
        BY <1>3, StartEffect
  <2>2. job[w].pc = "working" /\ lock' = lock /\ lock = NoOne
        BY <1>3 DEF Start
  <2> QED BY <2>1, <2>2 DEF Kept, TypeOK, Hist
<1>4. ASSUME NEW w \in Workers, Refused(w) PROVE (OutcomeIsKnown /\ SucceededIsPublished)'
      BY <1>4
      DEF Refused, TypeOK, Hist, Stages, Stage, Job, Row, Moved, Unlocked, Idle
<1>5. ASSUME NEW w \in Workers, Answer(w) PROVE (OutcomeIsKnown /\ SucceededIsPublished)'
      BY <1>5
      DEF Answer, TypeOK, Hist, Stages, Stage, Job, Row, Moved, Unlocked, Idle
<1>6. ASSUME NEW w \in Workers, PublishBegin(w) PROVE (OutcomeIsKnown /\ SucceededIsPublished)'
      BY <1>6
      DEF PublishBegin, TypeOK, Hist, Stages, Stage, Job, Row, Moved, Unlocked,
          Idle, Fenced, Holds, HeldNow
<1>7. ASSUME NEW w \in Workers, PublishEnd(w) PROVE (OutcomeIsKnown /\ SucceededIsPublished)'
      BY <1>7
      DEF PublishEnd, TypeOK, Hist, Stages, Stage, Job, Row, Moved, Unlocked,
          Idle
<1>8. ASSUME NEW w \in Workers, Finish(w) PROVE (OutcomeIsKnown /\ SucceededIsPublished)'
  <2>1. /\ FinishRecords(w) \/ (row' = row /\ hist' = hist)
        /\ FinishGoesOn(w)
        /\ \A v \in Workers \ {w} : Kept(v)
        BY <1>8, FinishEffect
  <2>2. lock' = lock /\ lock = NoOne /\ job[w].pc = "finishing"
        BY <1>8 DEF Finish
  <2> QED BY <2>1, <2>2 DEF FinishRecords, FinishGoesOn, Kept, TypeOK, Hist
<1>9. ASSUME NEW w \in Workers, Release(w) PROVE (OutcomeIsKnown /\ SucceededIsPublished)'
      BY <1>9
      DEF Release, TypeOK, Hist, Stages, Stage, Job, Row, Moved, Unlocked, Idle
<1>10. ASSUME NEW w \in Workers, Abort(w) PROVE (OutcomeIsKnown /\ SucceededIsPublished)'
      BY <1>10
      DEF Abort, TypeOK, Hist, Stages, Stage, Job, Row, Moved, Unlocked, Idle
<1>11. ASSUME NEW w \in Workers, Die(w) PROVE (OutcomeIsKnown /\ SucceededIsPublished)'
      BY <1>11
      DEF Die, TypeOK, Hist, Stages, Stage, Job, Row, Moved, Unlocked, Idle
<1>12. CASE Expire
      BY <1>12
      DEF Expire, TypeOK, Hist, Stages, Stage, Job, Row, Moved, Unlocked, Idle
<1>13. ASSUME NEW s \in Stages, RetryDue(s) PROVE (OutcomeIsKnown /\ SucceededIsPublished)'
      BY <1>13
      DEF RetryDue, TypeOK, Hist, Stages, Stage, Job, Row, Moved, Unlocked,
          Idle
<1>14. CASE UNCHANGED vars
      BY <1>14
      DEF vars, TypeOK, Hist, Stages, Stage, Job, Row, Moved, Unlocked, Idle
<1>15. CASE Requeue \/ Reopen
      BY <1>15, ReopenEffect DEF Kept, TypeOK, Job, Row
<1> QED BY <1>1, <1>2, <1>3, <1>4, <1>5, <1>6, <1>7, <1>8, <1>9, <1>10, <1>11, <1>12, <1>13, <1>14,
           <1>15 DEF Next, RunStep

\* What a live claim has still to publish stays pending.
LEMMA PendingStep ==
  TypeOK /\ LockIsHeld /\ OwnerIsCurrent /\ WorkIsPending /\ [Next]_vars => WorkIsPending'
<1> SUFFICES ASSUME TypeOK /\ LockIsHeld /\ OwnerIsCurrent /\ WorkIsPending, [Next]_vars PROVE WorkIsPending'
    OBVIOUS
<1> USE ConstantsAssumption DEF LockIsHeld, OwnerIsCurrent, WorkIsPending, Active, Claiming, Unstarted, Pending
<1>1. ASSUME NEW w \in Workers, Begin(w) PROVE WorkIsPending'
      BY <1>1 DEF Begin, TypeOK, Stages, Stage, Job, Row, Moved, Unlocked, Idle
<1>2. ASSUME NEW w \in Workers, Claim(w) PROVE WorkIsPending'
  <2>1. /\ lock' = (IF lock = w THEN NoOne ELSE lock)
        /\ job[w].pc = "claiming" /\ job[w] \in Job
        /\ row \in Row
        BY <1>2, ClaimOutcome DEF Claim, Claiming, TypeOK
  <2>2. \A s \in Stages :
           /\ row'.stage[s].attempts = row.stage[s].attempts
           /\ \/ row'.stage[s].status = row.stage[s].status
              \/ /\ Spent(row, s) /\ lock = w
                 /\ row'.stage[s].status = "failed"
        BY <1>2, ClaimKeepsStages
  <2>3. CASE ClaimGets(w)
    <3>1. /\ job'[w].pc = "working"
             /\ \A v \in Workers \ {w} : Kept(v)
          BY <2>3, ClaimGetsJobs
    <3>2. hist' = hist \/ hist' = [hist EXCEPT !.straddles = @ + 1]
          BY <2>3 DEF ClaimGets
    <3>3. /\ row'.owner = w /\ row'.lease = "live"
          /\ job'[w].stage \in job'[w].work
          /\ \A s \in job'[w].work : Pending(row', s)
          BY <2>3 DEF ClaimGets
    <3> QED BY <2>1, <2>2, <3>1, <3>2, <3>3 DEF Kept
  <2>4. CASE ClaimGetsNothing(w)
    <3>1. /\ row'.owner = row.owner /\ row'.lease = row.lease
          /\ hist' = hist
          /\ job'[w] = Idle
          /\ \A v \in Workers \ {w} : job'[v] = job[v]
          BY <2>4 DEF ClaimGetsNothing, TypeOK
    <3>2. row'.lease = "live" =>
            \A s \in Stages : row'.stage[s].status = row.stage[s].status
          BY <2>1, <2>2, <3>1
    <3>3. \A v \in Workers : job[v].stage \in Stages
          BY DEF TypeOK, Job
    <3> QED BY <3>1, <3>2, <3>3 DEF Idle
  <2> QED BY <1>2, <2>3, <2>4, ClaimOutcome
<1>3. ASSUME NEW w \in Workers, Start(w) PROVE WorkIsPending'
  <2>1. /\ job'[w].pc = "calling" /\ job'[w].stage = job[w].stage
        /\ job'[w].work = job[w].work
        /\ job'[w].ok <=> job[w].ok
        /\ job'[w].replaced <=> job[w].replaced
        /\ \A v \in Workers \ {w} : Kept(v)
        /\ row'.owner = row.owner /\ row'.lease = row.lease /\ row.owner = w
        /\ \A s \in Stages : row'.stage[s].status = row.stage[s].status
        BY <1>3, StartEffect
  <2>2. /\ job[w].pc = "working" /\ lock' = lock /\ lock = NoOne
        /\ job[w].stage \in Stages
        BY <1>3 DEF Start, TypeOK, Job
  <2> QED BY <2>1, <2>2 DEF Kept
<1>4. ASSUME NEW w \in Workers, Refused(w) PROVE WorkIsPending'
      BY <1>4
      DEF Refused, TypeOK, Stages, Stage, Job, Row, Moved, Unlocked, Idle
<1>5. ASSUME NEW w \in Workers, Answer(w) PROVE WorkIsPending'
      BY <1>5 DEF Answer, TypeOK, Stages, Stage, Job, Row, Moved, Unlocked, Idle
<1>6. ASSUME NEW w \in Workers, PublishBegin(w) PROVE WorkIsPending'
  <2>1. /\ job'[w].pc = "committing" /\ job'[w].stage = job[w].stage
        /\ job'[w].work = job[w].work
        /\ job'[w].replaced <=> job[w].replaced
        /\ job'[w].ok => job[w].ok /\ row.owner = w
        /\ \A v \in Workers \ {w} : job'[v] = job[v]
        /\ lock' = w /\ lock = NoOne /\ row' = row /\ hist' = hist
        BY <1>6, PublishBeginEffect
  <2>2. job[w].pc = "publishing"
        BY <1>6 DEF PublishBegin
  <2> QED BY <2>1, <2>2 
<1>7. ASSUME NEW w \in Workers, PublishEnd(w) PROVE WorkIsPending'
      BY <1>7
      DEF PublishEnd, TypeOK, Stages, Stage, Job, Row, Moved, Unlocked, Idle
<1>8. ASSUME NEW w \in Workers, Finish(w) PROVE WorkIsPending'
  <2>1. /\ FinishRecords(w) \/ (row' = row /\ hist' = hist)
        /\ FinishGoesOn(w)
        /\ \A v \in Workers \ {w} : Kept(v)
        BY <1>8, FinishEffect
  <2>2. lock' = lock /\ lock = NoOne /\ job[w].pc = "finishing"
        BY <1>8 DEF Finish
  <2> QED BY <2>1, <2>2 DEF FinishRecords, FinishGoesOn, Kept, Stages, Job, TypeOK
<1>9. ASSUME NEW w \in Workers, Release(w) PROVE WorkIsPending'
      BY <1>9
      DEF Release, TypeOK, Stages, Stage, Job, Row, Moved, Unlocked, Idle
<1>10. ASSUME NEW w \in Workers, Abort(w) PROVE WorkIsPending'
      BY <1>10 DEF Abort, TypeOK, Stages, Stage, Job, Row, Moved, Unlocked, Idle
<1>11. ASSUME NEW w \in Workers, Die(w) PROVE WorkIsPending'
      BY <1>11 DEF Die, TypeOK, Stages, Stage, Job, Row, Moved, Unlocked, Idle
<1>12. CASE Expire
      BY <1>12
      DEF Expire, TypeOK, Stages, Stage, Job, Row, Moved, Unlocked, Idle
<1>13. ASSUME NEW s \in Stages, RetryDue(s) PROVE WorkIsPending'
      BY <1>13
      DEF RetryDue, TypeOK, Stages, Stage, Job, Row, Moved, Unlocked, Idle
<1>14. CASE UNCHANGED vars
      BY <1>14 DEF vars, TypeOK, Stages, Stage, Job, Row, Moved, Unlocked, Idle
<1>15. CASE Requeue \/ Reopen
      BY <1>15, ReopenEffect DEF Kept, TypeOK, Job, Row
<1> QED BY <1>1, <1>2, <1>3, <1>4, <1>5, <1>6, <1>7, <1>8, <1>9, <1>10, <1>11, <1>12, <1>13, <1>14,
           <1>15 DEF Next, RunStep

\* A stage fails for good only after as many dispatches as the limit.
LEMMA PaidStep ==
  TypeOK /\ AttemptsArePaid /\ FailedWasTried /\ [Next]_vars => (AttemptsArePaid /\ FailedWasTried)'
<1> SUFFICES ASSUME TypeOK /\ AttemptsArePaid /\ FailedWasTried, [Next]_vars PROVE (AttemptsArePaid /\ FailedWasTried)'
    OBVIOUS
<1> USE ConstantsAssumption DEF AttemptsArePaid, FailedWasTried
<1>1. ASSUME NEW w \in Workers, Begin(w) PROVE (AttemptsArePaid /\ FailedWasTried)'
      BY <1>1
      DEF Begin, TypeOK, Hist, Pending, Stages, Stage, Job, Row, Moved,
          Unlocked, Idle
<1>2. ASSUME NEW w \in Workers, Claim(w) PROVE (AttemptsArePaid /\ FailedWasTried)'
  <2>1. \A s \in Stages : /\ row'.stage[s].attempts = row.stage[s].attempts
                          /\ \/ row'.stage[s].status = row.stage[s].status
                             \/ row.stage[s].attempts >= MaxAttempts
        BY <1>2, ClaimKeepsStages DEF Spent
  <2>2. hist' = hist \/ hist' = [hist EXCEPT !.straddles = @ + 1]
        BY <1>2, ClaimOutcome DEF ClaimGets, ClaimGetsNothing
  <2>3. hist'.paid = hist.paid
        BY <2>2 DEF TypeOK, Hist
  <2>4. \A s \in Stages : row.stage[s].attempts \in Nat /\ hist.paid[s] \in Nat
        BY DEF TypeOK, Hist, Row, Stage
  <2> QED BY <2>1, <2>3, <2>4
<1>3. ASSUME NEW w \in Workers, Start(w) PROVE (AttemptsArePaid /\ FailedWasTried)'
  <2> DEFINE u == job[w].stage
  <2>1. u \in Stages
        BY DEF TypeOK, Job
  <2>2. /\ \A s \in Stages : row'.stage[s].status = row.stage[s].status
        /\ \A s \in Stages \ {u} : row'.stage[s] = row.stage[s]
        /\ \/ row' = row
           \/ row'.stage[u].attempts = row.stage[u].attempts + 1
        /\ hist' = [hist EXCEPT !.paid[u] = @ + 1]
        BY <1>3, StartEffect
  <2>3. \A s \in Stages : row.stage[s].attempts \in Nat /\ hist.paid[s] \in Nat
        BY DEF TypeOK, Hist, Row, Stage
  <2> HIDE DEF u
  <2>4. /\ hist'.paid[u] = hist.paid[u] + 1
        /\ \A s \in Stages \ {u} : hist'.paid[s] = hist.paid[s]
        BY <2>1, <2>2 DEF TypeOK, Hist
  <2> QED BY <2>1, <2>2, <2>3, <2>4
<1>4. ASSUME NEW w \in Workers, Refused(w) PROVE (AttemptsArePaid /\ FailedWasTried)'
      BY <1>4
      DEF Refused, TypeOK, Hist, Pending, Stages, Stage, Job, Row, Moved,
          Unlocked, Idle
<1>5. ASSUME NEW w \in Workers, Answer(w) PROVE (AttemptsArePaid /\ FailedWasTried)'
      BY <1>5
      DEF Answer, TypeOK, Hist, Pending, Stages, Stage, Job, Row, Moved,
          Unlocked, Idle
<1>6. ASSUME NEW w \in Workers, PublishBegin(w) PROVE (AttemptsArePaid /\ FailedWasTried)'
  <2>1. /\ job'[w].pc = "committing" /\ job'[w].stage = job[w].stage
        /\ job'[w].work = job[w].work
        /\ job'[w].replaced <=> job[w].replaced
        /\ job'[w].ok => job[w].ok /\ row.owner = w
        /\ \A v \in Workers \ {w} : job'[v] = job[v]
        /\ lock' = w /\ lock = NoOne /\ row' = row /\ hist' = hist
        BY <1>6, PublishBeginEffect
  <2>2. job[w].pc = "publishing"
        BY <1>6 DEF PublishBegin
  <2> QED BY <2>1, <2>2 
<1>7. ASSUME NEW w \in Workers, PublishEnd(w) PROVE (AttemptsArePaid /\ FailedWasTried)'
      BY <1>7
      DEF PublishEnd, TypeOK, Hist, Pending, Stages, Stage, Job, Row, Moved,
          Unlocked, Idle
<1>8. ASSUME NEW w \in Workers, Finish(w) PROVE (AttemptsArePaid /\ FailedWasTried)'
  <2> DEFINE u == job[w].stage
  <2>1. u \in Stages
        BY DEF TypeOK, Job
  <2>2. \A s \in Stages : row.stage[s].attempts \in Nat /\ hist.paid[s] \in Nat
        BY DEF TypeOK, Hist, Row, Stage
  <2>3. Attempts(w) <= row.stage[u].attempts /\ Attempts(w) \in Nat
        BY <2>1, <2>2 DEF Attempts
  <2>4. CASE row' = row /\ hist' = hist
        BY <2>4
  <2>5. CASE FinishRecords(w)
    <3>1. hist' = hist \/ hist' = [hist EXCEPT !.credit[u] = @ + 1]
          BY <2>5 DEF FinishRecords
    <3> HIDE DEF u
    <3>2. hist'.paid = hist.paid
          BY <3>1 DEF TypeOK, Hist
    <3>3. /\ row'.stage[u].attempts = Attempts(w)
          /\ row'.stage[u].status = "failed" => Attempts(w) >= MaxAttempts
          /\ \A s \in Stages \ {u} : row'.stage[s] = row.stage[s]
          BY <2>5 DEF FinishRecords, u
    <3> QED BY <2>1, <2>2, <2>3, <3>2, <3>3
  <2> QED BY <1>8, <2>4, <2>5, FinishEffect
<1>9. ASSUME NEW w \in Workers, Release(w) PROVE (AttemptsArePaid /\ FailedWasTried)'
      BY <1>9
      DEF Release, TypeOK, Hist, Pending, Stages, Stage, Job, Row, Moved,
          Unlocked, Idle
<1>10. ASSUME NEW w \in Workers, Abort(w) PROVE (AttemptsArePaid /\ FailedWasTried)'
      BY <1>10
      DEF Abort, TypeOK, Hist, Pending, Stages, Stage, Job, Row, Moved,
          Unlocked, Idle
<1>11. ASSUME NEW w \in Workers, Die(w) PROVE (AttemptsArePaid /\ FailedWasTried)'
      BY <1>11
      DEF Die, TypeOK, Hist, Pending, Stages, Stage, Job, Row, Moved, Unlocked,
          Idle
<1>12. CASE Expire
      BY <1>12
      DEF Expire, TypeOK, Hist, Pending, Stages, Stage, Job, Row, Moved,
          Unlocked, Idle
<1>13. ASSUME NEW s \in Stages, RetryDue(s) PROVE (AttemptsArePaid /\ FailedWasTried)'
      BY <1>13
      DEF RetryDue, TypeOK, Hist, Pending, Stages, Stage, Job, Row, Moved,
          Unlocked, Idle
<1>14. CASE UNCHANGED vars
      BY <1>14
      DEF vars, TypeOK, Hist, Pending, Stages, Stage, Job, Row, Moved, Unlocked,
          Idle
<1>15. CASE Requeue \/ Reopen
      BY <1>15, ReopenEffect DEF Kept, TypeOK, Job, Row
<1> QED BY <1>1, <1>2, <1>3, <1>4, <1>5, <1>6, <1>7, <1>8, <1>9, <1>10, <1>11, <1>12, <1>13, <1>14,
           <1>15 DEF Next, RunStep

\* A claim whose statements straddle nothing never gets a spent stage.
LEMMA CleanStep ==
  TypeOK /\ LockIsHeld /\ SawExpiredIsStale /\ ClaimIsClean /\ [Next]_vars => (SawExpiredIsStale /\ ClaimIsClean)'
<1> SUFFICES ASSUME TypeOK /\ LockIsHeld /\ SawExpiredIsStale /\ ClaimIsClean, [Next]_vars PROVE (SawExpiredIsStale /\ ClaimIsClean)'
    OBVIOUS
<1> USE ConstantsAssumption DEF SawExpiredIsStale, ClaimIsClean, Claiming, Available, Pending
<1>1. ASSUME NEW w \in Workers, Begin(w) PROVE (SawExpiredIsStale /\ ClaimIsClean)'
  <2> DEFINE spent == row.lease # "live" /\ \E s \in Stages : Spent(row, s)
  <2>1. /\ job[w].pc = "idle" /\ job'[w].pc = "claiming"
        /\ job'[w].sawExpired <=> row.lease = "expired"
        /\ job'[w].straddled <=> spent /\ lock # NoOne
        /\ job'[w].started = {}
        /\ lock' = IF spent /\ lock = NoOne THEN w ELSE lock
        /\ \A v \in Workers \ {w} : job'[v] = job[v]
        /\ row' = row
        BY <1>1, BeginEffect
  <2>2. row.lease \in {"free", "live", "expired"}
        BY DEF TypeOK, Row
  <2>3. \A s \in Stages : row.stage[s].attempts \in Nat
        BY DEF TypeOK, Row, Stage
  <2>4. SawExpiredIsStale'
        BY <2>1
  <2>5. ASSUME ~spent
        PROVE  Available(w)' => \A s \in Stages : Pending(row', s) =>
                                   row'.stage[s].attempts < MaxAttempts
        BY <2>1, <2>2, <2>3, <2>5 DEF Spent
  <2>6. ASSUME NEW v \in Workers, v # w,
               (Claiming(v) /\ ~job[v].straddled)'
        PROVE  /\ job'[v].started = {}
               /\ lock' # v /\ Available(v)' =>
                    \A s \in Stages : Pending(row', s) /\ s \notin job'[v].notYet =>
                                          row'.stage[s].attempts < MaxAttempts
        BY <2>1, <2>6
  <2>7. ASSUME (Claiming(w) /\ ~job[w].straddled)'
        PROVE  /\ job'[w].started = {}
               /\ lock' # w /\ Available(w)' =>
                    \A s \in Stages : Pending(row', s) /\ s \notin job'[w].notYet =>
                                          row'.stage[s].attempts < MaxAttempts
        BY <2>1, <2>5, <2>7
  <2> QED BY <2>4, <2>6, <2>7
<1>2. ASSUME NEW w \in Workers, Claim(w) PROVE (SawExpiredIsStale /\ ClaimIsClean)'
  <2>1. /\ lock' = (IF lock = w THEN NoOne ELSE lock)
        /\ job[w].pc = "claiming"
        BY <1>2, ClaimOutcome DEF Claim
  <2>2. \A s \in Stages : /\ row'.stage[s].attempts = row.stage[s].attempts
                          /\ Pending(row', s) => Pending(row, s)
        BY <1>2, ClaimKeepsStages
  <2>3. CASE ClaimGets(w)
    <3>1. /\ job'[w].pc = "working"
          /\ \A v \in Workers \ {w} :
               /\ Kept(v) /\ ~job'[v].sawExpired
               /\ job'[v].straddled <=> job[v].straddled
               /\ job'[v].started = job[v].started
          BY <2>3, ClaimGetsJobs
    <3>2. row'.lease = "live"
          BY <2>3 DEF ClaimGets
    <3> QED BY <3>1, <3>2 DEF Kept
  <2>4. CASE ClaimGetsNothing(w)
    <3>1. /\ row'.owner = row.owner /\ row'.lease = row.lease
          /\ job'[w].pc = "idle"
          /\ \A v \in Workers \ {w} : job'[v] = job[v]
          BY <2>4 DEF ClaimGetsNothing, TypeOK, Idle
    <3>2. SawExpiredIsStale'
          BY <3>1
    <3>3. ASSUME NEW v \in Workers, (Claiming(v) /\ ~job[v].straddled)'
          PROVE  /\ job'[v].started = {}
                 /\ lock' # v /\ Available(v)' =>
                    \A s \in Stages : Pending(row', s) /\ s \notin job'[v].notYet =>
                                          row'.stage[s].attempts < MaxAttempts
      <4>1. v # w /\ job'[v] = job[v] /\ Claiming(v) /\ ~job[v].straddled
            BY <3>1, <3>3
      <4>2. Available(v)' => Available(v)
            BY <3>1, <4>1
      <4>3. lock' # v => lock # v
            BY <2>1, <4>1
      <4> QED BY <2>2, <4>1, <4>2, <4>3
    <3> QED BY <3>2, <3>3
  <2> QED BY <1>2, <2>3, <2>4, ClaimOutcome
<1>3. ASSUME NEW w \in Workers, Start(w) PROVE (SawExpiredIsStale /\ ClaimIsClean)'
  <2>1. /\ job'[w].pc = "calling"
        /\ \A v \in Workers \ {w} :
             /\ Kept(v)
             /\ job'[v].sawExpired <=> job[v].sawExpired
             /\ job[v].pc = "claiming" => job'[v].straddled
        /\ row'.lease = row.lease
        BY <1>3, StartEffect
  <2> QED BY <2>1 DEF Kept
<1>4. ASSUME NEW w \in Workers, Refused(w) PROVE (SawExpiredIsStale /\ ClaimIsClean)'
      BY <1>4
      DEF Refused, TypeOK, Stages, Stage, Job, Row, Moved, Unlocked, Idle
<1>5. ASSUME NEW w \in Workers, Answer(w) PROVE (SawExpiredIsStale /\ ClaimIsClean)'
      BY <1>5 DEF Answer, TypeOK, Stages, Stage, Job, Row, Moved, Unlocked, Idle
<1>6. ASSUME NEW w \in Workers, PublishBegin(w) PROVE (SawExpiredIsStale /\ ClaimIsClean)'
  <2>1. /\ job'[w].pc = "committing" /\ job'[w].stage = job[w].stage
        /\ job'[w].work = job[w].work
        /\ job'[w].replaced <=> job[w].replaced
        /\ job'[w].ok => job[w].ok /\ row.owner = w
        /\ \A v \in Workers \ {w} : job'[v] = job[v]
        /\ lock' = w /\ lock = NoOne /\ row' = row /\ hist' = hist
        BY <1>6, PublishBeginEffect
  <2>2. job[w].pc = "publishing"
        BY <1>6 DEF PublishBegin
  <2> QED BY <2>1, <2>2 
<1>7. ASSUME NEW w \in Workers, PublishEnd(w) PROVE (SawExpiredIsStale /\ ClaimIsClean)'
  <2>1. /\ row'.lease = row.lease
        /\ \A s \in Stages :
             /\ row'.stage[s].attempts = row.stage[s].attempts
             /\ \/ row'.stage[s].status = row.stage[s].status
                \/ row'.stage[s].status = "succeeded"
        /\ job'[w].pc = "finishing"
        /\ \A v \in Workers \ {w} : job'[v] = job[v]
        BY <1>7, PublishEndEffect
  <2>2. lock = w
        BY <1>7 DEF PublishEnd, LockIsHeld
  <2> QED BY <2>1, <2>2
<1>8. ASSUME NEW w \in Workers, Finish(w) PROVE (SawExpiredIsStale /\ ClaimIsClean)'
  <2> DEFINE u == job[w].stage
  <2>1. /\ FinishRecords(w) \/ row' = row
        /\ job'[w].pc \in {"working", "releasing"}
        /\ \A v \in Workers \ {w} :
             /\ Kept(v)
             /\ job'[v].sawExpired <=> job[v].sawExpired
             /\ job'[v].straddled <=> job[v].straddled
             /\ job'[v].started = job[v].started
             /\ job[v].notYet \subseteq job'[v].notYet
        BY <1>8, FinishEffect DEF FinishGoesOn
  <2>2. lock' = lock
        BY <1>8 DEF Finish
  <2>3. row'.lease = row.lease
        BY <2>1 DEF FinishRecords
  <2>4. /\ \A s \in Stages \ {u} : row'.stage[s] = row.stage[s]
        /\ row' = row \/ \A v \in Workers \ {w} : Claiming(v) => u \in job'[v].notYet
        BY <2>1 DEF FinishRecords
  <2>5. SawExpiredIsStale'
        BY <2>1, <2>3 DEF Kept
  <2>6. ASSUME NEW v \in Workers, (Claiming(v) /\ ~job[v].straddled)'
        PROVE  /\ job'[v].started = {}
               /\ lock' # v /\ Available(v)' =>
                    \A s \in Stages : Pending(row', s) /\ s \notin job'[v].notYet =>
                                          row'.stage[s].attempts < MaxAttempts
    <3>1. v # w /\ Claiming(v) /\ ~job[v].straddled
          BY <2>1, <2>6 DEF Kept
    <3>2. Available(v)' => Available(v)
          BY <2>1, <2>3, <3>1
    <3>3. job[v].started = {} /\ job'[v].started = job[v].started
          BY <2>1, <3>1
    <3>4. job[v].notYet \subseteq job'[v].notYet
          BY <2>1, <3>1
    <3>5. lock # v /\ Available(v) =>
             \A s \in Stages : Pending(row, s) /\ s \notin job[v].notYet =>
                                   row.stage[s].attempts < MaxAttempts
          BY <3>1
    <3> HIDE DEF u
    <3>6. row' = row \/ u \in job'[v].notYet
          BY <2>4, <3>1
    <3> QED BY <2>2, <2>4, <3>2, <3>3, <3>4, <3>5, <3>6
  <2> QED BY <2>5, <2>6
<1>9. ASSUME NEW w \in Workers, Release(w) PROVE (SawExpiredIsStale /\ ClaimIsClean)'
  <2>1. /\ job'[w].pc = "idle" /\ lock' = lock
        /\ \/ row' = row /\ \A v \in Workers \ {w} : job'[v] = job[v]
           \/ /\ row'.lease = "free"
              /\ \A v \in Workers \ {w} :
                   /\ Kept(v)
                   /\ job[v].pc = "claiming" => job'[v].straddled
        BY <1>9, ReleaseEffect DEF Idle
  <2> QED BY <2>1 DEF Kept
<1>10. ASSUME NEW w \in Workers, Abort(w) PROVE (SawExpiredIsStale /\ ClaimIsClean)'
      BY <1>10 DEF Abort, TypeOK, Stages, Stage, Job, Row, Moved, Unlocked, Idle
<1>11. ASSUME NEW w \in Workers, Die(w) PROVE (SawExpiredIsStale /\ ClaimIsClean)'
      BY <1>11 DEF Die, TypeOK, Stages, Stage, Job, Row, Moved, Unlocked, Idle
<1>12. CASE Expire
      BY <1>12
      DEF Expire, TypeOK, Stages, Stage, Job, Row, Moved, Unlocked, Idle
<1>13. ASSUME NEW s \in Stages, RetryDue(s) PROVE (SawExpiredIsStale /\ ClaimIsClean)'
      BY <1>13
      DEF RetryDue, TypeOK, Stages, Stage, Job, Row, Moved, Unlocked, Idle
<1>14. CASE UNCHANGED vars
      BY <1>14 DEF vars, TypeOK, Stages, Stage, Job, Row, Moved, Unlocked, Idle
<1>15. CASE Requeue \/ Reopen
      BY <1>15, ReopenEffect DEF Kept, TypeOK, Job, Row
<1> QED BY <1>1, <1>2, <1>3, <1>4, <1>5, <1>6, <1>7, <1>8, <1>9, <1>10, <1>11, <1>12, <1>13, <1>14,
           <1>15 DEF Next, RunStep

\* Every dispatch beyond the limit is excused by a credit or a straddle.
LEMMA AccountsStep ==
  TypeOK /\ ClaimIsClean /\ Accounts /\ [Next]_vars => Accounts'
<1> SUFFICES ASSUME TypeOK /\ ClaimIsClean /\ Accounts, [Next]_vars PROVE Accounts'
    OBVIOUS
<1> USE DEF TypeOK
<1>1. ASSUME NEW w \in Workers, Begin(w) PROVE Accounts'
  <2>1. /\ job'[w].pc = "claiming" /\ row' = row /\ hist' = hist
        /\ \A v \in Workers \ {w} : job'[v] = job[v]
        BY <1>1, BeginEffect
  <2>2. \A v \in Workers : StartsNoMore(v)
        BY <2>1 DEF StartsNoMore, Unstarted, Active
  <2> QED BY <2>1, <2>2, QuietStep
<1>2. ASSUME NEW w \in Workers, Claim(w) PROVE Accounts'
  <2>1. \A s \in Stages : row'.stage[s].attempts = row.stage[s].attempts
        BY <1>2, ClaimKeepsStages
  <2>2. CASE ClaimGetsNothing(w)
    <3>1. /\ row'.owner = row.owner
          /\ \A s \in Stages : row'.stage[s].marked <=> row.stage[s].marked
          /\ job'[w].pc = "idle" /\ hist' = hist
          /\ \A v \in Workers \ {w} : job'[v] = job[v]
          BY <2>2 DEF ClaimGetsNothing, TypeOK, Idle
    <3>2. \A v \in Workers : StartsNoMore(v)
          BY <3>1 DEF StartsNoMore, Unstarted, Active
    <3> QED BY <2>1, <3>1, <3>2, QuietStep
  <2>3. CASE ClaimGets(w)
    <3>1. hist' = hist \/ hist' = [hist EXCEPT !.straddles = @ + 1]
          BY <2>3 DEF ClaimGets
    <3>2. /\ hist'.paid = hist.paid /\ hist'.credit = hist.credit
          /\ hist'.straddles \in {hist.straddles, hist.straddles + 1}
          BY <3>1 DEF TypeOK, Hist
    <3>3. PaidIsCounted' /\ DispatchesBounded'
          BY <2>1, <3>2, Numbers, ConstantsAssumption
          DEF Accounts, PaidIsCounted, DispatchesBounded, Charged
    <3>4. ASSUME NEW v \in Workers, row'.owner = v, NEW s \in Unstarted(v)',
                 row'.stage[s].marked \/ row'.stage[s].attempts >= MaxAttempts
          PROVE  (Room(s, row.stage[s].attempts) /\ Room(s, MaxAttempts))'
      <4>1. v = w /\ s \in Stages /\ s \in job'[w].work
            BY <2>3, <3>4 DEF ClaimGets, Unstarted
      <4>2. /\ lock \in {NoOne, w} /\ Available(w)
            /\ row'.stage[s].marked <=> s \in job[w].started
            /\ Pending(row, s) /\ s \notin job[w].notYet
            /\ lock = w => row.stage[s].attempts < MaxAttempts
            /\ job[w].straddled /\ (row.stage[s].attempts >= MaxAttempts \/ s \in job[w].started)
                 => hist' = [hist EXCEPT !.straddles = @ + 1]
            BY <2>3, <4>1 DEF ClaimGets
      <4>3. Claiming(w)
            BY <1>2 DEF Claim
      <4>4. CASE job[w].straddled
        <5>1. hist' = [hist EXCEPT !.straddles = @ + 1]
              BY <2>1, <3>4, <4>1, <4>2, <4>4
        <5>2. hist'.straddles = hist.straddles + 1
              BY <5>1 DEF TypeOK, Hist
        <5> QED BY <2>1, <3>2, <4>1, <5>2, Numbers, ConstantsAssumption
                DEF Accounts, PaidIsCounted, DispatchesBounded, Charged, Room
      <4>5. CASE ~job[w].straddled
        <5>1. row.stage[s].attempts < MaxAttempts /\ s \notin job[w].started
              BY <4>1, <4>2, <4>3, <4>5 DEF ClaimIsClean
        <5> QED BY <2>1, <3>4, <4>1, <4>2, <5>1, Numbers, ConstantsAssumption
      <4> QED BY <4>4, <4>5
    <3> QED BY <3>3, <3>4 DEF Accounts, StartIsCovered
  <2> QED BY <1>2, <2>2, <2>3, ClaimOutcome
<1>3. ASSUME NEW w \in Workers, Start(w) PROVE Accounts'
  <2> DEFINE u == job[w].stage
  <2>1. u \in Stages
        BY DEF TypeOK, Job
  <2>2. /\ job'[w].pc = "calling" /\ job'[w].stage = u /\ job'[w].work = job[w].work
        /\ row'.owner = row.owner /\ row.owner = w
        /\ \A s \in Stages \ {u} : row'.stage[s] = row.stage[s]
        /\ \/ /\ row.stage[u].marked
              /\ row' = row
           \/ row'.stage[u].attempts = row.stage[u].attempts + 1
        /\ hist' = [hist EXCEPT !.paid[u] = @ + 1]
        BY <1>3, StartEffect
  <2>3. job[w].pc = "working"
        BY <1>3 DEF Start
  <2>4. u \in Unstarted(w) /\ Unstarted(w)' \subseteq Unstarted(w) \ {u}
    <3>1. u \in Unstarted(w)
          BY <2>1, <2>3 DEF Unstarted
    <3>2. Unstarted(w)' \subseteq Unstarted(w)
          BY <2>2, <2>3 DEF Unstarted, Active
    <3>3. u \notin Unstarted(w)'
          BY <2>2 DEF Unstarted, Active
    <3> QED BY <3>1, <3>2, <3>3
  <2>5. row.stage[u].marked \/ row.stage[u].attempts >= MaxAttempts =>
          Room(u, row.stage[u].attempts) /\ Room(u, MaxAttempts)
        BY <2>2, <2>4 DEF Accounts, StartIsCovered
  <2> HIDE DEF u
  <2>6. /\ hist'.paid[u] = hist.paid[u] + 1
        /\ \A s \in Stages \ {u} : hist'.paid[s] = hist.paid[s]
        /\ hist'.credit = hist.credit /\ hist'.straddles = hist.straddles
        BY <2>1, <2>2 DEF TypeOK, Hist
  <2>7. PaidIsCounted'
        BY <2>1, <2>2, <2>5, <2>6, Numbers
        DEF Accounts, PaidIsCounted, Charged, Room
  <2>8. DispatchesBounded'
    <3>1. hist.paid[u] < MaxAttempts + hist.credit[u] + hist.straddles
      <4>1. CASE row.stage[u].attempts >= MaxAttempts
            BY <2>5, <4>1 DEF Room
      <4>2. CASE row.stage[u].attempts < MaxAttempts
            BY <2>1, <4>2, Numbers, ConstantsAssumption
            DEF Accounts, PaidIsCounted, Charged
      <4> QED BY <2>1, <4>1, <4>2, Numbers, ConstantsAssumption
    <3> QED BY <2>1, <2>6, <3>1, Numbers, ConstantsAssumption
            DEF Accounts, DispatchesBounded
  <2>9. ASSUME NEW v \in Workers, row'.owner = v, NEW s \in Unstarted(v)',
               row'.stage[s].marked \/ row'.stage[s].attempts >= MaxAttempts
        PROVE  (Room(s, row.stage[s].attempts) /\ Room(s, MaxAttempts))'
    <3>1. v = w /\ s \in Stages /\ s # u /\ s \in Unstarted(w)
          BY <2>2, <2>4, <2>9 DEF Unstarted
    <3>2. row'.stage[s] = row.stage[s] /\ hist'.paid[s] = hist.paid[s]
          BY <2>2, <2>6, <3>1
    <3>3. Room(s, row.stage[s].attempts) /\ Room(s, MaxAttempts)
          BY <2>2, <2>9, <3>1, <3>2 DEF Accounts, StartIsCovered
    <3> QED BY <2>6, <3>2, <3>3 DEF Room
  <2> QED BY <2>7, <2>8, <2>9 DEF Accounts, StartIsCovered
<1>4. ASSUME NEW w \in Workers, Refused(w) PROVE Accounts'
  <2>1. /\ job[w].pc \in {"working", "calling"}
        /\ job'[w].pc \notin {"working"} /\ job'[w].stage = job[w].stage
        /\ job'[w].work = job[w].work
        /\ \A v \in Workers \ {w} : job'[v] = job[v]
        /\ row' = row /\ hist' = hist
        BY <1>4 DEF Refused, Moved, TypeOK, Job
  <2>2. \A v \in Workers : StartsNoMore(v)
        BY <2>1 DEF StartsNoMore, Unstarted, Active
  <2> QED BY <2>1, <2>2, QuietStep
<1>5. ASSUME NEW w \in Workers, Answer(w) PROVE Accounts'
  <2>1. /\ job[w].pc \in {"calling"}
        /\ job'[w].pc \notin {"working"} /\ job'[w].stage = job[w].stage
        /\ job'[w].work = job[w].work
        /\ \A v \in Workers \ {w} : job'[v] = job[v]
        /\ row' = row /\ hist' = hist
        BY <1>5 DEF Answer, Moved, TypeOK, Job
  <2>2. \A v \in Workers : StartsNoMore(v)
        BY <2>1 DEF StartsNoMore, Unstarted, Active
  <2> QED BY <2>1, <2>2, QuietStep
<1>6. ASSUME NEW w \in Workers, PublishBegin(w) PROVE Accounts'
  <2>1. /\ job'[w].pc = "committing" /\ job'[w].stage = job[w].stage
        /\ job'[w].work = job[w].work
        /\ \A v \in Workers \ {w} : job'[v] = job[v]
        /\ row' = row /\ hist' = hist
        BY <1>6, PublishBeginEffect
  <2>2. job[w].pc = "publishing"
        BY <1>6 DEF PublishBegin
  <2>3. \A v \in Workers : StartsNoMore(v)
        BY <2>1, <2>2 DEF StartsNoMore, Unstarted, Active
  <2> QED BY <2>1, <2>3, QuietStep
<1>7. ASSUME NEW w \in Workers, PublishEnd(w) PROVE Accounts'
  <2>1. /\ row'.owner = row.owner
        /\ \A s \in Stages :
             /\ row'.stage[s].attempts = row.stage[s].attempts
             /\ row'.stage[s].marked <=> row.stage[s].marked
        /\ job'[w].pc = "finishing" /\ job'[w].stage = job[w].stage
        /\ job'[w].work = job[w].work
        /\ \A v \in Workers \ {w} : job'[v] = job[v]
        BY <1>7, PublishEndEffect
  <2>2. job[w].pc = "committing"
        BY <1>7 DEF PublishEnd
  <2>3. \A v \in Workers : StartsNoMore(v)
        BY <2>1, <2>2 DEF StartsNoMore, Unstarted, Active
  <2>4. /\ hist'.paid = hist.paid /\ hist'.credit = hist.credit
        /\ hist'.straddles = hist.straddles
    <3>1. \/ hist' = hist
          \/ hist' = [hist EXCEPT !.published = @ \cup {job[w].stage}]
          BY <1>7 DEF PublishEnd
    <3> QED BY <3>1 DEF TypeOK, Hist
  <2> QED BY <2>1, <2>3, <2>4, QuietStep
<1>8. ASSUME NEW w \in Workers, Finish(w) PROVE Accounts'
  <2> DEFINE u == job[w].stage
  <2>1. u \in Stages
        BY DEF TypeOK, Job
  <2>2. /\ FinishRecords(w) \/ (row' = row /\ hist' = hist)
        /\ FinishGoesOn(w)
        /\ \A v \in Workers \ {w} : Kept(v)
        BY <1>8, FinishEffect
  <2>3. job[w].pc = "finishing"
        BY <1>8 DEF Finish
  <2>4. \A v \in Workers : Unstarted(v)' \subseteq Unstarted(v)
    <3>1. Unstarted(w)' \subseteq Unstarted(w)
          BY <2>2, <2>3 DEF FinishGoesOn, Unstarted, Active
    <3>2. \A v \in Workers \ {w} : Unstarted(v)' \subseteq Unstarted(v)
          BY <2>2 DEF Kept, Unstarted, Active
    <3> QED BY <3>1, <3>2
  <2>5. CASE row' = row /\ hist' = hist
    <3>1. \A v \in Workers : StartsNoMore(v)
          BY <2>4, <2>5 DEF StartsNoMore
    <3> QED BY <2>5, <3>1, QuietStep
  <2>6. CASE FinishRecords(w)
    <3>1. u \notin Unstarted(w)'
          BY <2>2, <2>3 DEF FinishGoesOn, Unstarted, Active
    <3>2. /\ row.owner = w /\ row'.owner = w
          /\ row'.stage[u].attempts = Attempts(w)
          /\ \A s \in Stages \ {u} : row'.stage[s] = row.stage[s]
          /\ hist' = IF Credited(w) THEN [hist EXCEPT !.credit[u] = @ + 1] ELSE hist
          BY <2>6 DEF FinishRecords
    <3>3. Attempts(w) = IF Credited(w) /\ row.stage[u].attempts > 0
                        THEN row.stage[u].attempts - 1 ELSE row.stage[u].attempts
          BY DEF Attempts
    <3> HIDE DEF u
    <3>4. /\ hist'.paid = hist.paid /\ hist'.straddles = hist.straddles
          /\ hist'.credit[u] = IF Credited(w) THEN hist.credit[u] + 1 ELSE hist.credit[u]
          /\ \A s \in Stages \ {u} : hist'.credit[s] = hist.credit[s]
          BY <2>1, <3>2 DEF TypeOK, Hist
    <3>5. PaidIsCounted'
          BY <2>1, <3>2, <3>3, <3>4, Numbers
          DEF Accounts, PaidIsCounted, Charged
    <3>6. DispatchesBounded'
          BY <2>1, <3>4, Numbers, ConstantsAssumption
          DEF Accounts, DispatchesBounded
    <3>7. ASSUME NEW v \in Workers, row'.owner = v, NEW s \in Unstarted(v)',
                 row'.stage[s].marked \/ row'.stage[s].attempts >= MaxAttempts
          PROVE  (Room(s, row.stage[s].attempts) /\ Room(s, MaxAttempts))'
      <4>1. v = w /\ s \in Stages /\ s # u /\ s \in Unstarted(w)
            BY <2>4, <3>1, <3>2, <3>7 DEF Unstarted
      <4>2. row'.stage[s] = row.stage[s] /\ hist'.credit[s] = hist.credit[s]
            BY <3>2, <3>4, <4>1
      <4>3. Room(s, row.stage[s].attempts) /\ Room(s, MaxAttempts)
            BY <3>2, <3>7, <4>1, <4>2 DEF Accounts, StartIsCovered
      <4> QED BY <3>4, <4>2, <4>3 DEF Room
    <3> QED BY <3>5, <3>6, <3>7 DEF Accounts, StartIsCovered
  <2> QED BY <2>2, <2>5, <2>6
<1>9. ASSUME NEW w \in Workers, Release(w) PROVE Accounts'
  <2>1. /\ job'[w].pc = "idle" /\ hist' = hist
        /\ \/ row' = row /\ \A v \in Workers \ {w} : job'[v] = job[v]
           \/ /\ row'.owner = NoOne
              /\ \A s \in Stages : row'.stage[s].attempts = row.stage[s].attempts
        BY <1>9, ReleaseEffect DEF Idle
  <2>2. \A v \in Workers : StartsNoMore(v)
        BY <2>1, ConstantsAssumption DEF StartsNoMore, Unstarted, Active
  <2>3. \A s \in Stages : row'.stage[s].attempts = row.stage[s].attempts
        BY <2>1
  <2> QED BY <2>1, <2>2, <2>3, QuietStep
<1>10. ASSUME NEW w \in Workers, Abort(w) PROVE Accounts'
  <2>1. /\ job'[w].pc = "releasing" /\ row' = row /\ hist' = hist
        /\ \A v \in Workers \ {w} : job'[v] = job[v]
        BY <1>10 DEF Abort, TypeOK, Idle
  <2>2. \A v \in Workers : StartsNoMore(v)
        BY <2>1 DEF StartsNoMore, Unstarted, Active
  <2> QED BY <2>1, <2>2, QuietStep
<1>11. ASSUME NEW w \in Workers, Die(w) PROVE Accounts'
  <2>1. /\ job'[w].pc = "idle" /\ hist' = hist
        /\ \A v \in Workers \ {w} : job'[v] = job[v]
        /\ row'.owner \in {row.owner, Gone} /\ row'.stage = row.stage
        BY <1>11 DEF Die, TypeOK, Row, Idle
  <2>2. \A v \in Workers : StartsNoMore(v)
        BY <2>1, ConstantsAssumption DEF StartsNoMore, Unstarted, Active
  <2> QED BY <2>1, <2>2, QuietStep
<1>12. CASE Expire \/ (\E s \in Stages : RetryDue(s)) \/ UNCHANGED vars
  <2>1. /\ row'.owner = row.owner /\ job' = job /\ hist' = hist
        /\ \A s \in Stages : /\ row'.stage[s].attempts = row.stage[s].attempts
                             /\ row'.stage[s].marked <=> row.stage[s].marked
        BY <1>12 DEF Expire, RetryDue, vars, Row, Stage
  <2>2. \A v \in Workers : StartsNoMore(v)
    <3>1. \A v \in Workers : Unstarted(v)' = Unstarted(v)
          BY <2>1 DEF Unstarted, Active
    <3> QED BY <2>1, <3>1 DEF StartsNoMore
  <2> QED BY <2>1, <2>2, QuietStep
<1>13. CASE Requeue \/ Reopen
  <2>1. /\ row'.owner = row.owner /\ hist' = hist
        /\ \A s \in Stages : /\ row'.stage[s].attempts = row.stage[s].attempts
                             /\ row'.stage[s].marked <=> row.stage[s].marked
        /\ \A v \in Workers : Kept(v)
        BY <1>13, ReopenEffect
  <2>2. \A v \in Workers : StartsNoMore(v)
    <3>1. \A v \in Workers : Unstarted(v)' = Unstarted(v)
          BY <2>1 DEF Unstarted, Active, Kept
    <3> QED BY <2>1, <3>1 DEF StartsNoMore
  <2> QED BY <2>1, <2>2, QuietStep
<1> QED BY <1>1, <1>2, <1>3, <1>4, <1>5, <1>6, <1>7, <1>8, <1>9, <1>10, <1>11,
           <1>12, <1>13 DEF Next, RunStep

-----------------------------------------------------------------------------
(* The inductive invariant and what follows from it *)

\* The initial state satisfies the inductive invariant.
LEMMA QueueInvariantInit == Init => QueueInvariant
<1> SUFFICES ASSUME Init PROVE QueueInvariant
    OBVIOUS
<1> USE ConstantsAssumption
<1>1. /\ row = [stage |-> [s \in Stages |-> New], owner |-> NoOne, lease |-> "free"]
      /\ lock = NoOne /\ left = MaxHindrances
      /\ \A w \in Workers : job[w] = Idle /\ job[w].pc = "idle"
      /\ job \in [Workers -> Job]
      BY IdleIsJob DEF Init, Idle
<1>2. hist = [paid |-> [s \in Stages |-> 0], credit |-> [s \in Stages |-> 0],
              published |-> {}, straddles |-> 0]
      BY DEF Init
<1>3. row \in Row
      BY <1>1 DEF Row, Stage, New
<1>4. hist \in Hist
      BY <1>2 DEF Hist
<1>5. TypeOK
      BY <1>1, <1>3, <1>4 DEF TypeOK
<1>6. \A s \in Stages : /\ row.stage[s].status = "pending"
                        /\ row.stage[s].attempts = 0
                        /\ hist.paid[s] = 0 /\ hist.credit[s] = 0
                        /\ hist.straddles = 0
      BY <1>1, <1>2 DEF New
<1>7. \A w \in Workers : Unstarted(w) = {} /\ ~Active(w) /\ ~Claiming(w)
      BY <1>1 DEF Unstarted, Active, Claiming
<1>8. LockIsHeld /\ OwnerIsCurrent /\ OutcomeIsKnown /\ WorkIsPending
      BY <1>1, <1>7 DEF LockIsHeld, OwnerIsCurrent, OutcomeIsKnown, WorkIsPending
<1>9. SucceededIsPublished /\ AttemptsArePaid /\ FailedWasTried
      BY <1>6 DEF SucceededIsPublished, AttemptsArePaid, FailedWasTried
<1>10. PaidIsCounted /\ DispatchesBounded
       BY <1>6 DEF PaidIsCounted, DispatchesBounded, Charged
<1>11. SawExpiredIsStale /\ ClaimIsClean /\ StartIsCovered
       BY <1>7 DEF SawExpiredIsStale, ClaimIsClean, StartIsCovered
<1> QED BY <1>5, <1>8, <1>9, <1>10, <1>11 DEF QueueInvariant

\* Every step preserves it.
LEMMA QueueInvariantStep == QueueInvariant /\ [Next]_vars => QueueInvariant'
<1> SUFFICES ASSUME QueueInvariant, [Next]_vars PROVE QueueInvariant'
    OBVIOUS
<1> USE DEF QueueInvariant
<1>1. TypeOK' /\ LockIsHeld'
      BY TypeStep, LockStep
<1>2. OwnerIsCurrent'
      BY OwnerStep
<1>3. OutcomeIsKnown' /\ SucceededIsPublished'
      BY OutcomeStep
<1>4. WorkIsPending'
      BY PendingStep
<1>5. AttemptsArePaid' /\ FailedWasTried'
      BY PaidStep
<1>6. SawExpiredIsStale' /\ ClaimIsClean'
      BY CleanStep
<1>7. PaidIsCounted' /\ DispatchesBounded' /\ StartIsCovered'
      BY AccountsStep DEF Accounts
<1> QED BY <1>1, <1>2, <1>3, <1>4, <1>5, <1>6, <1>7

\* The inductive invariant holds in every reachable state.
THEOREM QueueInvariantHolds == Spec => []QueueInvariant
<1>1. Init => QueueInvariant
      BY QueueInvariantInit
<1>2. QueueInvariant /\ [Next]_vars => QueueInvariant'
      BY QueueInvariantStep
<1> QED BY <1>1, <1>2, PTL DEF Spec

\* Type correctness of the row, its lock, the runs and the history.
THEOREM QueueTypeCorrect == Spec => []TypeOK
<1>1. QueueInvariant => TypeOK
      BY DEF QueueInvariant
<1> QED BY <1>1, QueueInvariantHolds, PTL

\* A stage that failed for good was paid for as often as the attempt limit,
\* however many runs were refused, replaced or lost on the way.
THEOREM WaitingCostsNoAttempt == Spec => []FailedWasTried
<1>1. QueueInvariant => FailedWasTried
      BY DEF QueueInvariant
<1> QED BY <1>1, QueueInvariantHolds, PTL

\* The attempt limit bounds the dispatches of a stage, up to the credits for
\* new chunks and the claims that straddle a change of the row.
THEOREM LimitBoundsDispatches == Spec => []DispatchesBounded
<1>1. QueueInvariant => DispatchesBounded
      BY DEF QueueInvariant
<1> QED BY <1>1, QueueInvariantHolds, PTL

\* Nothing is recorded as succeeded that was not published.
THEOREM SuccessIsPublished == Spec => []SucceededIsPublished
<1>1. QueueInvariant => SucceededIsPublished
      BY DEF QueueInvariant
<1> QED BY <1>1, QueueInvariantHolds, PTL

\* A run that was replaced never publishes: it is the owner under the lock.
THEOREM ReplacedNeverPublishes == Spec => []PublisherNotReplaced
<1>1. QueueInvariant => PublisherNotReplaced
      BY DEF QueueInvariant, LockIsHeld, OwnerIsCurrent, PublisherNotReplaced,
             Active
<1> QED BY <1>1, QueueInvariantHolds, PTL

-----------------------------------------------------------------------------
\* No step but the reopening of a success changes the status of a settled stage.
LEMMA SettledStep ==
  QueueInvariant /\ [Next]_vars =>
    \A s \in Stages : ~Pending(row, s) /\ row'.stage[s].status # row.stage[s].status =>
      /\ row.stage[s].status = "succeeded" /\ row'.stage[s].status = "pending"
      /\ row'.stage[s].attempts = row.stage[s].attempts
      /\ lock = NoOne /\ row'.owner = row.owner
<1>10. QueueInvariant => TypeOK
       BY DEF QueueInvariant
<1>11. QueueInvariant /\ (Requeue \/ Reopen) =>
         \A s \in Stages : ~Pending(row, s) /\ row'.stage[s].status # row.stage[s].status =>
           /\ row.stage[s].status = "succeeded" /\ row'.stage[s].status = "pending"
           /\ row'.stage[s].attempts = row.stage[s].attempts
           /\ lock = NoOne /\ row'.owner = row.owner
       BY <1>10, ReopenEffect
<1> SUFFICES ASSUME QueueInvariant, [Next]_vars, ~(Requeue \/ Reopen),
                    NEW s \in Stages, ~Pending(row, s)
             PROVE  row'.stage[s].status = row.stage[s].status
    BY <1>11
<1>0. TypeOK /\ LockIsHeld /\ OwnerIsCurrent /\ WorkIsPending
      BY DEF QueueInvariant
<1>1. ASSUME NEW w \in Workers, Claim(w)
      PROVE  row'.stage[s].status = row.stage[s].status
      BY <1>0, <1>1, ClaimKeepsStages DEF Spent
<1>2. ASSUME NEW w \in Workers, Start(w)
      PROVE  row'.stage[s].status = row.stage[s].status
      BY <1>0, <1>2, StartEffect
<1>3. ASSUME NEW w \in Workers, PublishEnd(w)
      PROVE  row'.stage[s].status = row.stage[s].status
  <2>1. \/ row'.stage[s].status = row.stage[s].status
        \/ s = job[w].stage /\ job[w].ok /\ row.lease = "live"
        BY <1>0, <1>3, PublishEndEffect
  <2>2. job[w].pc = "committing" /\ (job[w].ok => row.owner = w)
        BY <1>0, <1>3 DEF PublishEnd, OwnerIsCurrent
  <2>3. job[w].ok /\ row.lease = "live" => Pending(row, job[w].stage)
        BY <1>0, <2>2 DEF WorkIsPending
  <2> QED BY <2>1, <2>3
<1>4. ASSUME NEW w \in Workers, Finish(w)
      PROVE  row'.stage[s].status = row.stage[s].status
      BY <1>0, <1>4, FinishEffect DEF FinishRecords
<1>5. ASSUME NEW w \in Workers, Release(w)
      PROVE  row'.stage[s].status = row.stage[s].status
      BY <1>0, <1>5, ReleaseEffect
<1>6. ASSUME NEW w \in Workers, Die(w)
      PROVE  row'.stage[s].status = row.stage[s].status
      BY <1>0, <1>6 DEF Die, TypeOK, Row
<1>7. CASE Expire \/ \E u \in Stages : RetryDue(u)
      BY <1>0, <1>7 DEF Expire, RetryDue, TypeOK, Row, Stage
<1>8. ASSUME NEW w \in Workers,
             Begin(w) \/ Refused(w) \/ Answer(w) \/ PublishBegin(w) \/ Abort(w)
      PROVE  row'.stage[s].status = row.stage[s].status
      BY <1>8 DEF Begin, Refused, Answer, PublishBegin, Abort
<1>9. CASE UNCHANGED vars
      BY <1>9 DEF vars
<1> QED BY <1>1, <1>2, <1>3, <1>4, <1>5, <1>6, <1>7, <1>8, <1>9 DEF Next, RunStep

\* No late or repeated outcome, claim or quarantine changes a settled stage: it
\* stays failed for good, and a success is only reopened as one, with its
\* attempts and its owner, and outside of every publication and quarantine.
THEOREM SettledOnlyReopens == Spec => SettledForGood
<1>1. QueueInvariant /\ [Next]_vars =>
        [\A s \in Stages : ~Pending(row, s) /\ row'.stage[s].status # row.stage[s].status =>
           /\ row.stage[s].status = "succeeded" /\ row'.stage[s].status = "pending"
           /\ row'.stage[s].attempts = row.stage[s].attempts
           /\ lock = NoOne /\ row'.owner = row.owner]_row
      BY SettledStep
<1> QED BY <1>1, QueueInvariantHolds, PTL DEF Spec, SettledForGood

=============================================================================
