--------------------------- MODULE EnrichmentQueue ---------------------------
(***************************************************************************)
(* The enrichment queue of one post (PostEnrichmentState) and the runs     *)
(* that translate and classify it.  A run first reopens a translation that *)
(* is no longer complete, claims the row, asks a provider for each stage   *)
(* that is due, publishes valid answers, records the outcome of the stage  *)
(* and releases the row, each in transactions of its own.  Every batch has *)
(* a run id of its own, so the claim of a process that died belongs to     *)
(* nobody (Gone) even when the process comes back.                         *)
(*                                                                         *)
(* Time is left out: a lease is live until it expires, a stage waits until *)
(* its next attempt is due.  What a run read of the time before the        *)
(* statement that uses it is kept in its job: `sawExpired`, `notYet` and   *)
(* `started` say how the row compares with the time the claim read, `late` *)
(* that the run has taken a step since its lease ran out.                  *)
(*                                                                         *)
(* Only scheduled rows (no source_collection_job_id) are modelled; what a  *)
(* backfill does to one before it takes it over, or fails to, is Reopen.   *)
(* Posts meet in mark_stage_started only, where one lost claim refuses     *)
(* them all: that is Refused, which is always possible and costs nothing.  *)
(***************************************************************************)
EXTENDS Naturals

CONSTANTS Workers,       \* processes that enrich, one batch at a time
          NoOne,         \* owner of a free row, holder of a free row lock
          Gone,          \* owner of a claim whose process died
          MaxAttempts,   \* cfg.max_attempts
          MaxHindrances  \* deaths, errors, slow runs, partial progress, and
                         \* outputs that are outdated, all together (a bound)

ASSUME ConstantsAssumption ==
  /\ NoOne \notin Workers /\ Gone \notin Workers /\ NoOne # Gone
  /\ MaxAttempts \in Nat \ {0}
  /\ MaxHindrances \in Nat

VARIABLES row,    \* the PostEnrichmentState
          lock,   \* who holds the row lock over several statements
          job,    \* what each process is doing
          left,   \* hindrances left
          hist    \* history: dispatches, credits, publications, straddles

vars == <<row, lock, job, left, hist>>

-----------------------------------------------------------------------------
(* Types *)

Stages == {"translation", "classification"}

\* marked: last_attempt_at >= claimed_at;  wait: next_attempt_at lies ahead
Stage == [status : {"pending", "succeeded", "failed"}, attempts : Nat,
          wait : BOOLEAN, marked : BOOLEAN]

Row == [stage : [Stages -> Stage], owner : Workers \cup {NoOne, Gone},
        lease : {"free", "live", "expired"}]

Job == [pc : {"idle", "claiming", "working", "calling", "publishing",
              "committing", "finishing", "releasing"},
        stage : Stages, work : SUBSET Stages, replaced : BOOLEAN,
        called : BOOLEAN, ok : BOOLEAN, progressed : BOOLEAN, late : BOOLEAN,
        sawExpired : BOOLEAN, notYet : SUBSET Stages, started : SUBSET Stages,
        straddled : BOOLEAN]

Hist == [paid : [Stages -> Nat], credit : [Stages -> Nat],
         published : SUBSET Stages, straddles : Nat]

TypeOK == /\ row \in Row
          /\ lock \in Workers \cup {NoOne}
          /\ job \in [Workers -> Job]
          /\ left \in 0..MaxHindrances
          /\ hist \in Hist

Idle == [pc |-> "idle", stage |-> "translation", work |-> {}, replaced |-> FALSE,
         called |-> FALSE, ok |-> FALSE, progressed |-> FALSE, late |-> FALSE,
         sawExpired |-> FALSE, notYet |-> {}, started |-> {},
         straddled |-> FALSE]

-----------------------------------------------------------------------------
(* Conditions of the queries *)

Pending(r, s) == r.stage[s].status = "pending"

\* Mutant: one more attempt than the limit.
SpentLate(r, s) == Pending(r, s) /\ r.stage[s].attempts > MaxAttempts

\* Mutant: one attempt less than the limit.
SpentEarly(r, s) == Pending(r, s) /\ r.stage[s].attempts + 1 >= MaxAttempts

\* Mutant: the status of the stage is not looked at.
SpentWhateverStatus(r, s) == r.stage[s].attempts >= MaxAttempts

Spent(r, s) == Pending(r, s) /\ r.stage[s].attempts >= MaxAttempts

\* Free, or expired by the time w read when its claim began.
Available(w) == row.lease = "free" \/ (row.lease = "expired" /\ job[w].sawExpired)

\* claim_run_id = run_id and claim_expires_at > now: what a run may find that
\* read `now` at any moment since its last step.
HeldNow(w) == row.owner = w /\ row.lease = "live"

Holds(w) == IF HeldNow(w) THEN {TRUE}
            ELSE IF row.owner = w /\ ~job[w].late THEN {TRUE, FALSE}
            ELSE {FALSE}

\* The claim of w is between its two statements.
Claiming(w) == job[w].pc = "claiming"

-----------------------------------------------------------------------------
(* claim_enrichment_states: one transaction of two statements.  The first  *)
(* locks a row with a spent stage, the second claims what is due.          *)

\* Succeeded stages are due again; their attempts are kept.
Reopened(stages) ==
  [row EXCEPT !.stage = [s \in Stages |->
     IF s \in stages THEN [@[s] EXCEPT !.status = "pending"] ELSE @[s]]]

\* A claim whose statements this comes between may find the stages due, or,
\* having read the time before they were, not yet (the runs in `early`).
Crossed(v, stages, early) ==
  IF Claiming(v)
  THEN [job[v] EXCEPT !.straddled = TRUE,
                      !.notYet = IF v \in early THEN @ \cup stages ELSE @]
  ELSE job[v]

\* The published output of a succeeded stage is found incomplete: the post was
\* changed, gained a brand, or its artifact is not the current one any more.
Outdated(stages) ==
  /\ stages # {} /\ \A s \in stages : row.stage[s].status = "succeeded"
  /\ lock = NoOne
  /\ left > 0 /\ left' = left - 1
  /\ row' = Reopened(stages)

\* _requeue_recent_incomplete_translations, a transaction of its own at the
\* start of every scheduled batch, before its claim: it looks at nobody's claim.
\* A batch that finds the output complete, or the row too old, changes nothing
\* and goes on to Begin.
Requeue ==
  /\ Outdated({"translation"})
  /\ \E early \in SUBSET Workers :
       job' = [v \in Workers |-> Crossed(v, {"translation"}, early)]
  /\ UNCHANGED <<lock, hist>>

\* reopen_incomplete_successes, in a process of a backfill, of a row that is
\* not claimed (and whose ownership it may then fail to take).
Reopen ==
  /\ row.lease # "live"
  /\ \E stages \in SUBSET Stages :
       /\ Outdated(stages)
       /\ job' = [v \in Workers |-> Crossed(v, stages, {})]
  /\ UNCHANGED <<lock, hist>>

\* SKIP LOCKED passes over a row that another transaction holds.
Begin(w) ==
  /\ job[w].pc = "idle"
  /\ LET spent == row.lease # "live" /\ \E s \in Stages : Spent(row, s)
     IN /\ lock' = IF spent /\ lock = NoOne THEN w ELSE lock
        /\ job' = [job EXCEPT ![w] =
             [Idle EXCEPT !.pc = "claiming",
                          !.sawExpired = (row.lease = "expired"),
                          !.notYet = {s \in Stages : row.stage[s].wait},
                          !.straddled = spent /\ lock # NoOne]]
  /\ UNCHANGED <<row, left, hist>>

\* Mutant: a status of its own, which the model field does not know.
QuarantinedByName(r) ==
  [r EXCEPT !.stage = [s \in Stages |->
     IF Spent(r, s) THEN [@[s] EXCEPT !.status = "quarantined", !.wait = FALSE]
                    ELSE @[s]]]

Quarantined(r) ==
  [r EXCEPT !.stage = [s \in Stages |->
     IF Spent(r, s) THEN [@[s] EXCEPT !.status = "failed", !.wait = FALSE]
                    ELSE @[s]]]

FirstOf(work) == IF "translation" \in work THEN "translation" ELSE "classification"

\* What the claim of another run means to v.
Overtaken(v) == [job[v] EXCEPT !.sawExpired = FALSE,
                               !.replaced = job[v].pc \notin {"idle", "claiming", "releasing"}]

\* A straddle matters if a stage is claimed that is spent, or that seems to be
\* marked by this claim although another run started it.
Excusable(w, r, due) == \E s \in due : Spent(r, s) \/ s \in job[w].started

\* Mutant: spent stages are left out of the claim, and nobody fails them.
ClaimUnspent(w) ==
  /\ Claiming(w)
  /\ lock' = IF lock = w THEN NoOne ELSE lock
  /\ LET due == {s \in Stages : /\ Pending(row, s) /\ ~Spent(row, s)
                                /\ s \notin job[w].notYet}
     IN IF lock \in {NoOne, w} /\ Available(w) /\ due # {}
        THEN /\ row' = [row EXCEPT !.owner = w, !.lease = "live",
                  !.stage = [s \in Stages |->
                     [@[s] EXCEPT !.marked = s \in job[w].started]]]
             /\ job' = [v \in Workers |->
                  IF v = w THEN [Idle EXCEPT !.pc = "working", !.work = due,
                                             !.stage = FirstOf(due)]
                           ELSE Overtaken(v)]
        ELSE row' = row /\ job' = [job EXCEPT ![w] = Idle]
  /\ UNCHANGED <<left, hist>>

Claim(w) ==
  /\ Claiming(w)
  /\ lock' = IF lock = w THEN NoOne ELSE lock
  /\ LET r   == IF lock = w THEN Quarantined(row) ELSE row
         due == {s \in Stages : Pending(r, s) /\ s \notin job[w].notYet}
     IN IF lock \in {NoOne, w} /\ Available(w) /\ due # {}
        THEN /\ row' = [r EXCEPT !.owner = w, !.lease = "live",
                  !.stage = [s \in Stages |->
                     [@[s] EXCEPT !.marked = s \in job[w].started]]]
             /\ job' = [v \in Workers |->
                  IF v = w THEN [Idle EXCEPT !.pc = "working", !.work = due,
                                             !.stage = FirstOf(due)]
                           ELSE Overtaken(v)]
             /\ hist' = IF job[w].straddled /\ Excusable(w, r, due)
                        THEN [hist EXCEPT !.straddles = @ + 1] ELSE hist
        ELSE /\ row' = r
             /\ job' = [job EXCEPT ![w] = Idle]
             /\ hist' = hist
  /\ left' = left

-----------------------------------------------------------------------------
(* One stage of a claimed row *)

\* The job after a step of its own.
Moved(w, pc) == [job[w] EXCEPT !.pc = pc, !.late = row.lease = "expired" /\ row.owner = w]

Counted(t) == [t EXCEPT !.attempts = @ + 1, !.marked = TRUE]

\* mark_stage_started: the attempt is counted before the provider is called,
\* once for all requests of the claim.
Start(w) ==
  LET s == job[w].stage IN
  /\ job[w].pc = "working" /\ lock = NoOne
  /\ TRUE \in Holds(w) /\ Pending(row, s) /\ ~row.stage[s].wait
  /\ row' = IF row.stage[s].marked THEN row
            ELSE [row EXCEPT !.stage[s] = Counted(@)]
  /\ job' = [v \in Workers |->
       IF v = w THEN [Moved(w, "calling") EXCEPT !.called = TRUE]
       ELSE IF Claiming(v) THEN [job[v] EXCEPT !.started = @ \cup {s},
                                               !.straddled = TRUE]
       ELSE job[v]]
  /\ hist' = [hist EXCEPT !.paid[s] = @ + 1]
  /\ UNCHANGED <<lock, left>>

\* The claim is lost, the post has no source text, or the batch has no client,
\* allowance or time left, for the first request of the stage or a later one.
\* It may be so for every run to come.
Refused(w) ==
  /\ job[w].pc \in {"working", "calling"}
  /\ job' = [job EXCEPT ![w] = Moved(w, "finishing")]
  /\ UNCHANGED <<row, lock, left, hist>>

\* The provider answered.  Chunks of a long post may be new even though the
\* post is not complete.
Answer(w) ==
  /\ job[w].pc = "calling"
  /\ \E valid, progressed \in BOOLEAN :
       /\ progressed => job[w].stage = "translation" /\ left > 0
       /\ left' = IF progressed THEN left - 1 ELSE left
       /\ job' = [job EXCEPT ![w] =
            [Moved(w, IF valid \/ job[w].stage = "translation"
                      THEN "publishing" ELSE "finishing")
               EXCEPT !.ok = valid, !.progressed = progressed]]
  /\ UNCHANGED <<row, lock, hist>>

\* Mutant: the lease is checked, but not whose it is.
FencedByLease(w) == {row.lease = "live"}

\* The row is locked and the claim checked again; a classification reads the
\* time after it has the lock, a translation before.
Fenced(w) ==
  IF job[w].stage = "translation"
  THEN {held /\ Pending(row, "translation") : held \in Holds(w)}
  ELSE {HeldNow(w)}

PublishBegin(w) ==
  /\ job[w].pc = "publishing" /\ lock = NoOne
  /\ lock' = w
  /\ \E fenced \in Fenced(w) :
       job' = [job EXCEPT ![w] = [Moved(w, "committing") EXCEPT !.ok = @ /\ fenced]]
  /\ UNCHANGED <<row, left, hist>>

\* A published classification is finished in the same transaction if the lease
\* has not run out since.
PublishEnd(w) ==
  LET s == job[w].stage IN
  /\ job[w].pc = "committing"
  /\ lock' = NoOne
  /\ hist' = IF job[w].ok THEN [hist EXCEPT !.published = @ \cup {s}] ELSE hist
  /\ row' = IF job[w].ok /\ s = "classification" /\ row.lease = "live"
            THEN [row EXCEPT !.stage[s] = [@ EXCEPT !.status = "succeeded",
                                                    !.wait = FALSE]]
            ELSE row
  /\ job' = [job EXCEPT ![w] = Moved(w, "finishing")]
  /\ left' = left

-----------------------------------------------------------------------------
(* finish_enrichment_stage and release_enrichment_claim *)

Credited(w) == job[w].called /\ job[w].progressed

Attempts(w) ==
  LET n == row.stage[job[w].stage].attempts
  IN IF Credited(w) /\ n > 0 THEN n - 1 ELSE n

Outcome(w) ==
  [row.stage[job[w].stage] EXCEPT
     !.attempts = Attempts(w),
     !.status = IF job[w].ok THEN "succeeded"
                ELSE IF Attempts(w) >= MaxAttempts THEN "failed" ELSE "pending",
     !.wait = ~job[w].ok /\ Attempts(w) < MaxAttempts /\ ~job[w].progressed]

\* Mutant: the outcome of the translation is kept for the classification.
NextStageKeepsOutcome(w) ==
  IF job[w].stage = "translation" /\ "classification" \in job[w].work
  THEN [Moved(w, "working") EXCEPT !.stage = "classification"]
  ELSE [Idle EXCEPT !.pc = "releasing"]

\* After the translation comes the classification, if it was due.
NextStage(w) ==
  IF job[w].stage = "translation" /\ "classification" \in job[w].work
  THEN [Moved(w, "working") EXCEPT !.stage = "classification", !.called = FALSE,
                                   !.ok = FALSE, !.progressed = FALSE]
  ELSE [Idle EXCEPT !.pc = "releasing"]

Finish(w) ==
  /\ job[w].pc = "finishing" /\ lock = NoOne
  /\ \E held \in Holds(w) :
       LET s == job[w].stage
           effective == held /\ Pending(row, s)
       IN /\ row' = IF effective THEN [row EXCEPT !.stage[s] = Outcome(w)] ELSE row
          /\ hist' = IF effective /\ Credited(w)
                     THEN [hist EXCEPT !.credit[s] = @ + 1] ELSE hist
          /\ job' = [v \in Workers |->
               IF v = w THEN NextStage(w)
               ELSE IF Claiming(v) /\ effective
                    THEN [job[v] EXCEPT !.notYet = @ \cup {s}] ELSE job[v]]
  /\ UNCHANGED <<lock, left>>

\* The release compares the run only, not the time.  Without claimed_at no
\* stage is marked.
Release(w) ==
  /\ job[w].pc = "releasing" /\ lock = NoOne
  /\ row' = IF row.owner = w
            THEN [row EXCEPT !.owner = NoOne, !.lease = "free",
                    !.stage = [s \in Stages |-> [@[s] EXCEPT !.marked = FALSE]]]
            ELSE row
  /\ job' = [v \in Workers |->
       IF v = w THEN Idle
       ELSE IF Claiming(v) /\ row.owner = w
            THEN [job[v] EXCEPT !.straddled = TRUE] ELSE job[v]]
  /\ UNCHANGED <<lock, left, hist>>

-----------------------------------------------------------------------------
(* What goes wrong, and time *)

Unlocked(w) == IF lock = w THEN NoOne ELSE lock

\* An exception leaves the batch: its transaction is rolled back and the
\* `finally` of process_enrichment_batch releases what the run holds.
Abort(w) ==
  /\ job[w].pc \in {"working", "calling", "publishing", "committing", "finishing"}
  /\ left > 0 /\ left' = left - 1
  /\ lock' = Unlocked(w)
  /\ job' = [job EXCEPT ![w] = [Idle EXCEPT !.pc = "releasing"]]
  /\ UNCHANGED <<row, hist>>

Die(w) ==
  /\ job[w].pc # "idle"
  /\ left > 0 /\ left' = left - 1
  /\ lock' = Unlocked(w)
  /\ row' = IF row.owner = w THEN [row EXCEPT !.owner = Gone] ELSE row
  /\ job' = [job EXCEPT ![w] = Idle]
  /\ hist' = hist

\* claim_ttl_seconds covers a batch, so the lease of a run that is alive ends
\* only if the run is slow.
Expire ==
  /\ row.lease = "live"
  /\ \/ row.owner = Gone /\ left' = left
     \/ left > 0 /\ left' = left - 1
  /\ row' = [row EXCEPT !.lease = "expired"]
  /\ UNCHANGED <<lock, job, hist>>

RetryDue(s) ==
  /\ row.stage[s].wait
  /\ row' = [row EXCEPT !.stage[s].wait = FALSE]
  /\ UNCHANGED <<lock, job, left, hist>>

-----------------------------------------------------------------------------
(* Specification *)

New == [status |-> "pending", attempts |-> 0, wait |-> FALSE, marked |-> FALSE]

Init ==
  /\ row = [stage |-> [s \in Stages |-> New], owner |-> NoOne, lease |-> "free"]
  /\ lock = NoOne
  /\ job = [w \in Workers |-> Idle]
  /\ left = MaxHindrances
  /\ hist = [paid |-> [s \in Stages |-> 0], credit |-> [s \in Stages |-> 0],
             published |-> {}, straddles |-> 0]

RunStep(w) == \/ Begin(w) \/ Claim(w) \/ Start(w) \/ Refused(w) \/ Answer(w)
              \/ PublishBegin(w) \/ PublishEnd(w) \/ Finish(w) \/ Release(w)

Next == \/ \E w \in Workers : RunStep(w) \/ Abort(w) \/ Die(w)
        \/ Expire \/ Requeue \/ Reopen
        \/ \E s \in Stages : RetryDue(s)

Spec == Init /\ [][Next]_vars

FairSpec == /\ Spec
            /\ \A w \in Workers : WF_vars(RunStep(w))
            /\ WF_vars(Expire)
            /\ \A s \in Stages : WF_vars(RetryDue(s))

-----------------------------------------------------------------------------
(* Properties *)

\* Waiting never consumes an attempt: a stage that failed for good was sent to
\* a provider in as many claims as it has attempts, whatever was lost, refused
\* or taken over in between.
FailedWasTried ==
  \A s \in Stages : row.stage[s].status = "failed" => hist.paid[s] >= MaxAttempts

\* The attempt limit bounds what is paid for: beyond it there are only claims
\* that were credited for new chunks, and claims whose two statements straddle
\* a commit, a release or a row lock of another run.
DispatchesBounded ==
  \A s \in Stages : hist.paid[s] <= MaxAttempts + hist.credit[s] + hist.straddles

\* A stage is recorded as succeeded only if a run published its result.
SucceededIsPublished ==
  \A s \in Stages : row.stage[s].status = "succeeded" => s \in hist.published

\* A run whose row was claimed by another run since never publishes: once it
\* has checked its claim under the row lock, nobody can claim before it commits.
PublisherNotReplaced ==
  \A w \in Workers :
    job[w].pc = "committing" /\ job[w].ok => ~job[w].replaced /\ lock = w

\* A late or repeated outcome, claim or quarantine never changes a settled
\* stage: a failed one stays failed, and a succeeded one is only reopened as
\* such, with its attempts, while no backfill and no run is in the middle of a
\* publication or a quarantine.
SettledForGood ==
  [][\A s \in Stages : ~Pending(row, s) /\ row'.stage[s].status # row.stage[s].status =>
       /\ row.stage[s].status = "succeeded" /\ row'.stage[s].status = "pending"
       /\ row'.stage[s].attempts = row.stage[s].attempts
       /\ lock = NoOne /\ row'.owner = row.owner]_row

\* "A crashed final attempt still terminates on the next claim": a stage that
\* used up its attempts does not stay pending, whoever died, and although every
\* run to come may be refused its requests; unless new chunks refund attempts.
ExhaustedEnds == \A s \in Stages :
  Pending(row, s) /\ row.stage[s].attempts >= MaxAttempts
    ~> ~Pending(row, s) \/ row.stage[s].attempts < MaxAttempts

=============================================================================
