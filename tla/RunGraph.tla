------------------------------ MODULE RunGraph ------------------------------
(***************************************************************************)
(* The durable call graph of one headline run: a rank call, then for every *)
(* batch of brands an editor call and, for a risky answer, a critic call,  *)
(* until every brand of the manifest has an outcome and the run closes.    *)
(*                                                                         *)
(* Nobody owns the run.  _reconcile_run is executed, transaction by        *)
(* transaction, by whoever happens to hold the run: the task that built    *)
(* it, every stage task when it ends, every harvest envelope.  Several of  *)
(* these walks interleave with each other and with the transports, any of  *)
(* them may die between two transactions, and the messages that connect    *)
(* them may be lost.                                                       *)
(*                                                                         *)
(* The life of one call row is ProviderCall; here the claim is the         *)
(* Boolean `lease`, and receiving a stage message under a live lease and   *)
(* marking the row `sent` is one step.                                     *)
(***************************************************************************)
EXTENDS Naturals, FiniteSets

CONSTANTS Workers,    \* processes that execute tasks of this run
          N,          \* batches the editor packets were split into
          Planned,    \* batches expected before oversized ones are split
          Brand,      \* brands of the manifest
          Members,    \* [1..N -> SUBSET Brand], eligible brands, disjoint
          Estimate,   \* tokens reserved for a call
          Usage,      \* tokens a completed call turns out to have used
          TokenCap,   \* per-run token cap
          CallCap,    \* per-run call cap
          MaxFaults   \* deaths and losses explored (a bound)

Batches  == 1..N
Eligible == UNION {Members[b] : b \in Batches}
Plain    == Brand \ Eligible       \* no_content or data_quality_unavailable

ASSUME GraphAssumption ==
  /\ N \in Nat /\ Planned \in Nat /\ Planned <= N
  /\ Members \in [Batches -> SUBSET Brand]
  /\ \A b, c \in Batches : b # c => Members[b] \cap Members[c] = {}
  /\ IsFiniteSet(Brand)
  /\ Usage \in Nat \ {0} /\ Estimate \in Nat
  /\ TokenCap \in Nat /\ CallCap \in Nat /\ MaxFaults \in Nat

Rank      == <<"rank", 0>>
Editor(b) == <<"editor", b>>
Critic(b) == <<"critic", b>>
Calls     == {Rank} \cup {Editor(b) : b \in Batches}
                    \cup {Critic(b) : b \in Batches}

VARIABLES status,    \* of the run
          call,      \* state of each provider-call row ("none": no row)
          lease,     \* the claim of the row has not expired
          metered,   \* rows whose token usage is recorded
          verdict,   \* what the recorded editor answer of a batch amounts to
          approves,  \* brands the recorded critic answer of a batch approves
          outcome,   \* of each brand of the manifest ("none": no row)
          stages,    \* calls with a stage message the broker still holds
          closing,   \* the broker holds a finalize message
          job,       \* what each worker is doing
          faults     \* deaths and losses so far

vars == <<status, call, lease, metered, verdict, approves, outcome,
          stages, closing, job, faults>>

-----------------------------------------------------------------------------
(* Types *)

Failed   == {"failed", "ambiguous"}
Settled  == Failed \cup {"completed"}
Verdicts == {"plain", "risky", "unusable"}

Idle         == [pc |-> "idle", call |-> Rank, at |-> 0]
Transport(c) == [pc |-> "transport", call |-> c, at |-> 0]
Meter(c)     == [pc |-> "meter", call |-> c, at |-> 0]
Building     == [pc |-> "building", call |-> Rank, at |-> 0]
Walk(k)      == [pc |-> "walk", call |-> Rank, at |-> k]

TypeOK ==
  /\ status \in {"preparing", "terminal", "suspended", "active"}
  /\ call \in [Calls -> {"none", "reserved", "sent"} \cup Settled]
  /\ lease \in [Calls -> BOOLEAN]
  /\ metered \in SUBSET Calls
  /\ verdict \in [Batches -> Verdicts \cup {"none"}]
  /\ approves \in [Batches -> SUBSET Brand]
  /\ outcome \in [Brand -> {"none", "approved", "held", "no_content"}]
  /\ stages \in SUBSET Calls
  /\ closing \in BOOLEAN
  /\ job \in [Workers -> {Idle, Building}
                \cup {Transport(c) : c \in Calls}
                \cup {Meter(c) : c \in Calls}
                \cup {Walk(k) : k \in 0..N + 1}]
  /\ faults \in 0..MaxFaults

-----------------------------------------------------------------------------
(* The budget (_provider_budget_reason) *)

Rows  == {c \in Calls : call[c] # "none"}
Exact == {c \in metered : call[c] = "completed"}
Spend == Estimate * Cardinality(Rows \ Exact) + Usage * Cardinality(Exact)

\* Mutant: reserved work is not counted.
AffordableSoFar ==
  /\ Cardinality({c \in Rows : call[c] # "reserved"}) + 1 <= CallCap
  /\ Usage * Cardinality(Exact) + Estimate <= TokenCap

Affordable == /\ Cardinality(Rows) + 1 <= CallCap
              /\ Spend + Estimate <= TokenCap

-----------------------------------------------------------------------------
Complete == \A k \in Brand : outcome[k] # "none"

Go(w, j) == job' = [job EXCEPT ![w] = j]

\* The run and its first reconciler: the snapshot task has committed the run
\* and is about to write the outcomes of the brands without a narrative.
Init == /\ status = "preparing"
        /\ call = [c \in Calls |-> "none"]
        /\ lease = [c \in Calls |-> FALSE]
        /\ metered = {}
        /\ verdict = [b \in Batches |-> "none"]
        /\ approves = [b \in Batches |-> {}]
        /\ outcome = [k \in Brand |-> "none"]
        /\ stages = {}
        /\ closing = FALSE
        /\ \E w \in Workers :
             job = [v \in Workers |-> IF v = w THEN Building ELSE Idle]
        /\ faults = 0

\* Mutant: only a published run is left alone.
BeginWalkUnlessActive(w) ==
  CASE status = "terminal" -> /\ Go(w, Idle)
                              /\ closing' = TRUE
                              /\ UNCHANGED status
    [] status \in {"preparing", "suspended"} -> /\ Go(w, Walk(0))
                                               /\ status' = "preparing"
                                               /\ UNCHANGED closing
    [] OTHER -> Go(w, Idle) /\ UNCHANGED <<status, closing>>

\* A reconciliation begins by reading the run again.
BeginWalk(w) ==
  CASE status = "terminal" -> /\ Go(w, Idle)
                              /\ closing' = TRUE
                              /\ UNCHANGED status
    [] status = "preparing" /\ N = 0 -> /\ Go(w, Idle)
                                        /\ status' = "terminal"
                                        /\ closing' = TRUE
    [] status = "preparing" /\ N > 0 -> /\ Go(w, Walk(0))
                                        /\ UNCHANGED <<status, closing>>
    [] OTHER -> Go(w, Idle) /\ UNCHANGED <<status, closing>>

\* _suspend_run: only a run still preparing is suspended; the walk ends.
Suspend(w) ==
  /\ status' = IF status = "preparing" THEN "suspended" ELSE status
  /\ Go(w, Idle)

\* The snapshot task writes one no-content row after the other, ...
WritePlain(w) ==
  /\ job[w] = Building
  /\ \E k \in Plain : /\ outcome[k] = "none"
                      /\ outcome' = [outcome EXCEPT ![k] = "no_content"]
  /\ UNCHANGED <<status, call, lease, metered, verdict, approves, stages,
                 closing, job, faults>>

\* ... then suspends a run that would need too many calls, or reconciles.
FinishBuilding(w) ==
  /\ job[w] = Building
  /\ \A k \in Plain : outcome[k] # "none"
  /\ IF 1 + 2 * Planned > CallCap
     THEN Suspend(w) /\ UNCHANGED closing
     ELSE BeginWalk(w)
  /\ UNCHANGED <<call, lease, metered, verdict, approves, outcome, stages,
                 faults>>

\* A harvest envelope reaches the window of the run.
Envelope(w) ==
  /\ job[w] = Idle
  /\ status \in {"preparing", "terminal"}
  /\ BeginWalk(w)
  /\ UNCHANGED <<call, lease, metered, verdict, approves, outcome, stages,
                 faults>>

-----------------------------------------------------------------------------
(* The walk *)

\* Mutant: a `sent` row is left to its worker for ever.
VisitWithoutExpiry(c) ==
  LET reserved == call[c] \in {"none", "reserved"} IN
  /\ call' = IF call[c] = "none" THEN [call EXCEPT ![c] = "reserved"] ELSE call
  /\ IF reserved /\ ~lease[c]
     THEN /\ lease' = [lease EXCEPT ![c] = TRUE]
          /\ stages' = stages \cup {c}
     ELSE UNCHANGED <<lease, stages>>

\* _ensure_call, then _claim_and_enqueue or _terminalize_expired_sent.  (The
\* enqueue is best effort; a message that is not sent is one that is lost.)
Visit(c) ==
  LET reserved == call[c] \in {"none", "reserved"} IN
  /\ call' = CASE call[c] = "none" -> [call EXCEPT ![c] = "reserved"]
               [] call[c] = "sent" /\ ~lease[c] ->
                    [call EXCEPT ![c] = "ambiguous"]
               [] OTHER -> call
  /\ IF reserved /\ ~lease[c]
     THEN /\ lease' = [lease EXCEPT ![c] = TRUE]
          /\ stages' = stages \cup {c}
     ELSE UNCHANGED <<lease, stages>>

OverBudget(c) == call[c] = "none" /\ ~Affordable

WalkRank(w) ==
  /\ job[w] = Walk(0)
  /\ IF OverBudget(Rank)
     THEN Suspend(w) /\ UNCHANGED <<call, lease, stages>>
     ELSE /\ Visit(Rank)
          /\ Go(w, IF call'[Rank] \in Settled THEN Walk(1) ELSE Idle)
          /\ UNCHANGED status
  /\ UNCHANGED <<metered, verdict, approves, outcome, closing, faults>>

\* prepare_brand_trend_narrative for the brands of a batch, in a transaction
\* each; a row that exists is left alone.  The worker may die half way.
Decide(w, b, good) ==
  \E done \in SUBSET Members[b] :
    /\ outcome' = [k \in Brand |->
                     IF k \in done /\ outcome[k] = "none"
                     THEN IF k \in good THEN "approved" ELSE "held"
                     ELSE outcome[k]]
    /\ \/ /\ done = Members[b]
          /\ Go(w, Walk(b + 1))
          /\ UNCHANGED faults
       \/ /\ done # Members[b] /\ faults < MaxFaults
          /\ Go(w, Idle)
          /\ faults' = faults + 1

\* A call of the batch that is not settled yet: the walk goes on.
MoveOn(w, b) == Go(w, Walk(b + 1)) /\ UNCHANGED <<outcome, faults>>

\* One batch.  The rows settled before this visit do not change any more.
WalkBatch(w, b) ==
  LET e == Editor(b)
      c == Critic(b)
      review == call[e] = "completed" /\ verdict[b] = "risky"
      next == IF review THEN c ELSE e
  IN
  /\ job[w] = Walk(b)
  /\ \/ /\ OverBudget(next)
        /\ Suspend(w)
        /\ UNCHANGED <<call, lease, stages, outcome, faults>>
     \/ /\ ~OverBudget(next)
        /\ Visit(next)
        /\ CASE call'[next] \notin Settled -> MoveOn(w, b)
             [] call'[next] \in Failed     -> Decide(w, b, {})
             [] OTHER -> Decide(w, b, IF review THEN approves[b]
                                      ELSE IF verdict[b] = "plain"
                                           THEN Members[b] ELSE {})
        /\ UNCHANGED status
  /\ UNCHANGED <<metered, verdict, approves, closing>>

\* Mutant: the worker remembers a batch beyond the last one.
WalkCloseTooFar(w) ==
  /\ job[w] = Walk(N + 1)
  /\ Go(w, Walk(N + 2))
  /\ UNCHANGED <<status, call, lease, metered, verdict, approves, outcome,
                 stages, closing, faults>>

\* Mutant: the run closes after the last batch, decided or not.
WalkCloseAnyway(w) ==
  /\ job[w] = Walk(N + 1)
  /\ status' = IF status = "preparing" THEN "terminal" ELSE status
  /\ closing' = TRUE
  /\ Go(w, Idle)
  /\ UNCHANGED <<call, lease, metered, verdict, approves, outcome, stages,
                 faults>>

\* After the last batch the run closes once every brand has an outcome.
WalkClose(w) ==
  /\ job[w] = Walk(N + 1)
  /\ IF Complete
     THEN /\ status' = IF status = "preparing" THEN "terminal" ELSE status
          /\ closing' = TRUE
     ELSE UNCHANGED <<status, closing>>
  /\ Go(w, Idle)
  /\ UNCHANGED <<call, lease, metered, verdict, approves, outcome, stages,
                 faults>>

-----------------------------------------------------------------------------
(* Stage tasks *)

\* Receive a stage message under a live claim and mark the row sent.
Start(w, c) ==
  /\ job[w] = Idle
  /\ c \in stages /\ lease[c] /\ call[c] = "reserved"
  /\ call' = [call EXCEPT ![c] = "sent"]
  /\ stages' = stages \ {c}
  /\ Go(w, Transport(c))
  /\ UNCHANGED <<status, lease, metered, verdict, approves, outcome, closing,
                 faults>>

\* Record how the call <<stage, batch>> ended, with what a completed editor
\* or critic answer amounts to.
RecordAnswer(c, s) ==
  LET answers(stage) == s = "completed" /\ c[1] = stage IN
  /\ call' = [call EXCEPT ![c] = s]
  /\ IF answers("editor")
     THEN \E v \in Verdicts : verdict' = [verdict EXCEPT ![c[2]] = v]
     ELSE UNCHANGED verdict
  /\ IF answers("critic")
     THEN \E good \in SUBSET Members[c[2]] :
            approves' = [approves EXCEPT ![c[2]] = good]
     ELSE UNCHANGED approves

\* Mutant: a late answer replaces what a reconciler recorded.
AnswerAnyway(w, c) ==
  /\ job[w] = Transport(c)
  /\ \E s \in Settled : RecordAnswer(c, s)
  /\ Go(w, Meter(c))
  /\ UNCHANGED <<status, lease, metered, outcome, stages, closing, faults>>

\* The outcome is recorded, unless a reconciler settled the row meanwhile.
Answer(w, c) ==
  /\ job[w] = Transport(c)
  /\ \/ call[c] = "sent" /\ \E s \in Settled : RecordAnswer(c, s)
     \/ call[c] # "sent" /\ UNCHANGED <<call, verdict, approves>>
  /\ Go(w, Meter(c))
  /\ UNCHANGED <<status, lease, metered, outcome, stages, closing, faults>>

\* Token usage is written by a separate, unconditional update (and not at
\* all after a failure that reported none), then the task reconciles.
Record(w, c) ==
  /\ job[w] = Meter(c)
  /\ metered' \in {metered, metered \cup {c}}
  /\ BeginWalk(w)
  /\ UNCHANGED <<call, lease, verdict, approves, outcome, stages, faults>>

\* finalize_per_brand_run: activation asks for a complete set of outcomes
\* and does not look at the status of the run.
Finalize(w) ==
  /\ job[w] = Idle /\ closing
  /\ closing' = FALSE
  /\ status' = IF Complete THEN "active" ELSE status
  /\ UNCHANGED <<call, lease, metered, verdict, approves, outcome, stages,
                 job, faults>>

-----------------------------------------------------------------------------
(* The environment *)

\* The claim of a row expires.  While a message or a worker still serves the
\* row this is bad luck, and bounded like the other faults.
Served(c) == c \in stages \/ \E w \in Workers : job[w] = Transport(c)

LeaseExpires(c) ==
  /\ lease[c] /\ call[c] \in {"reserved", "sent"}
  /\ IF Served(c) THEN faults < MaxFaults /\ faults' = faults + 1
                  ELSE UNCHANGED faults
  /\ lease' = [lease EXCEPT ![c] = FALSE]
  /\ stages' = stages \ {c}
  /\ UNCHANGED <<status, call, metered, verdict, approves, outcome, closing,
                 job>>

\* The broker hand-off fails, or the broker forgets a message.
Lose == /\ faults < MaxFaults
        /\ \/ /\ \E c \in stages : stages' = stages \ {c}
              /\ UNCHANGED closing
           \/ /\ closing /\ closing' = FALSE
              /\ UNCHANGED stages
        /\ faults' = faults + 1
        /\ UNCHANGED <<status, call, lease, metered, verdict, approves,
                       outcome, job>>

\* A worker process dies between two transactions.
Crash(w) ==
  /\ job[w] # Idle /\ faults < MaxFaults
  /\ Go(w, Idle)
  /\ faults' = faults + 1
  /\ UNCHANGED <<status, call, lease, metered, verdict, approves, outcome,
                 stages, closing>>

Step(w) == \/ WritePlain(w) \/ FinishBuilding(w) \/ WalkRank(w)
           \/ \E b \in Batches : WalkBatch(w, b)
           \/ WalkClose(w)
           \/ \E c \in Calls : Answer(w, c) \/ Record(w, c)

Next == \/ \E w \in Workers : \/ Step(w) \/ Envelope(w) \/ Finalize(w)
                              \/ Crash(w)
                              \/ \E c \in Calls : Start(w, c)
        \/ \E c \in Calls : LeaseExpires(c)
        \/ Lose

Spec == Init /\ [][Next]_vars

\* Running tasks make progress, messages the broker holds are delivered,
\* leases run out, and envelopes keep arriving: under demand shaping, as long as
\* a brand of the window is asked for.
Fairness ==
  /\ \A w \in Workers : WF_vars(Step(w))
  /\ WF_vars(\E w \in Workers : Envelope(w))
  /\ SF_vars(\E w \in Workers : Finalize(w))
  /\ \A c \in Calls : /\ SF_vars(\E w \in Workers : Start(w, c))
                      /\ WF_vars(LeaseExpires(c))

FairSpec == Spec /\ Fairness

-----------------------------------------------------------------------------
(* Properties *)

\* By how much a call may turn out dearer than its estimate.
Excess == IF Usage > Estimate THEN Usage - Estimate ELSE 0

\* "Call, token, and dollar caps stop scheduling before the next transport":
\* whatever reconcilers reserve at the same time, and whenever the usage of
\* a settled call becomes known, the run stays within its caps; tokens pass
\* theirs only by what completed calls used beyond their estimate.
WithinBudget == /\ Cardinality(Rows) <= CallCap
                /\ Spend <= TokenCap + Excess * Cardinality(Exact)

\* A brand is decided by the answers on record and by nothing else: its text
\* is approved only after an editor answer that needs no review or a critic
\* that approves it, it is held only for a call that failed or an answer that
\* rejects it, and no later answer can contradict the published outcome.
DecidedByAnswers == \A b \in Batches : \A k \in Members[b] :
  LET editor == call[Editor(b)]
      critic == call[Critic(b)] IN
  /\ outcome[k] = "approved" =>
       /\ editor = "completed"
       /\ \/ verdict[b] = "plain"
          \/ verdict[b] = "risky" /\ critic = "completed" /\ k \in approves[b]
  /\ outcome[k] = "held" =>
       \/ editor \in Failed
       \/ editor = "completed" /\ verdict[b] = "unusable"
       \/ /\ editor = "completed" /\ verdict[b] = "risky"
          /\ \/ critic \in Failed
             \/ critic = "completed" /\ k \notin approves[b]

\* A run that its budget stopped is not published behind its back.
SuspendedForGood == [][status = "suspended" => status' = "suspended"]_vars

\* However walks, answers and messages come: a brand gets one outcome, of its
\* kind, a run is closed when its brands are decided, and published only then
\* and once, whether it was suspended or not.
Promise == INSTANCE RunPromise

KeepsPromise == Promise!Spec

\* Every run is closed: finished and published, or suspended.
RunCloses == status = "preparing" ~> status \in {"suspended", "active"}

=============================================================================
