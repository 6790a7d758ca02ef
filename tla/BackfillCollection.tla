-------------------------- MODULE BackfillCollection --------------------------
(***************************************************************************)
(* The collection of a historical window (execute_job on an x_backfill     *)
(* job, fetching serially): executors claim the job, walk its scopes page  *)
(* by page, and compete for the writer lock with live harvests.            *)
(*                                                                         *)
(* A claim makes a new CollectionRun that copies the scopes of the run it  *)
(* continues; last_attempt is therefore the newest run.  A page is paid    *)
(* for in three steps: a request is reserved in a transaction, HTTP        *)
(* happens outside of any, and the posts are stored with the cursor in a   *)
(* second transaction.  Both are fenced by the claim.  The pages of a      *)
(* scope are numbered; a cursor counts the pages it has passed.            *)
(*                                                                         *)
(* A run's lease is modelled by whether it has run out.  The other limits  *)
(* of an invocation (time, items, bytes) end it at any time.               *)
(***************************************************************************)
EXTENDS WriterLock, FiniteSets

CONSTANTS NumScopes,     \* queries of the window
          Pages,         \* how many pages the provider has for each
          MaxRuns,       \* runs altogether (a bound)
          MaxRequests,   \* maximum_api_requests, over all runs
          RunRequests,   \* budgets["requests"], of one run
          MaxHindrances  \* deaths, errors, expiries, pauses (a bound)

ASSUME CollectionAssumption ==
  /\ NumScopes \in Nat \ {0} /\ Pages \in [1..NumScopes -> Nat \ {0}]
  /\ MaxRuns \in Nat /\ MaxRequests \in Nat /\ RunRequests \in Nat
  /\ MaxHindrances \in Nat

Scopes == 1..NumScopes

Page == {p \in Scopes \X (Nat \ {0}) : p[2] <= Pages[p[1]]}

VARIABLES job,      \* the CollectionJob
          runs,     \* its CollectionRuns with their scopes, oldest first
          stored,   \* pages of each scope whose posts are stored
          fetched,  \* history: the pages paid for, in order
          exec,     \* what each executor is doing
          left      \* hindrances left

jobVars == <<job, runs, stored, fetched, exec, left>>
vars == <<lockVars, jobVars>>

-----------------------------------------------------------------------------
(* Types *)

Job == [state : {"ready", "paused", "cancelled", "completed"},
        active : 0..MaxRuns,     \* active_run, or 0
        cooldown : BOOLEAN]      \* next_retry_at lies ahead

Run == [status : {"running", "aborted", "partial", "failed", "success"},
        live : BOOLEAN,          \* the lease has not run out
        of : 0..MaxRuns,         \* continuation_of, or 0
        requests : 0..RunRequests,
        imported : BOOLEAN,      \* it has scopes
        cursor : {c \in [Scopes -> Nat] : \A s \in Scopes : c[s] <= Pages[s]},
        blocked : SUBSET Scopes]

Exec == [pc : {"idle", "probed", "claimed", "choosing", "locked", "reserved",
               "answered", "release", "finishing"},
         last : 0..MaxRuns,      \* last_attempt, as read before the claim
         run : 0..MaxRuns, scope : Scopes,
         deferred : SUBSET Scopes,
         error : BOOLEAN, cool : BOOLEAN, stop : BOOLEAN]

TypeOK == /\ LockTypeOK
          /\ job \in Job
          /\ runs \in Seq(Run) /\ Len(runs) <= MaxRuns
          /\ \A s \in Scopes : stored[s] \subseteq 1..Pages[s]
          /\ fetched \in Seq(Page)
          /\ exec \in [Backfillers -> Exec]
          /\ left \in 0..MaxHindrances

Idle == [pc |-> "idle", last |-> 0, run |-> 0, scope |-> 1, deferred |-> {},
         error |-> FALSE, cool |-> FALSE, stop |-> FALSE]

Init == /\ LockInit
        /\ job = [state |-> "ready", active |-> 0, cooldown |-> FALSE]
        /\ runs = <<>>
        /\ stored = [s \in Scopes |-> {}]
        /\ fetched = <<>>
        /\ exec = [w \in Backfillers |-> Idle]
        /\ left = MaxHindrances

-----------------------------------------------------------------------------
(* Conditions *)

At(w, pc) == exec[w].pc = pc

Mine(w) == runs[exec[w].run]

\* fenced_run
Fenced(w) == /\ job.state = "ready" /\ job.active = exec[w].run
             /\ Mine(w).status = "running" /\ Mine(w).live

\* The requests accounted for by all runs, those of a run numbered.
Requests == {q \in (DOMAIN runs) \X (1..RunRequests) :
               q[2] <= runs[q[1]].requests}

Requested == Cardinality(Requests)

Allowance(w) == Requested < MaxRequests /\ Mine(w).requests < RunRequests

Complete(r, s) == runs[r].cursor[s] = Pages[s]

\* Mutant: scopes that were walked to the end are not left out.
OpenOrComplete(w) == Scopes \ (Mine(w).blocked \cup exec[w].deferred)

Open(w) == {s \in Scopes \ (Mine(w).blocked \cup exec[w].deferred) :
              ~Complete(exec[w].run, s)}

NextPage(w) == Mine(w).cursor[exec[w].scope] + 1

Move(w, e)  == exec' = [exec EXCEPT ![w] = e]
Go(w, pc)   == Move(w, [exec[w] EXCEPT !.pc = pc])
Save(w, r)  == runs' = [runs EXCEPT ![exec[w].run] = r]

Hinder == left > 0 /\ left' = left - 1

UnlockIfHeld(w) == IF owner = w THEN HandOver ELSE UNCHANGED <<owner, queue>>

-----------------------------------------------------------------------------
(* Claiming the job *)

\* The job is read, and the lock probed: taken and returned at once.
Probe(w) ==
  /\ At(w, "idle") /\ Len(runs) < MaxRuns
  /\ job.state # "completed" /\ ~job.cooldown /\ Available
  /\ Move(w, [exec[w] EXCEPT !.pc = "probed", !.last = Len(runs)])
  /\ UNCHANGED <<lockVars, job, runs, stored, fetched, left>>

Fresh == [status |-> "running", live |-> TRUE, of |-> 0, requests |-> 0,
          imported |-> FALSE, cursor |-> [s \in Scopes |-> 0], blocked |-> {}]

\* copy_continuation_scopes
Continuing(r) ==
  IF r = 0 THEN Fresh
  ELSE [Fresh EXCEPT !.of = r, !.imported = runs[r].imported,
                     !.cursor = runs[r].cursor, !.blocked = runs[r].blocked]

\* Mutant: a run that is still leased is taken over.
ClaimableAlways(w) ==
  /\ job.state = "ready" /\ ~job.cooldown
  /\ exec[w].last # 0 => exec[w].last = Len(runs)

\* What claim_job requires; that the last attempt is the one continued is only
\* required of a claim that continues one.
Claimable(w) ==
  /\ job.state = "ready" /\ ~job.cooldown
  /\ job.active # 0 => ~runs[job.active].live
  /\ exec[w].last # 0 => exec[w].last = Len(runs)

Aborted(r) == IF r = 0 THEN runs ELSE
                [runs EXCEPT ![r] = [runs[r] EXCEPT !.status = "aborted"]]

claim_job(w) ==
  /\ At(w, "probed") /\ Len(runs) < MaxRuns
  /\ IF Claimable(w)
     THEN /\ runs' = Append(Aborted(job.active), Continuing(exec[w].last))
          /\ job' = [job EXCEPT !.active = Len(runs) + 1]
          /\ Move(w, [exec[w] EXCEPT !.pc = "claimed", !.run = Len(runs) + 1])
     ELSE Move(w, Idle) /\ UNCHANGED <<runs, job>>
  /\ UNCHANGED <<lockVars, stored, fetched, left>>

\* import_scope_checkpoints of a run without scopes, and retry_blocked.
Import(w) ==
  /\ At(w, "claimed") /\ Fenced(w)
  /\ \E retry \in BOOLEAN :
       Save(w, [Mine(w) EXCEPT !.imported = TRUE,
                 !.blocked = IF retry THEN {} ELSE Mine(w).blocked])
  /\ Go(w, "choosing")
  /\ UNCHANGED <<lockVars, job, stored, fetched, left>>

-----------------------------------------------------------------------------
(* A page *)

\* serial_scopes, then the lock.
Choose(w) ==
  /\ At(w, "choosing") /\ Allowance(w) /\ Available
  /\ owner' = w
  /\ \E first \in Open(w) :
       /\ \A s \in Open(w) : first <= s
       /\ Move(w, [exec[w] EXCEPT !.pc = "locked", !.scope = first])
  /\ UNCHANGED <<queue, live, ticks, ahead, job, runs, stored, fetched, left>>

\* No scope is left to walk, the lock is taken, or a limit is reached.
Stop(w) ==
  /\ At(w, "choosing")
  /\ Go(w, "finishing")
  /\ UNCHANGED <<lockVars, job, runs, stored, fetched, left>>

\* The runner turns every exception of the fetch into a failed call, a stale
\* claim too: the run goes on with the next scope.
Skip(w) == Move(w, [exec[w] EXCEPT !.pc = "release", !.error = TRUE,
                      !.deferred = exec[w].deferred \cup {exec[w].scope}])

MayReserve(w) == Fenced(w) /\ Allowance(w) /\ ~YieldRequested

\* Mutant: the request is sent before it is accounted for.
ReserveUncounted(w) ==
  /\ At(w, "locked")
  /\ IF MayReserve(w) THEN Go(w, "reserved") ELSE Skip(w)
  /\ UNCHANGED <<lockVars, job, runs, stored, fetched, left>>

\* claim_api_request: durable before HTTP, refused while a live harvest queues.
Reserve(w) ==
  /\ At(w, "locked")
  /\ IF MayReserve(w)
     THEN /\ Save(w, [Mine(w) EXCEPT !.requests = Mine(w).requests + 1])
          /\ Go(w, "reserved")
     ELSE Skip(w) /\ UNCHANGED runs
  /\ UNCHANGED <<lockVars, job, stored, fetched, left>>

\* The provider's page.  Nothing fences the request itself.
Fetch(w) ==
  /\ At(w, "reserved")
  /\ fetched' = Append(fetched, <<exec[w].scope, NextPage(w)>>)
  /\ ahead' = [h \in Lives |-> IF live[h] = "waiting" THEN ahead[h] + 1
                                                      ELSE ahead[h]]
  /\ Go(w, "answered")
  /\ UNCHANGED <<owner, queue, live, ticks, job, runs, stored, left>>

Store(w) == stored' = [stored EXCEPT ![exec[w].scope] = @ \cup {NextPage(w)}]

\* Mutant: the cursor is saved without the posts.
CheckpointCursorOnly(w) ==
  /\ At(w, "answered") /\ Fenced(w)
  /\ Save(w, [Mine(w) EXCEPT !.cursor[exec[w].scope] = NextPage(w)])
  /\ Go(w, "release")
  /\ UNCHANGED <<lockVars, job, stored, fetched, left>>

\* PageCheckpoint.persist: the posts and the cursor in one transaction.
Checkpoint(w) ==
  /\ At(w, "answered") /\ Fenced(w)
  /\ Save(w, [Mine(w) EXCEPT !.cursor[exec[w].scope] = NextPage(w)])
  /\ Store(w)
  /\ Go(w, "release")
  /\ UNCHANGED <<lockVars, job, fetched, left>>

\* A reply whose cursor cannot be trusted: its posts, if it has any, are
\* stored, the scope is set aside for the operator.
BlockPage(w) ==
  /\ At(w, "answered") /\ Fenced(w) /\ Hinder
  /\ Save(w, [Mine(w) EXCEPT !.blocked = Mine(w).blocked \cup {exec[w].scope}])
  /\ Store(w) \/ UNCHANGED stored
  /\ Go(w, "release")
  /\ UNCHANGED <<lockVars, job, fetched>>

\* No usable reply, or the posts cannot be stored.
PageFails(w) ==
  /\ At(w, "answered") /\ Hinder
  /\ Skip(w)
  /\ UNCHANGED <<lockVars, job, runs, stored, fetched>>

\* A status that concerns every query (throttled, unauthorized) ends the run.
ProviderRefuses(w) ==
  /\ At(w, "answered") /\ Fenced(w) /\ Hinder
  /\ \E cool \in BOOLEAN :
       Move(w, [exec[w] EXCEPT !.pc = "release", !.error = TRUE,
                 !.stop = TRUE, !.cool = cool])
  /\ UNCHANGED <<lockVars, job, runs, stored, fetched>>

\* record_api_response finds the claim gone: one more failed call.
Unrecorded(w) ==
  /\ At(w, "answered") /\ ~Fenced(w)
  /\ Skip(w)
  /\ UNCHANGED <<lockVars, job, runs, stored, fetched, left>>

Release(w) ==
  /\ At(w, "release")
  /\ HandOver
  /\ Go(w, IF exec[w].stop THEN "finishing" ELSE "choosing")
  /\ UNCHANGED <<live, ticks, ahead, job, runs, stored, fetched, left>>

-----------------------------------------------------------------------------
(* The end of a run *)

\* Mutant: a scope that is set aside counts as walked.
DrainedButBlocked(r) ==
  runs[r].imported /\ \A s \in Scopes : Complete(r, s) \/ s \in runs[r].blocked

\* collection_drained
Drained(r) == runs[r].imported /\ \A s \in Scopes : Complete(r, s)

\* _report and finish_run
Finish(w) ==
  LET r == exec[w].run
      status == IF exec[w].error THEN "failed"
                ELSE IF Drained(r) THEN "success" ELSE "partial"
  IN /\ At(w, "finishing") /\ Fenced(w)
     /\ Save(w, [Mine(w) EXCEPT !.status = status])
     /\ job' = [state |-> IF status = "success" THEN "completed" ELSE job.state,
                active |-> 0, cooldown |-> exec[w].cool]
     /\ Move(w, Idle)
     /\ UNCHANGED <<lockVars, stored, fetched, left>>

\* StaleClaim at a fence outside the fetch: the executor gives up and changes
\* nothing.
Stale(w) ==
  /\ exec[w].pc \in {"claimed", "answered", "finishing"}
  /\ ~Fenced(w)
  /\ UnlockIfHeld(w)
  /\ Move(w, Idle)
  /\ UNCHANGED <<live, ticks, ahead, job, runs, stored, fetched, left>>

\* The executor dies; the lock goes with its session, the lease stays.
Die(w) ==
  /\ ~At(w, "idle") /\ Hinder
  /\ UnlockIfHeld(w)
  /\ Move(w, Idle)
  /\ UNCHANGED <<live, ticks, ahead, job, runs, stored, fetched>>

-----------------------------------------------------------------------------
(* The clock and the operator *)

Orphaned(r) == \A w \in Backfillers : At(w, "idle") \/ exec[w].run # r

\* The lease runs out, of a dead executor or of a slow one.
ExpireLease ==
  /\ job.active # 0 /\ runs[job.active].live
  /\ IF Orphaned(job.active) THEN UNCHANGED left ELSE Hinder
  /\ runs' = [runs EXCEPT ![job.active] = [runs[job.active] EXCEPT !.live = FALSE]]
  /\ UNCHANGED <<lockVars, job, stored, fetched, exec>>

CooldownEnds ==
  /\ job.cooldown
  /\ job' = [job EXCEPT !.cooldown = FALSE]
  /\ UNCHANGED <<lockVars, runs, stored, fetched, exec, left>>

\* set_job_state
SetJobState(state) ==
  /\ job.state \notin {"completed", "cancelled", state}
  /\ IF state = "ready"
     THEN /\ job' = [job EXCEPT !.state = "ready"]
          /\ UNCHANGED <<runs, left>>
     ELSE /\ Hinder
          /\ job' = [state |-> state, active |-> 0, cooldown |-> FALSE]
          /\ runs' = IF job.active = 0 THEN runs
                     ELSE [runs EXCEPT ![job.active] = [runs[job.active] EXCEPT
                                         !.status = "aborted", !.live = FALSE]]
  /\ UNCHANGED <<lockVars, stored, fetched, exec>>

-----------------------------------------------------------------------------
(* Specification *)

Execute(w) ==
  \/ Probe(w) \/ claim_job(w) \/ Import(w)
  \/ Choose(w) \/ Stop(w) \/ Reserve(w) \/ Fetch(w)
  \/ Checkpoint(w) \/ BlockPage(w) \/ PageFails(w) \/ ProviderRefuses(w)
  \/ Unrecorded(w) \/ Release(w)
  \/ Finish(w) \/ Stale(w) \/ Die(w)

Next ==
  \/ \E w \in Backfillers : Execute(w)
  \/ LiveNext /\ UNCHANGED jobVars
  \/ ExpireLease \/ CooldownEnds
  \/ \E state \in {"ready", "paused", "cancelled"} : SetJobState(state)

Spec == Init /\ [][Next]_vars

-----------------------------------------------------------------------------
(* Properties *)

\* "continuation must use the preceding attempt" (claim_job): every run but the
\* first continues the run before it.
Chained == \A r \in DOMAIN runs : runs[r].of = r - 1

\* Cursors and posts agree through takeovers, stale executors and failed pages:
\* no cursor ever passes a page whose posts are not stored, and unless a first
\* claim came late the newest run's cursors know of every stored page, but the
\* one a blocked scope stopped at.
StoredUpToCursor ==
  /\ \A r \in DOMAIN runs, s \in Scopes :
       1..runs[r].cursor[s] \subseteq stored[s]
  /\ Chained /\ runs # <<>> =>
       \A s \in Scopes :
         LET known == runs[Len(runs)].cursor[s]
             stopped == \E r \in DOMAIN runs : s \in runs[r].blocked
         IN stored[s] \subseteq 1..(IF stopped THEN known + 1 ELSE known)

\* The provider is asked no more often than the runs account for, and the
\* allowance of the job holds over all its runs, whoever died or was replaced
\* between the reservation and the reply.
SpendWithinAllowance == Len(fetched) <= Requested /\ Requested <= MaxRequests

PaidPages == {fetched[i] : i \in DOMAIN fetched}

Repeats == Len(fetched) - Cardinality(PaidPages)

\* Each page that is paid for again was lost to a hindrance of its own (a death,
\* an expired lease, a pause, a bad reply): an orderly end of a run, a yield to
\* a live harvest or a takeover costs nothing.
PaidAgainOnlyAfterLoss == Chained => Repeats <= MaxHindrances - left

\* A completed job has the posts of every page of every scope.
CompletedIsDrained ==
  job.state = "completed" => \A s \in Scopes : stored[s] = 1..Pages[s]

\* "PostgreSQL's queue prevents the next background page from barging ahead"
\* (backfill_yield_requested): once a live harvest waits, at most the request
\* already reserved goes out before it has the lock.
LiveWaitsForOnePage == \A h \in Lives : live[h] = "waiting" => ahead[h] <= 1

=============================================================================
