---------------------------- MODULE ProviderCall ----------------------------
(***************************************************************************)
(* One row of the provider-call ledger of the per-brand headline graph     *)
(* (TrendNarrativeProviderCall) and the worker processes that execute it.  *)
(*                                                                         *)
(* A reconciler hands the row off: it leases it under a growing fence and  *)
(* enqueues a stage message that carries the fence.  A worker that         *)
(* receives the message marks the row `sent`, contacts the provider and    *)
(* records the answer, each in a transaction of its own.  Messages may be  *)
(* lost or delivered again while a first delivery is still being worked    *)
(* on, a worker may die between any two transactions, and both the         *)
(* reconciler and the worker act on a time they read earlier.              *)
(*                                                                         *)
(* Only a run in preparation is reconciled, so the row depends on its run: *)
(* another call of it may be refused by the budget, which suspends it for  *)
(* good.  And with demand shaping harvests pass a window by for which no   *)
(* brand is wanted.                                                        *)
(*                                                                         *)
(* claim_owner is determined by the fence on every production path         *)
(* (_claim_and_enqueue builds it from the row and the fence), so the       *)
(* <owner, fence> pair the code compares is modelled by the fence.         *)
(***************************************************************************)
EXTENDS Naturals, FiniteSets

CONSTANTS Workers,   \* processes of the headline queue
          Lease,     \* lease_seconds, in ticks
          MaxLag,    \* how old a reconciler's `now` may be when it is used
          Horizon    \* last tick at which the row is handed off (a bound)

ASSUME ConstantsAssumption ==
  /\ Lease \in Nat \ {0}
  /\ MaxLag \in Nat
  /\ Horizon \in Nat

VARIABLES now,      \* database clock
          row,      \* the ledger row
          run,      \* what decides whether the row is reconciled
          queue,    \* fences of the stage messages not yet acknowledged
          job,      \* what each worker is doing
          contacts  \* history: how often the provider was contacted

vars == <<now, row, run, queue, job, contacts>>

-----------------------------------------------------------------------------
(* Types *)

Answered == {"completed", "failed"}
Settled  == Answered \cup {"ambiguous"}
States   == {"reserved", "sent"} \cup Settled

Row == [state : States, fence : Nat, expires : Nat]   \* expires 0 is NULL

\* walking: a walk that saw the run in preparation is still under way;
\* wanted: harvests reach the window (eligible_demand_exists)
Run == [status : {"preparing", "suspended"}, walking : BOOLEAN, wanted : BOOLEAN]

Idle == [pc |-> "idle", fence |-> 0, at |-> 0, result |-> "none"]
Job  == [pc : {"idle", "claimed", "sending", "answered"},
         fence : Nat, at : Nat, result : Settled \cup {"none"}]

TypeOK == /\ now \in Nat
          /\ row \in Row
          /\ run \in Run
          /\ queue \in SUBSET Nat
          /\ job \in [Workers -> Job]
          /\ contacts \in Nat

-----------------------------------------------------------------------------
(* Ownership tests of the lifecycle module *)

\* Mutant: a `sent` row whose lease ran out is claimed for another try.
ClaimableAlsoSent(t) == row.state \in {"reserved", "sent"} /\ row.expires <= t

\* A reservation nobody holds a live lease on.
Claimable(t) == row.state = "reserved" /\ row.expires <= t

\* _owns_provider_call
Owns(f, t) == row.state = "reserved" /\ row.fence = f /\ row.expires > t

\* Mutant: a late answer is recorded although the row was settled.
MaySettleAgain(f) == row.fence = f

\* The test of complete_, fail_ and mark_..._ambiguous: no look at the lease.
MaySettle(f) == row.state = "sent" /\ row.fence = f

\* _reconcile_run goes on: it looks at the status when it begins, not again.
Reconciled == run.status = "preparing" \/ run.walking

\* Times a caller may have read a moment ago.
Recent == {t \in 0..now : now <= t + MaxLag}

-----------------------------------------------------------------------------
Init == /\ now = 0
        /\ row = [state |-> "reserved", fence |-> 0, expires |-> 0]
        /\ \E wanted \in BOOLEAN :
             run = [status |-> "preparing", walking |-> FALSE, wanted |-> wanted]
        /\ queue = {}
        /\ job = [w \in Workers |-> Idle]
        /\ contacts = 0

Tick == /\ now < Horizon + Lease
        /\ now' = now + 1
        /\ UNCHANGED <<row, run, queue, job, contacts>>

\* A reconciler leases the reservation; the enqueue that follows the commit
\* is best effort, so the message may never reach the broker.
HandOff == \E t \in Recent :
  /\ now <= Horizon
  /\ Reconciled /\ Claimable(t)
  /\ row' = [row EXCEPT !.fence = @ + 1, !.expires = t + Lease]
  /\ queue' \in {queue, queue \cup {row.fence + 1}}
  /\ UNCHANGED <<now, run, job, contacts>>

\* A walk is refused another call of the run, or the builder its plan.  A walk
\* that began before may be under way in another worker.
Suspend ==
  /\ run.status = "preparing"
  /\ \E walking \in BOOLEAN :
       run' = [run EXCEPT !.status = "suspended", !.walking = walking]
  /\ UNCHANGED <<now, row, queue, job, contacts>>

WalkEnds ==
  /\ run.walking
  /\ run' = [run EXCEPT !.walking = FALSE]
  /\ UNCHANGED <<now, row, queue, job, contacts>>

\* Demand for the window appears, or all that was eligible is gone.
DemandChanges ==
  /\ run' = [run EXCEPT !.wanted = ~@]
  /\ UNCHANGED <<now, row, queue, job, contacts>>

\* Mutant: the comparison of the lease is turned round.
ExpireSentTooEarly == \E t \in Recent :
  /\ Reconciled /\ row.state = "sent" /\ row.expires > t
  /\ row' = [row EXCEPT !.state = "ambiguous"]
  /\ UNCHANGED <<now, run, queue, job, contacts>>

\* Mutant: the row leaves the states of the model field.
ExpireSentUnlisted == \E t \in Recent :
  /\ Reconciled /\ row.state = "sent" /\ row.expires <= t
  /\ row' = [row EXCEPT !.state = "expired"]
  /\ UNCHANGED <<now, run, queue, job, contacts>>

\* A reconciler gives up on a `sent` row whose lease ran out.
ExpireSent == \E t \in Recent :
  /\ Reconciled /\ row.state = "sent" /\ row.expires <= t
  /\ row' = [row EXCEPT !.state = "ambiguous"]
  /\ UNCHANGED <<now, run, queue, job, contacts>>

\* Finishing a task acknowledges its message (acks_late).
Done(w) == /\ queue' = queue \ {job[w].fence}
           /\ job' = [job EXCEPT ![w] = Idle]

\* execute_per_brand_stage reads the time and, without a lock, the row.
\* The message stays queued: a second delivery is possible.
Receive(w, f) ==
  /\ job[w].pc = "idle" /\ f \in queue
  /\ IF row.fence = f /\ row.expires >= now
     THEN /\ job' = [job EXCEPT ![w] = [pc |-> "claimed", fence |-> f,
                                        at |-> now, result |-> "none"]]
          /\ UNCHANGED queue
     ELSE /\ queue' = queue \ {f}
          /\ UNCHANGED job
  /\ UNCHANGED <<now, row, run, contacts>>

\* The durable `sent` mark, taken with the time read at the start.
MarkSent(w) ==
  /\ job[w].pc = "claimed"
  /\ IF Owns(job[w].fence, job[w].at)
     THEN /\ row' = [row EXCEPT !.state = "sent"]
          /\ job' = [job EXCEPT ![w].pc = "sending"]
          /\ UNCHANGED queue
     ELSE Done(w) /\ UNCHANGED row
  /\ UNCHANGED <<now, run, contacts>>

\* The one outbound request.  Only an error before or during the exchange
\* (transport_completed = FALSE) is "ambiguous", and such an error may
\* precede the contact.
Transport(w) ==
  /\ job[w].pc = "sending"
  /\ \E r \in Settled, contacted \in {0, 1} :
       /\ r \in Answered => contacted = 1
       /\ contacts' = contacts + contacted
       /\ job' = [job EXCEPT ![w] = [@ EXCEPT !.pc = "answered",
                                             !.result = r]]
  /\ UNCHANGED <<now, row, run, queue>>

\* Persist the outcome under the fence; a late answer changes nothing.
Record(w) ==
  /\ job[w].pc = "answered"
  /\ row' = IF MaySettle(job[w].fence)
            THEN [row EXCEPT !.state = job[w].result]
            ELSE row
  /\ Done(w)
  /\ UNCHANGED <<now, run, contacts>>

\* A worker process dies; reject_on_worker_lost leaves the message queued.
Crash(w) ==
  /\ job[w].pc # "idle"
  /\ job' = [job EXCEPT ![w] = Idle]
  /\ UNCHANGED <<now, row, run, queue, contacts>>

\* The broker forgets a message.
Lose == \E f \in queue :
  /\ queue' = queue \ {f}
  /\ UNCHANGED <<now, row, run, job, contacts>>

Next == \/ Tick \/ HandOff \/ ExpireSent \/ Lose
        \/ Suspend \/ WalkEnds \/ DemandChanges
        \/ \E w \in Workers : \/ \E f \in queue : Receive(w, f)
                              \/ MarkSent(w) \/ Transport(w)
                              \/ Record(w) \/ Crash(w)

\* Time passes, and every harvest cycle for whose window a brand is wanted
\* reconciles the run, as long as it is in preparation.
Fairness == /\ WF_vars(Tick)
            /\ WF_vars(run.wanted /\ run.status = "preparing" /\ ExpireSent)

Spec == Init /\ [][Next]_vars
FairSpec == Spec /\ Fairness

-----------------------------------------------------------------------------
(* Properties *)

\* execute_trend_narrative_stage is documented as "one provider-call ledger
\* row, hence at most one provider transport".  It has to hold although the
\* message is redelivered, the lease expires under a slow worker, and the
\* times compared are stale.
AtMostOneTransport == contacts <= 1

\* Two deliveries of the row never hold the right to transmit together, and
\* whoever holds it carries the fence of the row: the lease check of Receive
\* alone (`>=` on a row read without a lock) does not give that.
Sending == {w \in Workers : job[w].pc \in {"sending", "answered"}}
OneSender ==
  /\ \A v, w \in Sending : v = w
  /\ \A w \in Sending : job[w].fence = row.fence

\* A row `sent` by a worker that died, hung or lost its answer is settled by
\* the reconcilers once its lease runs out, unless its run is suspended on
\* account of another call, or no brand of the window is wanted any more.
SentIsSettled ==
  row.state = "sent" ~>
    row.state \in Settled \/ run.status = "suspended" \/ ~run.wanted

\* "An expired lease after `sent` is durably terminalized as `ambiguous`"
\* (docs/reference/headline-trend-narratives.md).  Not so in a suspended run.
ExpiredIsTerminalized ==
  row.state = "sent" ~> row.state \in Settled \/ ~run.wanted

\* The ledger row keeps the promise of AtMostOnceCall: in particular an
\* ambiguous row is not reopened or completed by a late answer, and
\* `completed` and `failed` are never recorded of a provider not contacted.
Promise == INSTANCE AtMostOnceCall
             WITH outcome <- IF row.state = "reserved" THEN "unsent"
                             ELSE row.state
KeepsPromise == Promise!Spec

=============================================================================
