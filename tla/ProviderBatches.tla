--------------------------- MODULE ProviderBatches ---------------------------
(***************************************************************************)
(* The paid enrichment of one backfill campaign (a CollectionJob): groups  *)
(* of provider requests (ProviderBatch), the physical calls reserved in    *)
(* them (OriginalContentCall), the controllers that advance the groups,    *)
(* and the operator's pause and resume.                                    *)
(*                                                                         *)
(* A group travels by one of two transports.  A "batch" group is uploaded, *)
(* submitted once and polled until the provider has finished it.  A        *)
(* "direct" group is sent in waves of ordinary requests.  Every write of a *)
(* controller is a transaction of its own, fenced by its claim of the      *)
(* group; HTTP happens between them.                                       *)
(*                                                                         *)
(* Every claim has a fresh owner and a higher fence, so "my claim is the   *)
(* current one and has not expired" is holder[g] = w: a claim that was     *)
(* released, revoked or ran out is NoOne's for good.  Polling delays       *)
(* (next_poll_at) are left out, as are the spending limits other than the  *)
(* attempts of a request; a refused control request is a hindrance.        *)
(* All requests are for one model.                                         *)
(***************************************************************************)
EXTENDS Naturals, FiniteSets

CONSTANTS Workers,       \* controller processes
          NoOne,         \* holder of a group without a live claim
          Requests,      \* logical requests (request_hash)
          Transports,    \* transports controllers register groups with
          MaxGroups,     \* groups of the campaign (a bound)
          Slice,         \* groups that a pass of execute_enrichment advances,
                         \* 2 in the code
          MaxAttempts,   \* policy.max_attempts
          Concurrency,   \* direct_concurrency
          Deferring,     \* defer_failures
          MaxHindrances  \* deaths, errors, expiries, pauses (a bound)

ASSUME ConstantsAssumption ==
  /\ NoOne \notin Workers
  /\ Transports \subseteq {"batch", "direct"}
  /\ MaxGroups \in Nat \ {0} /\ MaxAttempts \in Nat \ {0}
  /\ Slice \in Nat \ {0} /\ Concurrency \in Nat \ {0}
  /\ Deferring \in BOOLEAN
  /\ MaxHindrances \in Nat

Groups == 1..MaxGroups    \* in the order of created_at

VARIABLES ctl,       \* the campaign: paused by the operator, past its deadline
          group,     \* state and transport of each ProviderBatch
          holder,    \* whose claim on the group is live
          call,      \* state of each OriginalContentCall
          provider,  \* what the provider knows of a submitted group
          contacts,  \* history: how often the provider got the request
          job,       \* what each controller is doing
          left       \* hindrances left

vars == <<ctl, group, holder, call, provider, contacts, job, left>>

-----------------------------------------------------------------------------
(* Types *)

Outstanding == {"uploading", "uploaded", "submitting", "waiting", "ambiguous",
                "importing"}
ACTIVE_STATES == Outstanding \cup {"registered"}

Group == [state : ACTIVE_STATES \cup {"absent", "completed", "failed"},
          transport : {"batch", "direct"}]

\* spoiled: completed, the reply rejected later (import_state stale or error);
\* closed: ambiguous, written off by the operator (import_state error)
CallState == {"none", "reserved", "sent", "ambiguous", "closed", "completed",
              "spoiled", "failed"}

Provider == [status : {"none", "coming", "running", "done"},
             good : SUBSET Requests]

Job == [pc : {"idle", "picked", "claimed", "uploading", "submit", "awaiting",
              "sending", "draining", "leaving"},
        g : Groups, todo : SUBSET Requests, out : SUBSET Requests,
        throttled : BOOLEAN, again : BOOLEAN]

TypeOK == /\ ctl \in [paused : BOOLEAN, expired : BOOLEAN]
          /\ group \in [Groups -> Group]
          /\ holder \in [Groups -> Workers \cup {NoOne}]
          /\ call \in [Groups -> [Requests -> CallState]]
          /\ provider \in [Groups -> Provider]
          /\ contacts \in [Groups -> [Requests -> Nat]]
          /\ job \in [Workers -> Job]
          /\ left \in 0..MaxHindrances

Idle == [pc |-> "idle", g |-> 1, todo |-> {}, out |-> {}, throttled |-> FALSE,
         again |-> FALSE]

Init == /\ ctl = [paused |-> FALSE, expired |-> FALSE]
        /\ group = [g \in Groups |-> [state |-> "absent", transport |-> "direct"]]
        /\ holder = [g \in Groups |-> NoOne]
        /\ call = [g \in Groups |-> [r \in Requests |-> "none"]]
        /\ provider = [g \in Groups |-> [status |-> "none", good |-> {}]]
        /\ contacts = [g \in Groups |-> [r \in Requests |-> 0]]
        /\ job = [w \in Workers |-> Idle]
        /\ left = MaxHindrances

-----------------------------------------------------------------------------
(* Conditions of the queries *)

Calls(g, states) == {r \in Requests : call[g][r] \in states}

Active(g) == group[g].state \in ACTIVE_STATES

\* fenced_batch
Fenced(w) == holder[job[w].g] = w

\* What for_start adds to the fence: admission and the deadline.
MayStart == ~ctl.paused /\ ~ctl.expired

SentOutstanding == \E g \in Groups : Calls(g, {"sent"}) # {}

NativeOutstanding ==
  \E g \in Groups : group[g].transport = "batch" /\ group[g].state \in Outstanding

NoClaims == \A g \in Groups : holder[g] = NoOne

\* Mutant: the claims of controllers are not looked at.
SafeWhileClaimed == ctl.paused /\ ~SentOutstanding /\ ~NativeOutstanding

\* enrichment_control_status
SafeToCancel == ctl.paused /\ ~SentOutstanding /\ NoClaims /\ ~NativeOutstanding

Attempts(r) == Cardinality({g \in Groups : call[g][r] # "none"})

\* Mutant: an unknown outcome is tried again like a failure.
EligibleIfUnknown(r) ==
  /\ \A g \in Groups : call[g][r] \notin {"reserved", "sent", "completed"}
  /\ Attempts(r) < MaxAttempts

\* No call of this request is outstanding or has a usable reply.
Eligible(r) ==
  /\ \A g \in Groups :
       call[g][r] \notin {"reserved", "sent", "ambiguous", "completed"}
  /\ Attempts(r) < MaxAttempts

DrainedAmbiguous(g) ==
  /\ group[g] = [state |-> "ambiguous", transport |-> "direct"]
  /\ Calls(g, {"reserved", "sent"}) = {}
  /\ holder[g] = NoOne

Blocking(g) == Active(g) /\ ~(Deferring /\ DrainedAmbiguous(g))

\* The oldest active groups, which execute_enrichment advances.
InSlice(g) ==
  Active(g) /\ Cardinality({h \in Groups : h < g /\ Active(h)}) < Slice

SetState(g, s) == group' = [group EXCEPT ![g].state = s]

Go(w, pc) == job' = [job EXCEPT ![w].pc = pc]

Hinder == left > 0 /\ left' = left - 1

-----------------------------------------------------------------------------
(* execute_enrichment: advance an active group or register a new one *)

Pick(w, g) ==
  /\ job[w].pc = "idle" /\ ~ctl.paused /\ InSlice(g)
  /\ job' = [job EXCEPT ![w].pc = "picked", ![w].g = g]
  /\ UNCHANGED <<ctl, group, holder, call, provider, contacts, left>>

\* _register_requests: one transaction creates the group and reserves a call
\* for each of its requests.  The new group is then advanced.
Register(w) ==
  /\ job[w].pc = "idle" /\ MayStart
  /\ ~\E g \in Groups : Blocking(g)
  /\ \E g \in Groups, t \in Transports,
        rs \in SUBSET {r \in Requests : Eligible(r)} \ {{}} :
       /\ group[g].state = "absent"
       /\ \A h \in Groups : h < g => group[h].state # "absent"
       /\ group' = [group EXCEPT ![g] = [state |-> "registered", transport |-> t]]
       /\ call' = [call EXCEPT ![g] =
                     [r \in Requests |-> IF r \in rs THEN "reserved" ELSE "none"]]
       /\ job' = [job EXCEPT ![w].pc = "picked", ![w].g = g]
  /\ UNCHANGED <<ctl, holder, provider, contacts, left>>

\* claim_batch; a refusal ends the pass over the groups.
Claim(w) ==
  LET g == job[w].g IN
  /\ job[w].pc = "picked"
  /\ IF ~ctl.paused /\ holder[g] = NoOne
     THEN holder' = [holder EXCEPT ![g] = w] /\ Go(w, "claimed")
     ELSE job' = [job EXCEPT ![w] = Idle] /\ UNCHANGED holder
  /\ UNCHANGED <<ctl, group, call, provider, contacts, left>>

\* release_batch, and advance_direct's look at the group before another wave.
Leave(w) ==
  LET j == job[w] IN
  /\ j.pc = "leaving"
  /\ holder' = [holder EXCEPT ![j.g] = IF @ = w THEN NoOne ELSE @]
  /\ job' = [job EXCEPT ![w] = IF j.again /\ ~ctl.paused
                               THEN [Idle EXCEPT !.pc = "picked", !.g = j.g]
                               ELSE Idle]
  /\ UNCHANGED <<ctl, group, call, provider, contacts, left>>

\* StaleBatchClaim.  The thread pool of a wave waits for its requests.
Stale(w) ==
  /\ job[w].pc \notin {"idle", "picked", "draining"} /\ ~Fenced(w)
  /\ IF job[w].todo = {} THEN job' = [job EXCEPT ![w] = Idle]
                         ELSE Go(w, "draining")
  /\ UNCHANGED <<ctl, group, holder, call, provider, contacts, left>>

-----------------------------------------------------------------------------
(* advance_batch: the native transport *)

Native(w, states) ==
  LET g == job[w].g IN
  /\ job[w].pc = "claimed" /\ Fenced(w)
  /\ group[g].transport = "batch" /\ group[g].state \in states

\* _update(state="uploading"), then control_start.
StartUpload(w) ==
  /\ Native(w, {"registered", "uploading"})
  /\ SetState(job[w].g, "uploading")
  /\ Go(w, IF MayStart THEN "uploading" ELSE "leaving")
  /\ UNCHANGED <<ctl, holder, call, provider, contacts, left>>

\* Mutant: the upload is recorded in a state of its own.
FinishUploadUploadedOk(w) ==
  /\ job[w].pc = "uploading" /\ Fenced(w)
  /\ SetState(job[w].g, "uploaded_ok")
  /\ Go(w, "claimed")
  /\ UNCHANGED <<ctl, holder, call, provider, contacts, left>>

FinishUpload(w) ==
  /\ job[w].pc = "uploading" /\ Fenced(w)
  /\ SetState(job[w].g, "uploaded")
  /\ Go(w, "claimed")
  /\ UNCHANGED <<ctl, holder, call, provider, contacts, left>>

mark_submitting(w) ==
  LET g == job[w].g IN
  /\ Native(w, {"uploaded"})
  /\ IF MayStart
     THEN /\ call' = [call EXCEPT ![g] = [r \in Requests |->
                        IF @[r] = "reserved" THEN "sent" ELSE @[r]]]
          /\ SetState(g, "submitting")
          /\ Go(w, "submit")
     ELSE Go(w, "leaving") /\ UNCHANGED <<group, call>>
  /\ UNCHANGED <<ctl, holder, provider, contacts, left>>

\* control_start for the submission, which is then on its way.
Submit(w) ==
  /\ job[w].pc = "submit" /\ Fenced(w)
  /\ IF MayStart
     THEN /\ provider' = [provider EXCEPT ![job[w].g].status = "coming"]
          /\ Go(w, "awaiting")
     ELSE Go(w, "leaving") /\ UNCHANGED provider
  /\ UNCHANGED <<ctl, group, holder, call, contacts, left>>

Accepted(g) == provider[g].status \in {"running", "done"}

\* _accept_submission of the answer to the submission.
SubmitAnswered(w) ==
  LET g == job[w].g IN
  /\ job[w].pc = "awaiting" /\ Fenced(w)
  /\ Accepted(g)
  /\ SetState(g, "waiting")
  /\ Go(w, "leaving")
  /\ UNCHANGED <<ctl, holder, call, provider, contacts, left>>

\* _accept_submission raises for an answer without an identity: the provider
\* has the submission, and the group stays submitting until it is looked for.
SubmitUnidentified(w) ==
  /\ job[w].pc = "awaiting" /\ Fenced(w)
  /\ Accepted(job[w].g)
  /\ Hinder
  /\ Go(w, "leaving")
  /\ UNCHANGED <<ctl, group, holder, call, provider, contacts>>

\* BatchTransportError or BatchHTTPError of the submission.
SubmitFailed(w) ==
  LET g == job[w].g IN
  /\ job[w].pc = "awaiting" /\ Fenced(w)
  /\ IF provider[g].status = "none" THEN UNCHANGED left ELSE Hinder
  /\ SetState(g, "ambiguous")
  /\ Go(w, "leaving")
  /\ UNCHANGED <<ctl, holder, call, provider, contacts>>

\* Mutant: an interrupted submission is taken for an interrupted upload.
ReconcileResubmits(w) ==
  /\ Native(w, {"submitting", "ambiguous"})
  /\ SetState(job[w].g, IF Accepted(job[w].g) THEN "waiting" ELSE "uploaded")
  /\ Go(w, IF Accepted(job[w].g) THEN "leaving" ELSE "claimed")
  /\ UNCHANGED <<ctl, holder, call, provider, contacts, left>>

\* list_batches: look for the submission, never repeat it.
Reconcile(w) ==
  /\ Native(w, {"submitting", "ambiguous"})
  /\ SetState(job[w].g, IF Accepted(job[w].g) THEN "waiting" ELSE "ambiguous")
  /\ Go(w, "leaving")
  /\ UNCHANGED <<ctl, holder, call, provider, contacts, left>>

Poll(w) ==
  LET g == job[w].g IN
  /\ Native(w, {"waiting"})
  /\ IF provider[g].status = "done"
     THEN SetState(g, "importing") /\ UNCHANGED job
     ELSE Go(w, "leaving") /\ UNCHANGED group
  /\ UNCHANGED <<ctl, holder, call, provider, contacts, left>>

Unimported(g) == provider[g].good \cap Calls(g, {"sent", "ambiguous"})

\* import_response of one good output; the posts may have changed meanwhile.
Import(w) ==
  LET g == job[w].g IN
  /\ Native(w, {"importing"})
  /\ \E r \in Unimported(g), s \in {"completed", "spoiled"} :
       call' = [call EXCEPT ![g][r] = s]
  /\ UNCHANGED <<ctl, group, holder, provider, contacts, job, left>>

\* The outputs are read to the end: error rows and missing rows fail alike.
FinishImport(w) ==
  LET g == job[w].g
      failed == Calls(g, {"sent", "ambiguous"})
  IN /\ Native(w, {"importing"})
     /\ Unimported(g) = {}
     /\ call' = [call EXCEPT ![g] = [r \in Requests |->
                   IF r \in failed THEN "failed" ELSE @[r]]]
     /\ SetState(g, IF failed = {} /\ Calls(g, {"failed"}) = {}
                    THEN "completed" ELSE "failed")
     /\ Go(w, "leaving")
     /\ UNCHANGED <<ctl, holder, provider, contacts, left>>

\* A group that was finished since it was picked.
NothingToDo(w) ==
  /\ Native(w, {"completed", "failed"})
  /\ Go(w, "leaving")
  /\ UNCHANGED <<ctl, group, holder, call, provider, contacts, left>>

\* A control request was refused or failed: the state stays.
GiveUp(w) ==
  /\ job[w].pc \in {"claimed", "uploading", "submit"} /\ Fenced(w)
  /\ group[job[w].g].transport = "batch"
  /\ Hinder
  /\ Go(w, "leaving")
  /\ UNCHANGED <<ctl, group, holder, call, provider, contacts>>

-----------------------------------------------------------------------------
(* _advance_direct_wave: the direct transport *)

Smaller(a, b) == IF a < b THEN a ELSE b

\* Mutant: what an earlier controller left sent is not looked at.
StartWaveOnly(w) ==
  LET g == job[w].g
      ready == Calls(g, {"reserved"})
  IN /\ job[w].pc = "claimed" /\ Fenced(w) /\ group[g].transport = "direct"
     /\ IF MayStart
        THEN \E wave \in SUBSET ready :
               /\ Cardinality(wave) = Smaller(Concurrency, Cardinality(ready))
               /\ call' = [call EXCEPT ![g] = [r \in Requests |->
                             IF r \in wave THEN "sent" ELSE @[r]]]
               /\ SetState(g, "waiting")
               /\ job' = [job EXCEPT ![w].pc = "sending", ![w].todo = wave]
        ELSE Go(w, "leaving") /\ UNCHANGED <<group, call>>
     /\ UNCHANGED <<ctl, holder, provider, contacts, left>>

\* One transaction: calls a dead controller left sent become ambiguous, the
\* next wave is marked sent.
StartWave(w) ==
  LET g == job[w].g
      ready == Calls(g, {"reserved"})
  IN /\ job[w].pc = "claimed" /\ Fenced(w) /\ group[g].transport = "direct"
     /\ IF MayStart
        THEN \E wave \in SUBSET ready :
               /\ Cardinality(wave) = Smaller(Concurrency, Cardinality(ready))
               /\ call' = [call EXCEPT ![g] = [r \in Requests |->
                             IF r \in wave THEN "sent"
                             ELSE IF @[r] = "sent" THEN "ambiguous" ELSE @[r]]]
               /\ SetState(g, "waiting")
               /\ job' = [job EXCEPT ![w].pc = "sending", ![w].todo = wave]
        ELSE Go(w, "leaving") /\ UNCHANGED <<group, call>>
     /\ UNCHANGED <<ctl, holder, provider, contacts, left>>

\* A thread of the wave contacts the provider, whatever became of the claim.
Transmit(w, r) ==
  /\ job[w].pc \in {"sending", "draining"} /\ r \in job[w].todo
  /\ contacts' = [contacts EXCEPT ![job[w].g][r] = @ + 1]
  /\ job' = [job EXCEPT ![w].todo = @ \ {r}, ![w].out = @ \cup {r}]
  /\ UNCHANGED <<ctl, group, holder, call, provider, left>>

\* import_response of an answer; a throttled request failed.
Answer(w, r) ==
  LET g == job[w].g IN
  /\ job[w].pc = "sending" /\ Fenced(w) /\ r \in job[w].out
  /\ call[g][r] \in {"sent", "ambiguous"}
  /\ \E s \in {"completed", "spoiled", "failed"}, throttled \in BOOLEAN :
       /\ throttled => s = "failed"
       /\ call' = [call EXCEPT ![g][r] = s]
       /\ job' = [job EXCEPT ![w].out = @ \ {r},
                             ![w].throttled = @ \/ throttled]
  /\ UNCHANGED <<ctl, group, holder, provider, contacts, left>>

\* No answer, and none will come: the request may or may not have arrived.
Unanswered(w, r) ==
  LET g == job[w].g IN
  /\ job[w].pc = "sending" /\ Fenced(w) /\ r \in job[w].todo \cup job[w].out
  /\ Hinder
  /\ call' = [call EXCEPT ![g][r] = IF @ = "sent" THEN "ambiguous" ELSE @]
  /\ job' = [job EXCEPT ![w].todo = @ \ {r}, ![w].out = @ \ {r}]
  /\ UNCHANGED <<ctl, group, holder, provider, contacts>>

EndWave(w) ==
  LET g == job[w].g
      state == IF Calls(g, {"ambiguous", "closed"}) # {} THEN "ambiguous"
               ELSE IF Calls(g, {"reserved"}) # {} \/ job[w].throttled
                    THEN "registered"
               ELSE IF Calls(g, {"sent", "failed"}) # {} THEN "failed"
               ELSE "completed"
  IN /\ job[w].pc = "sending" /\ Fenced(w)
     /\ job[w].todo = {} /\ job[w].out = {}
     /\ SetState(g, state)
     /\ job' = [job EXCEPT ![w].pc = "leaving",
                  ![w].again = (state = "registered" /\ ~job[w].throttled)]
     /\ UNCHANGED <<ctl, holder, call, provider, contacts, left>>

\* The pool of a controller that lost its claim has finished.
Drained(w) ==
  /\ job[w].pc = "draining" /\ job[w].todo = {}
  /\ job' = [job EXCEPT ![w] = Idle]
  /\ UNCHANGED <<ctl, group, holder, call, provider, contacts, left>>

-----------------------------------------------------------------------------
(* The provider of native batches *)

Receive(g) ==
  /\ provider[g].status = "coming"
  /\ provider' = [provider EXCEPT ![g].status = "running"]
  /\ contacts' = [contacts EXCEPT ![g] = [r \in Requests |->
                    IF call[g][r] = "none" THEN @[r] ELSE @[r] + 1]]
  /\ UNCHANGED <<ctl, group, holder, call, job, left>>

\* The submission is lost or rejected.
Lose(g) ==
  /\ provider[g].status = "coming"
  /\ Hinder
  /\ provider' = [provider EXCEPT ![g].status = "none"]
  /\ UNCHANGED <<ctl, group, holder, call, contacts, job>>

Finish(g) ==
  /\ provider[g].status = "running"
  /\ \E good \in SUBSET (Requests \ Calls(g, {"none"})) :
       provider' = [provider EXCEPT ![g] = [status |-> "done", good |-> good]]
  /\ UNCHANGED <<ctl, group, holder, call, contacts, job, left>>

-----------------------------------------------------------------------------
(* The operator, publication and the clock *)

RevokeClaims == holder' = [g \in Groups |-> NoOne]

\* set_enrichment_control("pause"), which may be reissued.
Pause ==
  /\ group[1].state # "absent" /\ ~NativeOutstanding
  /\ IF ctl.paused THEN UNCHANGED left ELSE Hinder
  /\ ctl' = [ctl EXCEPT !.paused = TRUE]
  /\ IF SentOutstanding THEN UNCHANGED holder ELSE RevokeClaims
  /\ UNCHANGED <<group, call, provider, contacts, job>>

Resume ==
  /\ ctl.paused /\ ~SentOutstanding /\ ~NativeOutstanding
  /\ ctl' = [ctl EXCEPT !.paused = FALSE]
  /\ RevokeClaims
  /\ UNCHANGED <<group, call, provider, contacts, job, left>>

\* close_unrecoverable_direct_imports: the campaign is drained and the
\* operator has verified that the controller of the call is terminal.
Close(g, r) ==
  /\ group[g].transport = "direct" /\ call[g][r] = "ambiguous"
  /\ ~SentOutstanding /\ NoClaims /\ ~NativeOutstanding
  /\ \A h \in Groups : Calls(h, {"reserved"}) = {}
  /\ \A w \in Workers : job[w].g = g => r \notin job[w].todo
  /\ call' = [call EXCEPT ![g][r] = "closed"]
  /\ UNCHANGED <<ctl, group, holder, provider, contacts, job, left>>

\* prepare_page: publication finds the saved reply invalid.
Spoil(g, r) ==
  /\ call[g][r] = "completed"
  /\ call' = [call EXCEPT ![g][r] = "spoiled"]
  /\ UNCHANGED <<ctl, group, holder, provider, contacts, job, left>>

\* The claim belongs to a controller that died.
Orphaned(g) == /\ holder[g] # NoOne
               /\ job[holder[g]].pc \in {"idle", "picked"} \/ job[holder[g]].g # g

Expire(g) ==
  /\ holder[g] # NoOne
  /\ IF Orphaned(g) THEN UNCHANGED left ELSE Hinder
  /\ holder' = [holder EXCEPT ![g] = NoOne]
  /\ UNCHANGED <<ctl, group, call, provider, contacts, job>>

DeadlinePasses ==
  /\ ~ctl.expired /\ Hinder
  /\ ctl' = [ctl EXCEPT !.expired = TRUE]
  /\ UNCHANGED <<group, holder, call, provider, contacts, job>>

\* A controller dies; its claim and what it sent outlive it.
Die(w) ==
  /\ job[w].pc # "idle" /\ Hinder
  /\ job' = [job EXCEPT ![w] = Idle]
  /\ UNCHANGED <<ctl, group, holder, call, provider, contacts>>

-----------------------------------------------------------------------------
(* Specification *)

Work(w) ==
  \/ Claim(w) \/ Leave(w) \/ Stale(w)
  \/ StartUpload(w) \/ FinishUpload(w) \/ mark_submitting(w) \/ Submit(w)
  \/ SubmitAnswered(w) \/ SubmitFailed(w) \/ Reconcile(w) \/ Poll(w)
  \/ Import(w) \/ FinishImport(w) \/ NothingToDo(w)
  \/ StartWave(w) \/ EndWave(w) \/ Drained(w)
  \/ \E r \in Requests : Transmit(w, r) \/ Answer(w, r)

Next ==
  \/ \E w \in Workers :
       \/ Work(w) \/ Register(w) \/ SubmitUnidentified(w) \/ GiveUp(w) \/ Die(w)
       \/ \E g \in Groups : Pick(w, g)
       \/ \E r \in Requests : Unanswered(w, r)
  \/ \E g \in Groups : Receive(g) \/ Lose(g) \/ Finish(g) \/ Expire(g)
  \/ \E g \in Groups, r \in Requests : Close(g, r) \/ Spoil(g, r)
  \/ Pause \/ Resume \/ DeadlinePasses

Spec == Init /\ [][Next]_vars

\* A campaign keeps calling execute_enrichment, which advances both groups of
\* the slice; the provider finishes what it accepted; a dead claim expires.
FairSpec == /\ Spec
            /\ \A w \in Workers : WF_vars(Work(w))
            /\ \A g \in Groups : /\ SF_vars(\E w \in Workers : Pick(w, g))
                                /\ WF_vars(Receive(g)) /\ WF_vars(Finish(g))
                                /\ WF_vars(Orphaned(g) /\ Expire(g))

-----------------------------------------------------------------------------
(* Properties *)

Outcome(g, r) == CASE call[g][r] \in {"none", "reserved"} -> "unsent"
                   [] call[g][r] \in {"completed", "spoiled"} -> "completed"
                   [] call[g][r] \in {"ambiguous", "closed"} -> "ambiguous"
                   [] OTHER -> call[g][r]

Promise(g, r) == INSTANCE AtMostOnceCall
                   WITH outcome <- Outcome(g, r), contacts <- contacts[g][r]

\* Every call of either transport keeps the at-most-once promise: the provider
\* gets it at most once, through takeovers, repeated uploads, lost answers to
\* the submission and pauses, it is settled once and only answered if it was
\* received.
KeepsPromise ==
  /\ \A g \in Groups, r \in Requests : Promise(g, r)!Init
  /\ [][\A g \in Groups, r \in Requests :
          [Promise(g, r)!Next]_(Promise(g, r)!vars)]_vars

\* A request is not paid for again while an earlier payment may still turn out
\* useful, and never more often than the attempts allow.
SpendsOnce ==
  \A r \in Requests :
    LET paid == {g \in Groups : contacts[g][r] > 0}
    IN /\ Cardinality({g \in paid :
             call[g][r] \in {"sent", "ambiguous", "completed"}}) <= 1
       /\ Cardinality(paid) <= MaxAttempts

\* Once the operator was told that it is safe to cancel, and until the resume,
\* no group moves, nothing is marked sent, and whatever a controller that
\* outlived its claim still transmits was already given up as ambiguous.
SafeMeansQuiet ==
  [][SafeToCancel =>
       /\ UNCHANGED group
       /\ \A g \in Groups, r \in Requests :
            /\ contacts'[g][r] = contacts[g][r] \/ call[g][r] = "ambiguous"
            /\ call'[g][r] = call[g][r]
               \/ call[g][r] \in {"ambiguous", "completed"}]_vars

\* What was sent in one of the groups that execute_enrichment advances is
\* settled whatever controller dies, unless the campaign is paused or its
\* deadline passes: a direct call, and every call of a native group that the
\* provider accepted.  (A further group is advanced once, at its registration:
\* what a dead controller left sent there stays sent while the older groups
\* are active.)
SentIsSettled ==
  \A g \in Groups :
    /\ InSlice(g) /\ Calls(g, {"sent"}) # {}
    /\ group[g].transport = "direct" \/ Accepted(g)
    ~> Calls(g, {"sent"}) = {} \/ ctl.paused \/ ctl.expired

\* "Pause immediately blocks new paid admission.  ...  Reissue pause until it
\* reports safe_to_cancel" (docs/deploy/render.md): a pause that stays ends
\* with the campaign safe to cancel.
PauseDrains == ctl.paused ~> SafeToCancel \/ ~ctl.paused

=============================================================================
