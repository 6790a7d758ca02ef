----------------------- MODULE ProviderBatchesProofs -----------------------
(***************************************************************************)
(* What TLAPS proves of the provider batches, for any number of            *)
(* controllers, requests and groups, either transport, any concurrency and *)
(* any allowance of attempts: the types, that a request is paid for once   *)
(* at a time and within its attempts, that every call keeps the            *)
(* at-most-once promise of AtMostOnceCall, and that a campaign reported    *)
(* safe to cancel is quiet.                                                *)
(*                                                                         *)
(* None of these is inductive.  The strengthening follows a call through   *)
(* its transport: what the state of a group says about its calls and about *)
(* the provider (GroupsAreOrdered), what the position of a controller says *)
(* about its group (JobsAreOrdered), what the requests of a wave have      *)
(* behind them (WavesAreOrdered), and which outcomes were contacted        *)
(* (OutcomesAreContacted).                                                 *)
(***************************************************************************)
EXTENDS ProviderBatches, FiniteSetTheorems, TLAPS

\* A call that may still turn out useful: it bars its request from another.
Live == {"reserved", "sent", "ambiguous", "completed"}

Before == {"registered", "uploading", "uploaded"}
After  == {"submitting", "waiting", "ambiguous", "importing", "completed",
           "failed"}

NotBegun(g) ==
  group[g].state = "absent" =>
    /\ provider[g].status = "none"
    /\ \A r \in Requests : call[g][r] = "none" /\ contacts[g][r] = 0

\* Nothing of a native group left the house before its submission.
NotSubmitted(g) ==
  group[g].transport = "batch" /\ group[g].state \in Before =>
    /\ provider[g].status = "none"
    /\ \A r \in Requests :
         call[g][r] \in {"none", "reserved"} /\ contacts[g][r] = 0

\* A native group is submitted whole: the provider gets all of its calls at
\* once or none, and outputs are imported from a provider that has finished.
Submitted(g) ==
  group[g].transport = "batch" /\ group[g].state \in After =>
    /\ \A r \in Requests :
         /\ call[g][r] \in {"none", "sent", "completed", "spoiled", "failed"}
         /\ provider[g].status \in {"none", "coming"} =>
              contacts[g][r] = 0 /\ call[g][r] \in {"none", "sent"}
         /\ provider[g].status \in {"running", "done"} =>
              contacts[g][r] = IF call[g][r] = "none" THEN 0 ELSE 1
    /\ group[g].state = "waiting" => provider[g].status \in {"running", "done"}
    /\ group[g].state \in {"importing", "completed", "failed"} =>
         provider[g].status = "done"

DirectHasNoBatch(g) ==
  group[g].transport = "direct" => provider[g].status = "none"

GroupIsOrdered(g) == /\ NotBegun(g) /\ NotSubmitted(g)
                     /\ Submitted(g) /\ DirectHasNoBatch(g)

GroupsAreOrdered == \A g \in Groups : GroupIsOrdered(g)

\* Where a controller stands, and what it still may say about its group.
JobIsOrdered(w) ==
  LET j == job[w] IN
  /\ j.pc \notin {"sending", "draining"} => j.todo = {} /\ j.out = {}
  /\ j.pc # "idle" => group[j.g].state # "absent"
  /\ j.pc \in {"sending", "draining"} => group[j.g].transport = "direct"
  /\ j.pc \in {"uploading", "submit", "awaiting"} /\ Fenced(w) =>
       /\ group[j.g].transport = "batch"
       /\ group[j.g].state = IF j.pc = "uploading" THEN "uploading"
                                                   ELSE "submitting"
  /\ j.pc = "submit" /\ Fenced(w) => provider[j.g].status = "none"

JobsAreOrdered == \A w \in Workers : JobIsOrdered(w)

\* The requests of a wave: not yet transmitted, or transmitted once; and all
\* of them sent as long as the controller holds its claim.
WaveIsOrdered(w) ==
  LET j == job[w] IN
  /\ \A r \in j.todo : /\ contacts[j.g][r] = 0
                       /\ call[j.g][r] \in {"sent", "ambiguous"}
                       /\ r \notin j.out
  /\ \A r \in j.out : contacts[j.g][r] = 1
  /\ Fenced(w) => \A r \in j.todo \cup j.out : call[j.g][r] = "sent"

\* Two waves of one group have no request in common.
Apart(u, v) ==
  job[u].g = job[v].g => job[u].todo \cap job[v].todo = {}

WavesAreOrdered ==
  /\ \A w \in Workers : WaveIsOrdered(w)
  /\ \A u, v \in Workers : u # v => Apart(u, v)

IsContacted(g, r) ==
  /\ contacts[g][r] \in {0, 1}
  /\ call[g][r] \in {"none", "reserved"} => contacts[g][r] = 0
  /\ call[g][r] \in {"completed", "spoiled", "failed"} => contacts[g][r] = 1

OutcomesAreContacted ==
  \A g \in Groups, r \in Requests : IsContacted(g, r)

OneIsLive ==
  \A g, h \in Groups, r \in Requests :
    call[g][r] \in Live /\ call[h][r] \in Live => g = h

AttemptsAreCounted == \A r \in Requests : Attempts(r) <= MaxAttempts

BatchesInvariant == /\ TypeOK
                    /\ GroupsAreOrdered /\ JobsAreOrdered /\ WavesAreOrdered
                    /\ OutcomesAreContacted
                    /\ OneIsLive /\ AttemptsAreCounted

-----------------------------------------------------------------------------
(* The types *)

Pcs == {"idle", "picked", "claimed", "uploading", "submit", "awaiting",
        "sending", "draining", "leaving"}
States == ACTIVE_STATES \cup {"absent", "completed", "failed"}

\* The initial state is well typed.
LEMMA BatchesTypeInit == Init => TypeOK
<1> SUFFICES ASSUME Init PROVE TypeOK
  OBVIOUS
<1>1. 1 \in Groups
  BY ConstantsAssumption DEF Groups
<1> QED
  BY <1>1, ConstantsAssumption
  DEF Init, TypeOK, Group, ACTIVE_STATES, Outstanding, CallState,
      Provider, Job, Idle

\* What a controller turns to next is one of the positions of Job.
LEMMA GoIsTyped ==
  ASSUME TypeOK, NEW w \in Workers, NEW pc \in Pcs, Go(w, pc)
  PROVE  job' \in [Workers -> Job]
<1>1. [job[w] EXCEPT !.pc = pc] \in Job
  BY DEF TypeOK, Job, Pcs
<1> QED
  BY <1>1 DEF TypeOK, Go

\* A controller that stops, or is given a job of its own.
LEMMA JobIsTyped ==
  ASSUME TypeOK, NEW w \in Workers, NEW j \in Job, job' = [job EXCEPT ![w] = j]
  PROVE  job' \in [Workers -> Job]
BY DEF TypeOK

\* A group is set to one of its states.
LEMMA StateIsTyped ==
  ASSUME TypeOK, NEW g \in Groups, NEW s \in States, SetState(g, s)
  PROVE  group' \in [Groups -> Group]
<1>0. group[g] \in Group
  BY DEF TypeOK
<1>1. [group[g] EXCEPT !.state = s] \in Group
  BY <1>0 DEF Group, States
<1> QED
  BY <1>1 DEF TypeOK, SetState

\* The calls of one group change.
LEMMA CallsAreTyped ==
  ASSUME TypeOK, NEW g \in Groups, NEW f \in [Requests -> CallState],
         call' = [call EXCEPT ![g] = f]
  PROVE  call' \in [Groups -> [Requests -> CallState]]
BY DEF TypeOK

\* One call changes.
LEMMA CallIsTyped ==
  ASSUME TypeOK, NEW g \in Groups, NEW r \in Requests, NEW s \in CallState,
         call' = [call EXCEPT ![g][r] = s]
  PROVE  call' \in [Groups -> [Requests -> CallState]]
BY DEF TypeOK

\* The hindrances stay in their range.
LEMMA HindranceIsTyped ==
  ASSUME TypeOK, Hinder \/ UNCHANGED left
  PROVE  left' \in 0..MaxHindrances
BY ConstantsAssumption DEF TypeOK, Hinder

\* Every step of a controller with its group keeps the types.
LEMMA WorkKeepsTypes ==
  ASSUME TypeOK, NEW w \in Workers, Work(w)
  PROVE  TypeOK'
<1> DEFINE g == job[w].g
<1> USE ConstantsAssumption
<1>0. /\ g \in Groups /\ job[w] \in Job /\ Idle \in Job /\ group[g] \in Group
      /\ call[g] \in [Requests -> CallState]
      /\ job \in [Workers -> Job]
  BY DEF TypeOK, Job, Idle, Groups
<1>1. CASE Claim(w)
  <2>1. job' \in [Workers -> Job]
    <3>1. CASE Go(w, "claimed")
      BY <3>1, GoIsTyped DEF Pcs
    <3>2. CASE job' = [job EXCEPT ![w] = Idle]
      BY <3>2, <1>0
    <3> QED
      BY <1>1, <3>1, <3>2 DEF Claim
  <2>2. holder' \in [Groups -> Workers \cup {NoOne}]
    BY <1>1, <1>0 DEF TypeOK, Claim
  <2> QED
    BY <1>1, <2>1, <2>2 DEF TypeOK, Claim
<1>2. CASE Leave(w)
  BY <1>2, <1>0 DEF TypeOK, Leave, Job, Idle
<1>3. CASE Stale(w)
  <2>1. CASE Go(w, "draining")
    BY <1>3, <2>1, GoIsTyped DEF TypeOK, Stale, Pcs
  <2>2. CASE job' = [job EXCEPT ![w] = Idle]
    BY <1>3, <2>2, <1>0 DEF TypeOK, Stale
  <2> QED
    BY <1>3, <2>1, <2>2 DEF Stale
<1>4. CASE StartUpload(w)
  BY <1>4, <1>0, GoIsTyped, StateIsTyped
  DEF TypeOK, StartUpload, Pcs, States, ACTIVE_STATES, Outstanding
<1>5. CASE FinishUpload(w)
  BY <1>5, <1>0, GoIsTyped, StateIsTyped
  DEF TypeOK, FinishUpload, Pcs, States, ACTIVE_STATES, Outstanding
<1>6. CASE mark_submitting(w)
  <2> DEFINE f == [r \in Requests |->
                     IF call[g][r] = "reserved" THEN "sent" ELSE call[g][r]]
  <2>1. CASE MayStart
    <3>1. f \in [Requests -> CallState]
      BY <1>0 DEF CallState
    <3>2. call' = [call EXCEPT ![g] = f]
      BY <1>6, <2>1 DEF mark_submitting, TypeOK
    <3>3. SetState(g, "submitting") /\ Go(w, "submit")
      BY <1>6, <2>1 DEF mark_submitting
    <3>4. call' \in [Groups -> [Requests -> CallState]]
      BY <3>1, <3>2, <1>0, CallsAreTyped
    <3> QED
      BY <1>6, <3>3, <3>4, <1>0, GoIsTyped, StateIsTyped
      DEF TypeOK, mark_submitting, Pcs, States, ACTIVE_STATES, Outstanding
  <2>2. CASE ~MayStart
    BY <1>6, <2>2, GoIsTyped DEF TypeOK, mark_submitting, Pcs
  <2> QED
    BY <2>1, <2>2
<1>7. CASE Submit(w)
  <2>1. job' \in [Workers -> Job]
    BY <1>7, GoIsTyped DEF Submit, Pcs
  <2>2. provider' \in [Groups -> Provider]
    <3>0. provider[g] \in Provider
      BY <1>0 DEF TypeOK
    <3>1. [provider[g] EXCEPT !.status = "coming"] \in Provider
      BY <3>0 DEF Provider
    <3> QED
      BY <1>7, <1>0, <3>1 DEF TypeOK, Submit
  <2> QED
    BY <1>7, <2>1, <2>2 DEF TypeOK, Submit
<1>8. CASE SubmitAnswered(w)
  BY <1>8, <1>0, GoIsTyped, StateIsTyped
  DEF TypeOK, SubmitAnswered, Pcs, States, ACTIVE_STATES, Outstanding
<1>9. CASE SubmitFailed(w)
  BY <1>9, <1>0, GoIsTyped, StateIsTyped, HindranceIsTyped
  DEF TypeOK, SubmitFailed, Pcs, States, ACTIVE_STATES, Outstanding
<1>10. CASE Reconcile(w)
  BY <1>10, <1>0, GoIsTyped, StateIsTyped
  DEF TypeOK, Reconcile, Native, Pcs, States, ACTIVE_STATES, Outstanding
<1>11. CASE Poll(w)
  <2>1. CASE SetState(g, "importing") /\ UNCHANGED job
    BY <1>11, <2>1, <1>0, StateIsTyped
    DEF TypeOK, Poll, States, ACTIVE_STATES, Outstanding
  <2>2. CASE Go(w, "leaving") /\ UNCHANGED group
    BY <1>11, <2>2, GoIsTyped DEF TypeOK, Poll, Pcs
  <2> QED
    BY <1>11, <2>1, <2>2 DEF Poll
<1>12. CASE Import(w)
  BY <1>12, <1>0, CallIsTyped DEF TypeOK, Import, CallState, Unimported, Calls
<1>13. CASE FinishImport(w)
  <2> DEFINE failed == Calls(g, {"sent", "ambiguous"})
             f == [r \in Requests |->
                     IF r \in failed THEN "failed" ELSE call[g][r]]
  <2>1. f \in [Requests -> CallState]
    BY <1>0 DEF CallState
  <2>2. call' = [call EXCEPT ![g] = f]
    BY <1>13 DEF FinishImport, TypeOK
  <2>3. call' \in [Groups -> [Requests -> CallState]]
    BY <2>1, <2>2, <1>0, CallsAreTyped
  <2>4. group' \in [Groups -> Group]
    BY <1>13, <1>0, StateIsTyped DEF FinishImport, States
  <2>5. job' \in [Workers -> Job]
    BY <1>13, GoIsTyped DEF FinishImport, Pcs
  <2> QED
    BY <1>13, <2>3, <2>4, <2>5 DEF TypeOK, FinishImport
<1>14. CASE NothingToDo(w)
  BY <1>14, GoIsTyped DEF TypeOK, NothingToDo, Pcs
<1>15. CASE StartWave(w)
  <2>1. CASE MayStart
    <3>1. PICK wave \in SUBSET Calls(g, {"reserved"}) :
            /\ call' = [call EXCEPT ![g] = [r \in Requests |->
                          IF r \in wave THEN "sent"
                          ELSE IF @[r] = "sent" THEN "ambiguous" ELSE @[r]]]
            /\ SetState(g, "waiting")
            /\ job' = [job EXCEPT ![w].pc = "sending", ![w].todo = wave]
      BY <1>15, <2>1 DEF StartWave
    <3> DEFINE f == [r \in Requests |->
                       IF r \in wave THEN "sent" ELSE
                       IF call[g][r] = "sent" THEN "ambiguous" ELSE call[g][r]]
               j == [job[w] EXCEPT !.pc = "sending", !.todo = wave]
    <3>2. f \in [Requests -> CallState]
      BY <1>0 DEF CallState
    <3>3. call' = [call EXCEPT ![g] = f]
      BY <3>1 DEF TypeOK
    <3>4. call' \in [Groups -> [Requests -> CallState]]
      BY <3>2, <3>3, <1>0, CallsAreTyped
    <3>5. j \in Job
      BY <1>0 DEF Job, Calls
    <3>6. job' = [job EXCEPT ![w] = j]
      BY <3>1, <1>0
    <3>7. job' \in [Workers -> Job]
      BY <3>5, <3>6, JobIsTyped
    <3>8. group' \in [Groups -> Group]
      BY <3>1, <1>0, StateIsTyped DEF States, ACTIVE_STATES, Outstanding
    <3> QED
      BY <1>15, <3>4, <3>7, <3>8 DEF TypeOK, StartWave
  <2>2. CASE ~MayStart
    BY <1>15, <2>2, GoIsTyped DEF TypeOK, StartWave, Pcs
  <2> QED
    BY <2>1, <2>2
<1>16. CASE EndWave(w)
  BY <1>16, <1>0 DEF TypeOK, EndWave, SetState, Job, Group,
     ACTIVE_STATES, Outstanding
<1>17. CASE Drained(w)
  BY <1>17, <1>0 DEF TypeOK, Drained
<1>18. ASSUME NEW r \in Requests, Transmit(w, r) PROVE TypeOK'
  <2> DEFINE j == [job[w] EXCEPT !.todo = @ \ {r}, !.out = @ \cup {r}]
             n == contacts[g][r] + 1
  <2>0. contacts[g][r] \in Nat
    BY <1>0 DEF TypeOK
  <2>a. j \in Job
    BY <1>0 DEF Job
  <2>b. n \in Nat
    BY <2>0
  <2>1. j \in Job /\ n \in Nat
    BY <2>a, <2>b
  <2>2. /\ job' = [job EXCEPT ![w] = j]
        /\ contacts' = [contacts EXCEPT ![g][r] = n]
    BY <1>18, <1>0 DEF Transmit, TypeOK
  <2>3. job' \in [Workers -> Job]
    BY <2>1, <2>2, JobIsTyped
  <2> HIDE DEF n
  <2>4. contacts' \in [Groups -> [Requests -> Nat]]
    BY <2>1, <2>2, <1>0 DEF TypeOK
  <2> QED
    BY <1>18, <2>3, <2>4 DEF TypeOK, Transmit
<1>19. ASSUME NEW r \in Requests, Answer(w, r) PROVE TypeOK'
  <2>1. PICK s \in {"completed", "spoiled", "failed"}, t \in BOOLEAN :
          /\ call' = [call EXCEPT ![g][r] = s]
          /\ job' = [job EXCEPT ![w].out = @ \ {r}, ![w].throttled = @ \/ t]
    BY <1>19 DEF Answer
  <2> DEFINE u == job[w].throttled \/ t
             j == [job[w] EXCEPT !.out = @ \ {r}, !.throttled = u]
  <2>2. u \in BOOLEAN
    OBVIOUS
  <2>3. job' = [job EXCEPT ![w] = j]
    BY <2>1, <1>0
  <2> HIDE DEF u
  <2>4. j \in Job
    BY <2>2, <1>0 DEF Job
  <2>5. job' \in [Workers -> Job]
    BY <2>3, <2>4, JobIsTyped
  <2>6. call' \in [Groups -> [Requests -> CallState]]
    BY <2>1, <1>0, CallIsTyped DEF CallState
  <2> QED
    BY <1>19, <2>5, <2>6 DEF TypeOK, Answer
<1> QED
  BY <1>1, <1>2, <1>3, <1>4, <1>5, <1>6, <1>7, <1>8, <1>9, <1>10, <1>11,
     <1>12, <1>13, <1>14, <1>15, <1>16, <1>17, <1>18, <1>19 DEF Work

\* And so does every other step.
LEMMA OthersKeepTypes ==
  ASSUME TypeOK, [Next]_vars, \A w \in Workers : ~Work(w)
  PROVE  TypeOK'
<1> USE ConstantsAssumption
<1>0. Idle \in Job /\ \A w \in Workers : job[w] \in Job /\ job[w].g \in Groups
  BY DEF TypeOK, Job, Idle, Groups
<1>1. ASSUME NEW w \in Workers, Register(w) PROVE TypeOK'
  <2>1. PICK g \in Groups, t \in Transports,
             rs \in SUBSET {r \in Requests : Eligible(r)} \ {{}} :
          /\ group' = [group EXCEPT ![g] =
                         [state |-> "registered", transport |-> t]]
          /\ call' = [call EXCEPT ![g] = [r \in Requests |->
                         IF r \in rs THEN "reserved" ELSE "none"]]
          /\ job' = [job EXCEPT ![w].pc = "picked", ![w].g = g]
    BY <1>1 DEF Register
  <2> DEFINE f == [r \in Requests |-> IF r \in rs THEN "reserved" ELSE "none"]
             j == [job[w] EXCEPT !.pc = "picked", !.g = g]
  <2>2. f \in [Requests -> CallState] /\ j \in Job
    BY <1>0 DEF CallState, Job
  <2>3. job' = [job EXCEPT ![w] = j]
    BY <2>1, <1>0 DEF TypeOK
  <2>4. job' \in [Workers -> Job]
    BY <2>2, <2>3, JobIsTyped
  <2>5. call' \in [Groups -> [Requests -> CallState]]
    BY <2>1, <2>2, CallsAreTyped
  <2>6. group' \in [Groups -> Group]
    BY <2>1 DEF TypeOK, Group, ACTIVE_STATES, Outstanding
  <2> QED
    BY <1>1, <2>4, <2>5, <2>6 DEF TypeOK, Register
<1>2. ASSUME NEW w \in Workers, GiveUp(w) PROVE TypeOK'
  BY <1>2, GoIsTyped, HindranceIsTyped DEF TypeOK, GiveUp, Pcs
<1>2a. ASSUME NEW w \in Workers, SubmitUnidentified(w) PROVE TypeOK'
  BY <1>2a, GoIsTyped, HindranceIsTyped DEF TypeOK, SubmitUnidentified, Pcs
<1>3. ASSUME NEW w \in Workers, Die(w) PROVE TypeOK'
  BY <1>3, <1>0, HindranceIsTyped DEF TypeOK, Die
<1>4. ASSUME NEW w \in Workers, NEW g \in Groups, Pick(w, g) PROVE TypeOK'
  <2> DEFINE j == [job[w] EXCEPT !.pc = "picked", !.g = g]
  <2>1. j \in Job
    BY <1>0 DEF Job
  <2>2. job' = [job EXCEPT ![w] = j]
    BY <1>4, <1>0 DEF Pick, TypeOK
  <2>3. job' \in [Workers -> Job]
    BY <2>1, <2>2, JobIsTyped
  <2> QED
    BY <1>4, <2>3 DEF TypeOK, Pick
<1>5. ASSUME NEW w \in Workers, NEW r \in Requests, Unanswered(w, r)
      PROVE  TypeOK'
  <2> DEFINE g == job[w].g
             s == IF call[g][r] = "sent" THEN "ambiguous" ELSE call[g][r]
             j == [job[w] EXCEPT !.todo = @ \ {r}, !.out = @ \ {r}]
  <2>a. g \in Groups /\ j \in Job
    BY <1>0 DEF Job
  <2>b. call[g][r] \in CallState
    BY <2>a DEF TypeOK
  <2>1. g \in Groups /\ s \in CallState /\ j \in Job
    BY <2>a, <2>b DEF CallState
  <2>2. job' = [job EXCEPT ![w] = j] /\ call' = [call EXCEPT ![g][r] = s]
    BY <1>5, <1>0 DEF Unanswered, TypeOK
  <2>3. job' \in [Workers -> Job]
    BY <2>1, <2>2, JobIsTyped
  <2> HIDE DEF s, g
  <2>4. call' \in [Groups -> [Requests -> CallState]]
    BY <2>1, <2>2, CallIsTyped
  <2> QED
    BY <1>5, <2>3, <2>4, HindranceIsTyped DEF TypeOK, Unanswered
<1>6. ASSUME NEW g \in Groups, Receive(g) PROVE TypeOK'
  <2> DEFINE f == [r \in Requests |-> IF call[g][r] = "none"
                      THEN contacts[g][r] ELSE contacts[g][r] + 1]
  <2>1. \A r \in Requests : contacts[g][r] \in Nat
    BY DEF TypeOK
  <2>2. f \in [Requests -> Nat]
    BY <2>1
  <2>3. contacts' = [contacts EXCEPT ![g] = f]
    BY <1>6 DEF Receive, TypeOK
  <2> HIDE DEF f
  <2>4. contacts' \in [Groups -> [Requests -> Nat]]
    BY <2>2, <2>3 DEF TypeOK
  <2>5. provider[g] \in Provider
    BY DEF TypeOK
  <2>6. [provider[g] EXCEPT !.status = "running"] \in Provider
    BY <2>5 DEF Provider
  <2>7. provider' \in [Groups -> Provider]
    BY <1>6, <2>6 DEF TypeOK, Receive
  <2> QED
    BY <1>6, <2>4, <2>7 DEF TypeOK, Receive
<1>7. ASSUME NEW g \in Groups, Lose(g) PROVE TypeOK'
  <2>1. provider[g] \in Provider
    BY DEF TypeOK
  <2>2. [provider[g] EXCEPT !.status = "none"] \in Provider
    BY <2>1 DEF Provider
  <2>3. provider' \in [Groups -> Provider]
    BY <1>7, <2>2 DEF TypeOK, Lose
  <2> QED
    BY <1>7, <2>3, HindranceIsTyped DEF TypeOK, Lose
<1>8. ASSUME NEW g \in Groups, Finish(g) PROVE TypeOK'
  BY <1>8 DEF TypeOK, Finish, Provider, Calls
<1>9. ASSUME NEW g \in Groups, Expire(g) PROVE TypeOK'
  BY <1>9, HindranceIsTyped DEF TypeOK, Expire
<1>10. ASSUME NEW g \in Groups, NEW r \in Requests, Close(g, r) PROVE TypeOK'
  BY <1>10, CallIsTyped DEF TypeOK, Close, CallState
<1>11. ASSUME NEW g \in Groups, NEW r \in Requests, Spoil(g, r) PROVE TypeOK'
  BY <1>11, CallIsTyped DEF TypeOK, Spoil, CallState
<1>12. CASE Pause
  <2>1. ctl' \in [paused : BOOLEAN, expired : BOOLEAN]
    BY <1>12 DEF TypeOK, Pause
  <2>2. holder' \in [Groups -> Workers \cup {NoOne}]
    BY <1>12 DEF TypeOK, Pause, RevokeClaims
  <2> QED
    BY <1>12, <2>1, <2>2, HindranceIsTyped DEF TypeOK, Pause
<1>13. CASE Resume
  BY <1>13 DEF TypeOK, Resume, RevokeClaims
<1>14. CASE DeadlinePasses
  BY <1>14, HindranceIsTyped DEF TypeOK, DeadlinePasses
<1>15. CASE UNCHANGED vars
  BY <1>15 DEF TypeOK, vars
<1> QED
  BY <1>1, <1>2, <1>2a, <1>3, <1>4, <1>5, <1>6, <1>7, <1>8, <1>9, <1>10, <1>11,
     <1>12, <1>13, <1>14, <1>15 DEF Next

\* The types are kept by every step.
LEMMA StepKeepsTypes == TypeOK /\ [Next]_vars => TypeOK'
  BY WorkKeepsTypes, OthersKeepTypes
-----------------------------------------------------------------------------
(* What the branching steps of a controller come to *)

\* A controller ends its turn and nothing else happens.
EndsTurn(w, pc) ==
  /\ job' = [job EXCEPT ![w].pc = pc]
  /\ UNCHANGED <<group, holder, call, provider, contacts>>

\* A controller gives up its pass.
Stops(w) ==
  /\ job' = [job EXCEPT ![w] = Idle]
  /\ UNCHANGED <<group, holder, call, provider, contacts>>

\* A free group is claimed.
TakesClaim(w) ==
  /\ job' = [job EXCEPT ![w].pc = "claimed"]
  /\ holder[job[w].g] = NoOne /\ holder' = [holder EXCEPT ![job[w].g] = w]
  /\ UNCHANGED <<group, call, provider, contacts>>

\* The calls of a native group are marked sent.
MarksCalls(w) ==
  LET g == job[w].g IN
  /\ job' = [job EXCEPT ![w].pc = "submit"]
  /\ group' = [group EXCEPT ![g].state = "submitting"]
  /\ call' = [call EXCEPT ![g] = [r \in Requests |->
                IF call[g][r] = "reserved" THEN "sent" ELSE call[g][r]]]
  /\ UNCHANGED <<holder, provider, contacts>>

\* The submission goes out.
SendsBatch(w) ==
  /\ job' = [job EXCEPT ![w].pc = "awaiting"]
  /\ provider' = [provider EXCEPT ![job[w].g].status = "coming"]
  /\ UNCHANGED <<group, holder, call, contacts>>

\* The wave of a direct group is marked sent, what was left sent is given up.
MarksWave(w, wave) ==
  LET g == job[w].g IN
  /\ \A r \in wave : call[g][r] = "reserved"
  /\ job' = [job EXCEPT ![w] = [job[w] EXCEPT !.pc = "sending", !.todo = wave]]
  /\ group' = [group EXCEPT ![g].state = "waiting"]
  /\ call' = [call EXCEPT ![g] = [r \in Requests |->
                IF r \in wave THEN "sent"
                ELSE IF call[g][r] = "sent" THEN "ambiguous" ELSE call[g][r]]]
  /\ UNCHANGED <<holder, provider, contacts>>

\* The outputs of a finished batch are there to be imported.
ReadsBatch(w) ==
  /\ provider[job[w].g].status = "done"
  /\ group' = [group EXCEPT ![job[w].g].state = "importing"]
  /\ UNCHANGED <<job, holder, call, provider, contacts>>

\* claim_batch gives the claim of a group nobody holds, or ends the pass.
LEMMA ClaimEffect ==
  ASSUME TypeOK, NEW w \in Workers, Claim(w)
  PROVE  job[w].pc = "picked" /\ (TakesClaim(w) \/ Stops(w))
BY DEF Claim, Go, TakesClaim, Stops

\* A stale controller stops, or waits for the threads of its wave.
LEMMA StaleEffect ==
  ASSUME TypeOK, NEW w \in Workers, Stale(w)
  PROVE  /\ job[w].pc \notin {"idle", "picked", "draining"} /\ ~Fenced(w)
         /\ \/ Stops(w)
            \/ job[w].todo # {} /\ EndsTurn(w, "draining")
BY DEF Stale, Go, EndsTurn, Stops

\* All reserved calls of an uploaded group are marked sent, or none is.
LEMMA MarkEffect ==
  ASSUME TypeOK, NEW w \in Workers, mark_submitting(w)
  PROVE  /\ job[w].pc = "claimed" /\ Fenced(w)
         /\ group[job[w].g].transport = "batch"
         /\ group[job[w].g].state = "uploaded"
         /\ MarksCalls(w) \/ EndsTurn(w, "leaving")
<1>1. job[w].g \in Groups
  BY DEF TypeOK, Job
<1>2. CASE MayStart
  BY <1>1, <1>2 DEF TypeOK, mark_submitting, Native, SetState, Go, MarksCalls
<1>3. CASE ~MayStart
  BY <1>3 DEF mark_submitting, Native, Go, EndsTurn
<1> QED
  BY <1>2, <1>3

\* The batch is submitted, or the admission was withdrawn.
LEMMA SubmitEffect ==
  ASSUME TypeOK, NEW w \in Workers, Submit(w)
  PROVE  /\ job[w].pc = "submit" /\ Fenced(w)
         /\ SendsBatch(w) \/ EndsTurn(w, "leaving")
<1>1. CASE MayStart
  BY <1>1 DEF Submit, Go, SendsBatch
<1>2. CASE ~MayStart
  BY <1>2 DEF Submit, Go, EndsTurn
<1> QED
  BY <1>1, <1>2

\* A wave of reserved calls is marked sent and what was sent is given up.
LEMMA StartWaveEffect ==
  ASSUME TypeOK, NEW w \in Workers, StartWave(w)
  PROVE  /\ job[w].pc = "claimed" /\ Fenced(w)
         /\ group[job[w].g].transport = "direct"
         /\ \/ EndsTurn(w, "leaving")
            \/ \E wave \in SUBSET Requests : MarksWave(w, wave)
<1> DEFINE g == job[w].g
<1>1. g \in Groups /\ job[w] \in Job
  BY DEF TypeOK, Job
<1>2. CASE MayStart
  <2>1. PICK wave \in SUBSET Calls(g, {"reserved"}) :
          /\ call' = [call EXCEPT ![g] = [r \in Requests |->
                        IF r \in wave THEN "sent"
                        ELSE IF @[r] = "sent" THEN "ambiguous" ELSE @[r]]]
          /\ SetState(g, "waiting")
          /\ job' = [job EXCEPT ![w].pc = "sending", ![w].todo = wave]
    BY <1>2 DEF StartWave
  <2>2. wave \in SUBSET Requests /\ \A r \in wave : call[g][r] = "reserved"
    BY <2>1 DEF Calls
  <2>3. job' = [job EXCEPT ![w] = [job[w] EXCEPT !.pc = "sending",
                                                 !.todo = wave]]
    BY <2>1, <1>1 DEF TypeOK
  <2>4. call' = [call EXCEPT ![g] = [r \in Requests |->
                  IF r \in wave THEN "sent" ELSE
                  IF call[g][r] = "sent" THEN "ambiguous" ELSE call[g][r]]]
    BY <2>1, <1>1 DEF TypeOK
  <2>5. MarksWave(w, wave)
    BY <2>1, <2>2, <2>3, <2>4 DEF StartWave, SetState, MarksWave
  <2> QED
    BY <2>2, <2>5 DEF StartWave
<1>3. CASE ~MayStart
  BY <1>3 DEF StartWave, Go, EndsTurn
<1> QED
  BY <1>2, <1>3

\* The provider's batch is read, or it is not finished.
LEMMA PollEffect ==
  ASSUME TypeOK, NEW w \in Workers, Poll(w)
  PROVE  /\ job[w].pc = "claimed" /\ Fenced(w)
         /\ group[job[w].g].transport = "batch"
         /\ group[job[w].g].state = "waiting"
         /\ ReadsBatch(w) \/ EndsTurn(w, "leaving")
<1>1. CASE provider[job[w].g].status = "done"
  BY <1>1 DEF Poll, Native, SetState, ReadsBatch
<1>2. CASE provider[job[w].g].status # "done"
  BY <1>2 DEF Poll, Native, Go, EndsTurn
<1> QED
  BY <1>1, <1>2

-----------------------------------------------------------------------------
(* How calls move *)

\* What may become of a call: it is sent, given up or settled, a usable reply
\* may be rejected later, and what was given up is written off at most.
MovesOn(a, b) ==
  \/ a = b
  \/ a = "reserved" /\ b = "sent"
  \/ a = "sent" /\ b \in {"ambiguous", "completed", "spoiled", "failed"}
  \/ a = "ambiguous" /\ b = "closed"
  \/ a = "completed" /\ b = "spoiled"

\* Without a registration every call only moves on: what was given up as
\* ambiguous is never answered.
LEMMA CallsMoveOn ==
  ASSUME TypeOK, GroupsAreOrdered, WavesAreOrdered, [Next]_vars,
         \A w \in Workers : ~Register(w), NEW h \in Groups, NEW q \in Requests
  PROVE  MovesOn(call[h][q], call'[h][q])
<1>0. /\ \A w \in Workers : job[w] \in Job /\ job[w].g \in Groups
      /\ call \in [Groups -> [Requests -> CallState]]
      /\ \A w \in Workers : WaveIsOrdered(w)
      /\ \A g \in Groups : Submitted(g)
  BY DEF TypeOK, Job, GroupsAreOrdered, GroupIsOrdered, WavesAreOrdered
<1>1. ASSUME NEW w \in Workers, Claim(w)
      PROVE  MovesOn(call[h][q], call'[h][q])
  <2>0. job[w].pc = "picked"
    BY <1>1, ClaimEffect
  <2>1. CASE TakesClaim(w)
    BY <2>0, <2>1 DEF TakesClaim, MovesOn
  <2>2. CASE Stops(w)
    BY <2>0, <2>2 DEF Stops, MovesOn
  <2> QED
    BY <1>1, <2>1, <2>2, ClaimEffect
<1>2. ASSUME NEW w \in Workers, Leave(w)
      PROVE  MovesOn(call[h][q], call'[h][q])
  BY <1>2 DEF Leave, MovesOn
<1>3. ASSUME NEW w \in Workers, Stale(w)
      PROVE  MovesOn(call[h][q], call'[h][q])
  <2>0. job[w].pc \notin {"idle", "picked"} /\ ~Fenced(w)
    BY <1>3, StaleEffect
  <2>1. CASE Stops(w)
    BY <2>0, <2>1 DEF Stops, MovesOn
  <2>2. CASE job[w].todo # {} /\ EndsTurn(w, "draining")
    BY <2>0, <2>2 DEF EndsTurn, MovesOn
  <2> QED
    BY <1>3, <2>1, <2>2, StaleEffect
<1>4. ASSUME NEW w \in Workers, StartUpload(w)
      PROVE  MovesOn(call[h][q], call'[h][q])
  BY <1>4 DEF StartUpload, MovesOn
<1>5. ASSUME NEW w \in Workers, FinishUpload(w)
      PROVE  MovesOn(call[h][q], call'[h][q])
  BY <1>5 DEF FinishUpload, MovesOn
<1>6. ASSUME NEW w \in Workers, mark_submitting(w)
      PROVE  MovesOn(call[h][q], call'[h][q])
  <2>0. /\ job[w].pc = "claimed" /\ Fenced(w)
        /\ group[job[w].g].transport = "batch"
        /\ group[job[w].g].state = "uploaded"
    BY <1>6, MarkEffect
  <2>1. CASE MarksCalls(w)
    BY <2>0, <2>1 DEF MarksCalls, MovesOn
  <2>2. CASE EndsTurn(w, "leaving")
    BY <2>0, <2>2 DEF EndsTurn, MovesOn
  <2> QED
    BY <1>6, <2>1, <2>2, MarkEffect
<1>7. ASSUME NEW w \in Workers, Submit(w)
      PROVE  MovesOn(call[h][q], call'[h][q])
  <2>0. job[w].pc = "submit" /\ Fenced(w)
    BY <1>7, SubmitEffect
  <2>1. CASE SendsBatch(w)
    BY <2>0, <2>1 DEF SendsBatch, MovesOn
  <2>2. CASE EndsTurn(w, "leaving")
    BY <2>0, <2>2 DEF EndsTurn, MovesOn
  <2> QED
    BY <1>7, <2>1, <2>2, SubmitEffect
<1>8. ASSUME NEW w \in Workers, SubmitAnswered(w)
      PROVE  MovesOn(call[h][q], call'[h][q])
  BY <1>8 DEF SubmitAnswered, MovesOn
<1>9. ASSUME NEW w \in Workers, SubmitFailed(w)
      PROVE  MovesOn(call[h][q], call'[h][q])
  BY <1>9 DEF SubmitFailed, MovesOn
<1>10. ASSUME NEW w \in Workers, Reconcile(w)
       PROVE  MovesOn(call[h][q], call'[h][q])
  BY <1>10 DEF Reconcile, MovesOn
<1>11. ASSUME NEW w \in Workers, Poll(w)
       PROVE  MovesOn(call[h][q], call'[h][q])
  <2>0. /\ job[w].pc = "claimed" /\ Fenced(w)
        /\ group[job[w].g].transport = "batch"
        /\ group[job[w].g].state = "waiting"
    BY <1>11, PollEffect
  <2>1. CASE EndsTurn(w, "leaving")
    BY <2>0, <2>1 DEF EndsTurn, MovesOn
  <2>2. CASE ReadsBatch(w)
    BY <2>0, <2>2 DEF ReadsBatch, MovesOn
  <2> QED
    BY <1>11, <2>1, <2>2, PollEffect
<1>12. ASSUME NEW w \in Workers, Import(w)
       PROVE  MovesOn(call[h][q], call'[h][q])
  BY <1>12, <1>0
  DEF Import, MovesOn, Submitted, After, Native, Unimported, Calls
<1>13. ASSUME NEW w \in Workers, FinishImport(w)
       PROVE  MovesOn(call[h][q], call'[h][q])
  BY <1>13, <1>0 DEF FinishImport, MovesOn, Submitted, After, Native, Calls
<1>14. ASSUME NEW w \in Workers, NothingToDo(w)
       PROVE  MovesOn(call[h][q], call'[h][q])
  BY <1>14 DEF NothingToDo, MovesOn
<1>15. ASSUME NEW w \in Workers, StartWave(w)
       PROVE  MovesOn(call[h][q], call'[h][q])
  <2>1. ASSUME NEW wave \in SUBSET Requests, MarksWave(w, wave)
        PROVE  MovesOn(call[h][q], call'[h][q])
    <3>1. CASE h = job[w].g
      <4>1. call'[h][q] = IF q \in wave THEN "sent" ELSE
                          IF call[h][q] = "sent" THEN "ambiguous"
                          ELSE call[h][q]
        BY <2>1, <3>1, <1>0 DEF MarksWave
      <4>2. q \in wave => call[h][q] = "reserved"
        BY <2>1, <3>1 DEF MarksWave
      <4> QED
        BY <4>1, <4>2 DEF MovesOn
    <3>2. CASE h # job[w].g
      BY <2>1, <3>2, <1>0 DEF MarksWave, MovesOn
    <3> QED
      BY <3>1, <3>2
  <2>2. CASE EndsTurn(w, "leaving")
    BY <2>2 DEF EndsTurn, MovesOn
  <2> QED
    BY <1>15, <2>1, <2>2, StartWaveEffect
<1>16. ASSUME NEW w \in Workers, EndWave(w)
       PROVE  MovesOn(call[h][q], call'[h][q])
  BY <1>16 DEF EndWave, MovesOn
<1>17. ASSUME NEW w \in Workers, Drained(w)
       PROVE  MovesOn(call[h][q], call'[h][q])
  BY <1>17 DEF Drained, MovesOn
<1>18. ASSUME NEW w \in Workers, Register(w)
       PROVE  MovesOn(call[h][q], call'[h][q])
  BY <1>18 DEF Register, MovesOn
<1>19. ASSUME NEW w \in Workers, GiveUp(w)
       PROVE  MovesOn(call[h][q], call'[h][q])
  BY <1>19 DEF GiveUp, MovesOn
<1>19a. ASSUME NEW w \in Workers, SubmitUnidentified(w)
       PROVE  MovesOn(call[h][q], call'[h][q])
  BY <1>19a DEF SubmitUnidentified, MovesOn
<1>20. ASSUME NEW w \in Workers, Die(w) PROVE MovesOn(call[h][q], call'[h][q])
  BY <1>20 DEF Die, MovesOn
<1>21. ASSUME NEW w \in Workers, NEW r \in Requests, Transmit(w, r)
       PROVE  MovesOn(call[h][q], call'[h][q])
  BY <1>21 DEF Transmit, MovesOn
<1>22. ASSUME NEW w \in Workers, NEW r \in Requests, Answer(w, r)
       PROVE  MovesOn(call[h][q], call'[h][q])
  BY <1>22, <1>0 DEF Answer, MovesOn, WaveIsOrdered
<1>23. ASSUME NEW w \in Workers, NEW r \in Requests, Unanswered(w, r)
       PROVE  MovesOn(call[h][q], call'[h][q])
  BY <1>23 DEF Unanswered, MovesOn
<1>24. ASSUME NEW w \in Workers, NEW g \in Groups, Pick(w, g)
       PROVE  MovesOn(call[h][q], call'[h][q])
  BY <1>24 DEF Pick, MovesOn
<1>25. ASSUME NEW g \in Groups, Receive(g)
       PROVE  MovesOn(call[h][q], call'[h][q])
  BY <1>25 DEF Receive, MovesOn
<1>26. ASSUME NEW g \in Groups, Lose(g) PROVE MovesOn(call[h][q], call'[h][q])
  BY <1>26 DEF Lose, MovesOn
<1>27. ASSUME NEW g \in Groups, Finish(g)
       PROVE  MovesOn(call[h][q], call'[h][q])
  BY <1>27 DEF Finish, MovesOn
<1>28. ASSUME NEW g \in Groups, Expire(g)
       PROVE  MovesOn(call[h][q], call'[h][q])
  BY <1>28 DEF Expire, MovesOn
<1>29. ASSUME NEW g \in Groups, NEW r \in Requests, Close(g, r)
       PROVE  MovesOn(call[h][q], call'[h][q])
  BY <1>29 DEF Close, MovesOn
<1>30. ASSUME NEW g \in Groups, NEW r \in Requests, Spoil(g, r)
       PROVE  MovesOn(call[h][q], call'[h][q])
  BY <1>30 DEF Spoil, MovesOn
<1>31. CASE Pause
  BY <1>31 DEF Pause, MovesOn
<1>32. CASE Resume
  BY <1>32 DEF Resume, MovesOn
<1>33. CASE DeadlinePasses
  BY <1>33 DEF DeadlinePasses, MovesOn
<1>34. CASE UNCHANGED vars
  BY <1>34 DEF vars, MovesOn
<1> QED
  BY <1>1, <1>2, <1>3, <1>4, <1>5, <1>6, <1>7, <1>8, <1>9, <1>10, <1>11,
     <1>12, <1>13, <1>14, <1>15, <1>16, <1>17, <1>18, <1>19, <1>19a, <1>20,
     <1>21,
     <1>22, <1>23, <1>24, <1>25, <1>26, <1>27, <1>28, <1>29, <1>30, <1>31,
     <1>32, <1>33, <1>34 DEF Next, Work

-----------------------------------------------------------------------------
(* The parts of the invariant, step by step *)

\* Every step keeps what a controller may still say about its group.
LEMMA JobsStayOrdered ==
  ASSUME TypeOK, GroupsAreOrdered, JobsAreOrdered, [Next]_vars,
         NEW v \in Workers
  PROVE  JobIsOrdered(v)'
<1>0. /\ \A w \in Workers : job[w] \in Job /\ job[w].g \in Groups
      /\ job \in [Workers -> Job]
      /\ group \in [Groups -> Group] /\ provider \in [Groups -> Provider]
      /\ holder \in [Groups -> Workers \cup {NoOne}]
      /\ \A w \in Workers : JobIsOrdered(w)
      /\ \A g \in Groups : NotSubmitted(g)
  BY DEF TypeOK, Job, JobsAreOrdered, GroupsAreOrdered, GroupIsOrdered
<1>1. ASSUME NEW w \in Workers, Claim(w) PROVE JobIsOrdered(v)'
  <2>0. job[w].pc = "picked"
    BY <1>1, ClaimEffect
  <2>1. CASE TakesClaim(w)
    BY <2>0, <2>1, <1>0 DEF TakesClaim, JobIsOrdered, Fenced
  <2>2. CASE Stops(w)
    BY <2>0, <2>2, <1>0 DEF Stops, JobIsOrdered, Fenced, Idle
  <2> QED
    BY <1>1, <2>1, <2>2, ClaimEffect
<1>2. ASSUME NEW w \in Workers, Leave(w) PROVE JobIsOrdered(v)'
  BY <1>2, <1>0, ConstantsAssumption DEF Leave, JobIsOrdered, Fenced, Idle
<1>3. ASSUME NEW w \in Workers, Stale(w) PROVE JobIsOrdered(v)'
  <2>0. job[w].pc \notin {"idle", "picked"} /\ ~Fenced(w)
    BY <1>3, StaleEffect
  <2>1. CASE Stops(w)
    BY <2>0, <2>1, <1>0 DEF Stops, JobIsOrdered, Fenced, Idle
  <2>2. CASE job[w].todo # {} /\ EndsTurn(w, "draining")
    BY <2>0, <2>2, <1>0 DEF EndsTurn, JobIsOrdered, Fenced
  <2> QED
    BY <1>3, <2>1, <2>2, StaleEffect
<1>4. ASSUME NEW w \in Workers, StartUpload(w) PROVE JobIsOrdered(v)'
  BY <1>4, <1>0 DEF StartUpload, JobIsOrdered, Fenced, Native, SetState, Go
<1>5. ASSUME NEW w \in Workers, FinishUpload(w) PROVE JobIsOrdered(v)'
  BY <1>5, <1>0 DEF FinishUpload, JobIsOrdered, Fenced, SetState, Go
<1>6. ASSUME NEW w \in Workers, mark_submitting(w) PROVE JobIsOrdered(v)'
  <2>0. /\ job[w].pc = "claimed" /\ Fenced(w)
        /\ group[job[w].g].transport = "batch"
        /\ group[job[w].g].state = "uploaded"
    BY <1>6, MarkEffect
  <2>1. CASE MarksCalls(w)
    BY <2>0, <2>1, <1>0
    DEF MarksCalls, JobIsOrdered, Fenced, NotSubmitted, Before
  <2>2. CASE EndsTurn(w, "leaving")
    BY <2>0, <2>2, <1>0 DEF EndsTurn, JobIsOrdered, Fenced
  <2> QED
    BY <1>6, <2>1, <2>2, MarkEffect
<1>7. ASSUME NEW w \in Workers, Submit(w) PROVE JobIsOrdered(v)'
  <2>0. job[w].pc = "submit" /\ Fenced(w)
    BY <1>7, SubmitEffect
  <2>1. CASE SendsBatch(w)
    BY <2>0, <2>1, <1>0 DEF SendsBatch, JobIsOrdered, Fenced
  <2>2. CASE EndsTurn(w, "leaving")
    BY <2>0, <2>2, <1>0 DEF EndsTurn, JobIsOrdered, Fenced
  <2> QED
    BY <1>7, <2>1, <2>2, SubmitEffect
<1>8. ASSUME NEW w \in Workers, SubmitAnswered(w) PROVE JobIsOrdered(v)'
  BY <1>8, <1>0 DEF SubmitAnswered, JobIsOrdered, Fenced, SetState, Go
<1>9. ASSUME NEW w \in Workers, SubmitFailed(w) PROVE JobIsOrdered(v)'
  BY <1>9, <1>0 DEF SubmitFailed, JobIsOrdered, Fenced, SetState, Go
<1>10. ASSUME NEW w \in Workers, Reconcile(w) PROVE JobIsOrdered(v)'
  BY <1>10, <1>0 DEF Reconcile, JobIsOrdered, Fenced, Native, SetState, Go
<1>11. ASSUME NEW w \in Workers, Poll(w) PROVE JobIsOrdered(v)'
  <2>0. /\ job[w].pc = "claimed" /\ Fenced(w)
        /\ group[job[w].g].transport = "batch"
        /\ group[job[w].g].state = "waiting"
    BY <1>11, PollEffect
  <2>1. CASE EndsTurn(w, "leaving")
    BY <2>0, <2>1, <1>0 DEF EndsTurn, JobIsOrdered, Fenced
  <2>2. CASE ReadsBatch(w)
    BY <2>0, <2>2, <1>0 DEF ReadsBatch, JobIsOrdered, Fenced
  <2> QED
    BY <1>11, <2>1, <2>2, PollEffect
<1>12. ASSUME NEW w \in Workers, Import(w) PROVE JobIsOrdered(v)'
  BY <1>12, <1>0 DEF Import, JobIsOrdered, Fenced
<1>13. ASSUME NEW w \in Workers, FinishImport(w) PROVE JobIsOrdered(v)'
  BY <1>13, <1>0 DEF FinishImport, JobIsOrdered, Fenced, Native, SetState, Go
<1>14. ASSUME NEW w \in Workers, NothingToDo(w) PROVE JobIsOrdered(v)'
  BY <1>14, <1>0 DEF NothingToDo, JobIsOrdered, Fenced, Native, Go
<1>15. ASSUME NEW w \in Workers, StartWave(w) PROVE JobIsOrdered(v)'
  <2>0. /\ job[w].pc = "claimed" /\ Fenced(w)
        /\ group[job[w].g].transport = "direct"
    BY <1>15, StartWaveEffect
  <2>1. ASSUME NEW wave \in SUBSET Requests, MarksWave(w, wave)
        PROVE  JobIsOrdered(v)'
    BY <2>0, <2>1, <1>0 DEF MarksWave, JobIsOrdered, Fenced
  <2>2. CASE EndsTurn(w, "leaving")
    BY <2>0, <2>2, <1>0 DEF EndsTurn, JobIsOrdered, Fenced
  <2> QED
    BY <1>15, <2>1, <2>2, StartWaveEffect
<1>16. ASSUME NEW w \in Workers, EndWave(w) PROVE JobIsOrdered(v)'
  BY <1>16, <1>0 DEF EndWave, JobIsOrdered, Fenced, SetState
<1>17. ASSUME NEW w \in Workers, Drained(w) PROVE JobIsOrdered(v)'
  BY <1>17, <1>0 DEF Drained, JobIsOrdered, Fenced, Idle
<1>18. ASSUME NEW w \in Workers, Register(w) PROVE JobIsOrdered(v)'
  BY <1>18, <1>0 DEF Register, JobIsOrdered, Fenced
<1>19. ASSUME NEW w \in Workers, GiveUp(w) PROVE JobIsOrdered(v)'
  BY <1>19, <1>0 DEF GiveUp, JobIsOrdered, Fenced, Go
<1>19a. ASSUME NEW w \in Workers, SubmitUnidentified(w) PROVE JobIsOrdered(v)'
  BY <1>19a, <1>0 DEF SubmitUnidentified, JobIsOrdered, Fenced, Go
<1>20. ASSUME NEW w \in Workers, Die(w) PROVE JobIsOrdered(v)'
  BY <1>20, <1>0 DEF Die, JobIsOrdered, Fenced, Idle
<1>21. ASSUME NEW w \in Workers, NEW r \in Requests, Transmit(w, r)
       PROVE  JobIsOrdered(v)'
  BY <1>21, <1>0 DEF Transmit, JobIsOrdered, Fenced
<1>22. ASSUME NEW w \in Workers, NEW r \in Requests, Answer(w, r)
       PROVE  JobIsOrdered(v)'
  BY <1>22, <1>0 DEF Answer, JobIsOrdered, Fenced
<1>23. ASSUME NEW w \in Workers, NEW r \in Requests, Unanswered(w, r)
       PROVE  JobIsOrdered(v)'
  BY <1>23, <1>0 DEF Unanswered, JobIsOrdered, Fenced
<1>24. ASSUME NEW w \in Workers, NEW g \in Groups, Pick(w, g)
       PROVE  JobIsOrdered(v)'
  BY <1>24, <1>0
  DEF Pick, JobIsOrdered, Fenced, InSlice, Active, ACTIVE_STATES, Outstanding
<1>25. ASSUME NEW g \in Groups, Receive(g) PROVE JobIsOrdered(v)'
  BY <1>25, <1>0 DEF Receive, JobIsOrdered, Fenced
<1>26. ASSUME NEW g \in Groups, Lose(g) PROVE JobIsOrdered(v)'
  BY <1>26, <1>0 DEF Lose, JobIsOrdered, Fenced
<1>27. ASSUME NEW g \in Groups, Finish(g) PROVE JobIsOrdered(v)'
  BY <1>27, <1>0 DEF Finish, JobIsOrdered, Fenced
<1>28. ASSUME NEW g \in Groups, Expire(g) PROVE JobIsOrdered(v)'
  BY <1>28, <1>0, ConstantsAssumption DEF Expire, JobIsOrdered, Fenced
<1>29. ASSUME NEW g \in Groups, NEW r \in Requests, Close(g, r)
       PROVE  JobIsOrdered(v)'
  BY <1>29, <1>0 DEF Close, JobIsOrdered, Fenced
<1>30. ASSUME NEW g \in Groups, NEW r \in Requests, Spoil(g, r)
       PROVE  JobIsOrdered(v)'
  BY <1>30, <1>0 DEF Spoil, JobIsOrdered, Fenced
<1>31. CASE Pause
  BY <1>31, <1>0, ConstantsAssumption
  DEF Pause, JobIsOrdered, Fenced, RevokeClaims
<1>32. CASE Resume
  BY <1>32, <1>0, ConstantsAssumption
  DEF Resume, JobIsOrdered, Fenced, RevokeClaims
<1>33. CASE DeadlinePasses
  BY <1>33, <1>0 DEF DeadlinePasses, JobIsOrdered, Fenced
<1>34. CASE UNCHANGED vars
  BY <1>34, <1>0 DEF vars, JobIsOrdered, Fenced
<1> QED
  BY <1>1, <1>2, <1>3, <1>4, <1>5, <1>6, <1>7, <1>8, <1>9, <1>10, <1>11,
     <1>12, <1>13, <1>14, <1>15, <1>16, <1>17, <1>18, <1>19, <1>19a, <1>20,
     <1>21,
     <1>22, <1>23, <1>24, <1>25, <1>26, <1>27, <1>28, <1>29, <1>30, <1>31,
     <1>32, <1>33, <1>34 DEF Next, Work

\* Every step keeps what the state of a group says about its calls and its
\* provider.
LEMMA GroupsStayOrdered ==
  ASSUME TypeOK, GroupsAreOrdered, JobsAreOrdered, WavesAreOrdered,
         OutcomesAreContacted, [Next]_vars, NEW h \in Groups
  PROVE  GroupIsOrdered(h)'
<1>0. /\ \A w \in Workers : job[w] \in Job /\ job[w].g \in Groups
      /\ job \in [Workers -> Job]
      /\ group \in [Groups -> Group] /\ provider \in [Groups -> Provider]
      /\ holder \in [Groups -> Workers \cup {NoOne}]
      /\ call \in [Groups -> [Requests -> CallState]]
      /\ contacts \in [Groups -> [Requests -> Nat]]
      /\ \A w \in Workers : JobIsOrdered(w) /\ WaveIsOrdered(w)
      /\ GroupIsOrdered(h)
      /\ \A r \in Requests : contacts[h][r] \in {0, 1}
  BY DEF TypeOK, Job, JobsAreOrdered, GroupsAreOrdered, WavesAreOrdered,
     OutcomesAreContacted, IsContacted
<1>1. ASSUME NEW w \in Workers, Claim(w) PROVE GroupIsOrdered(h)'
  <2>0. job[w].pc = "picked"
    BY <1>1, ClaimEffect
  <2>1. CASE TakesClaim(w)
    BY <2>0, <2>1, <1>0
    DEF TakesClaim, GroupIsOrdered, NotBegun, NotSubmitted, Submitted,
        DirectHasNoBatch, Before, After
  <2>2. CASE Stops(w)
    BY <2>0, <2>2, <1>0
    DEF Stops, GroupIsOrdered, NotBegun, NotSubmitted, Submitted,
        DirectHasNoBatch, Before, After
  <2> QED
    BY <1>1, <2>1, <2>2, ClaimEffect
<1>2. ASSUME NEW w \in Workers, Leave(w) PROVE GroupIsOrdered(h)'
  BY <1>2, <1>0
  DEF Leave, GroupIsOrdered, NotBegun, NotSubmitted, Submitted,
      DirectHasNoBatch, Before, After
<1>3. ASSUME NEW w \in Workers, Stale(w) PROVE GroupIsOrdered(h)'
  <2>0. job[w].pc \notin {"idle", "picked"} /\ ~Fenced(w)
    BY <1>3, StaleEffect
  <2>1. CASE Stops(w)
    BY <2>0, <2>1, <1>0
    DEF Stops, GroupIsOrdered, NotBegun, NotSubmitted, Submitted,
        DirectHasNoBatch, Before, After
  <2>2. CASE job[w].todo # {} /\ EndsTurn(w, "draining")
    BY <2>0, <2>2, <1>0
    DEF EndsTurn, GroupIsOrdered, NotBegun, NotSubmitted, Submitted,
        DirectHasNoBatch, Before, After
  <2> QED
    BY <1>3, <2>1, <2>2, StaleEffect
<1>4. ASSUME NEW w \in Workers, StartUpload(w) PROVE GroupIsOrdered(h)'
  BY <1>4, <1>0
  DEF StartUpload, GroupIsOrdered, NotBegun, NotSubmitted, Submitted,
      DirectHasNoBatch, Before, After, Native, SetState
<1>5. ASSUME NEW w \in Workers, FinishUpload(w) PROVE GroupIsOrdered(h)'
  BY <1>5, <1>0
  DEF FinishUpload, GroupIsOrdered, NotBegun, NotSubmitted, Submitted,
      DirectHasNoBatch, Before, After, JobIsOrdered, SetState
<1>6. ASSUME NEW w \in Workers, mark_submitting(w) PROVE GroupIsOrdered(h)'
  <2>0. /\ job[w].pc = "claimed" /\ Fenced(w)
        /\ group[job[w].g].transport = "batch"
        /\ group[job[w].g].state = "uploaded"
    BY <1>6, MarkEffect
  <2>1. CASE MarksCalls(w)
    BY <2>0, <2>1, <1>0
    DEF MarksCalls, GroupIsOrdered, NotBegun, NotSubmitted, Submitted,
        DirectHasNoBatch, Before, After
  <2>2. CASE EndsTurn(w, "leaving")
    BY <2>0, <2>2, <1>0
    DEF EndsTurn, GroupIsOrdered, NotBegun, NotSubmitted, Submitted,
        DirectHasNoBatch, Before, After
  <2> QED
    BY <1>6, <2>1, <2>2, MarkEffect
<1>7. ASSUME NEW w \in Workers, Submit(w) PROVE GroupIsOrdered(h)'
  <2>0. job[w].pc = "submit" /\ Fenced(w)
    BY <1>7, SubmitEffect
  <2>1. CASE SendsBatch(w)
    BY <2>0, <2>1, <1>0
    DEF SendsBatch, GroupIsOrdered, NotBegun, NotSubmitted, Submitted,
        DirectHasNoBatch, Before, After, JobIsOrdered
  <2>2. CASE EndsTurn(w, "leaving")
    BY <2>0, <2>2, <1>0
    DEF EndsTurn, GroupIsOrdered, NotBegun, NotSubmitted, Submitted,
        DirectHasNoBatch, Before, After
  <2> QED
    BY <1>7, <2>1, <2>2, SubmitEffect
<1>8. ASSUME NEW w \in Workers, SubmitAnswered(w) PROVE GroupIsOrdered(h)'
  BY <1>8, <1>0
  DEF SubmitAnswered, GroupIsOrdered, NotBegun, NotSubmitted, Submitted,
      DirectHasNoBatch, Before, After, JobIsOrdered, SetState, Accepted
<1>9. ASSUME NEW w \in Workers, SubmitFailed(w) PROVE GroupIsOrdered(h)'
  BY <1>9, <1>0
  DEF SubmitFailed, GroupIsOrdered, NotBegun, NotSubmitted, Submitted,
      DirectHasNoBatch, Before, After, JobIsOrdered, SetState
<1>10. ASSUME NEW w \in Workers, Reconcile(w) PROVE GroupIsOrdered(h)'
  BY <1>10, <1>0
  DEF Reconcile, GroupIsOrdered, NotBegun, NotSubmitted, Submitted,
      DirectHasNoBatch, Before, After, Native, SetState, Accepted
<1>11. ASSUME NEW w \in Workers, Poll(w) PROVE GroupIsOrdered(h)'
  <2>0. /\ job[w].pc = "claimed" /\ Fenced(w)
        /\ group[job[w].g].transport = "batch"
        /\ group[job[w].g].state = "waiting"
    BY <1>11, PollEffect
  <2>1. CASE EndsTurn(w, "leaving")
    BY <2>0, <2>1, <1>0
    DEF EndsTurn, GroupIsOrdered, NotBegun, NotSubmitted, Submitted,
        DirectHasNoBatch, Before, After
  <2>2. CASE ReadsBatch(w)
    BY <2>0, <2>2, <1>0
    DEF ReadsBatch, GroupIsOrdered, NotBegun, NotSubmitted, Submitted,
        DirectHasNoBatch, Before, After
  <2> QED
    BY <1>11, <2>1, <2>2, PollEffect
<1>12. ASSUME NEW w \in Workers, Import(w) PROVE GroupIsOrdered(h)'
  BY <1>12, <1>0
  DEF Import, GroupIsOrdered, NotBegun, NotSubmitted, Submitted,
      DirectHasNoBatch, Before, After, Native, Unimported, Calls
<1>13. ASSUME NEW w \in Workers, FinishImport(w) PROVE GroupIsOrdered(h)'
  BY <1>13, <1>0
  DEF FinishImport, GroupIsOrdered, NotBegun, NotSubmitted, Submitted,
      DirectHasNoBatch, Before, After, Native, SetState, Calls
<1>14. ASSUME NEW w \in Workers, NothingToDo(w) PROVE GroupIsOrdered(h)'
  BY <1>14, <1>0
  DEF NothingToDo, GroupIsOrdered, NotBegun, NotSubmitted, Submitted,
      DirectHasNoBatch, Before, After
<1>15. ASSUME NEW w \in Workers, StartWave(w) PROVE GroupIsOrdered(h)'
  <2>0. /\ job[w].pc = "claimed" /\ Fenced(w)
        /\ group[job[w].g].transport = "direct"
    BY <1>15, StartWaveEffect
  <2>1. ASSUME NEW wave \in SUBSET Requests, MarksWave(w, wave)
        PROVE  GroupIsOrdered(h)'
    BY <2>0, <2>1, <1>0
    DEF MarksWave, GroupIsOrdered, NotBegun, NotSubmitted, Submitted,
        DirectHasNoBatch, Before, After
  <2>2. CASE EndsTurn(w, "leaving")
    BY <2>0, <2>2, <1>0
    DEF EndsTurn, GroupIsOrdered, NotBegun, NotSubmitted, Submitted,
        DirectHasNoBatch, Before, After
  <2> QED
    BY <1>15, <2>1, <2>2, StartWaveEffect
<1>16. ASSUME NEW w \in Workers, EndWave(w) PROVE GroupIsOrdered(h)'
  BY <1>16, <1>0
  DEF EndWave, GroupIsOrdered, NotBegun, NotSubmitted, Submitted,
      DirectHasNoBatch, Before, After, JobIsOrdered, SetState
<1>17. ASSUME NEW w \in Workers, Drained(w) PROVE GroupIsOrdered(h)'
  BY <1>17, <1>0
  DEF Drained, GroupIsOrdered, NotBegun, NotSubmitted, Submitted,
      DirectHasNoBatch, Before, After
<1>18. ASSUME NEW w \in Workers, Register(w) PROVE GroupIsOrdered(h)'
  BY <1>18, <1>0
  DEF Register, GroupIsOrdered, NotBegun, NotSubmitted, Submitted,
      DirectHasNoBatch, Before, After
<1>19. ASSUME NEW w \in Workers, GiveUp(w) PROVE GroupIsOrdered(h)'
  BY <1>19, <1>0
  DEF GiveUp, GroupIsOrdered, NotBegun, NotSubmitted, Submitted,
      DirectHasNoBatch, Before, After
<1>19a. ASSUME NEW w \in Workers, SubmitUnidentified(w) PROVE GroupIsOrdered(h)'
  BY <1>19a, <1>0
  DEF SubmitUnidentified, GroupIsOrdered, NotBegun, NotSubmitted, Submitted,
      DirectHasNoBatch, Before, After
<1>20. ASSUME NEW w \in Workers, Die(w) PROVE GroupIsOrdered(h)'
  BY <1>20, <1>0
  DEF Die, GroupIsOrdered, NotBegun, NotSubmitted, Submitted,
      DirectHasNoBatch, Before, After
<1>21. ASSUME NEW w \in Workers, NEW r \in Requests, Transmit(w, r)
       PROVE  GroupIsOrdered(h)'
  BY <1>21, <1>0
  DEF Transmit, GroupIsOrdered, NotBegun, NotSubmitted, Submitted,
      DirectHasNoBatch, Before, After, JobIsOrdered
<1>22. ASSUME NEW w \in Workers, NEW r \in Requests, Answer(w, r)
       PROVE  GroupIsOrdered(h)'
  BY <1>22, <1>0
  DEF Answer, GroupIsOrdered, NotBegun, NotSubmitted, Submitted,
      DirectHasNoBatch, Before, After, WaveIsOrdered
<1>23. ASSUME NEW w \in Workers, NEW r \in Requests, Unanswered(w, r)
       PROVE  GroupIsOrdered(h)'
  BY <1>23, <1>0
  DEF Unanswered, GroupIsOrdered, NotBegun, NotSubmitted, Submitted,
      DirectHasNoBatch, Before, After, JobIsOrdered
<1>24. ASSUME NEW w \in Workers, NEW g \in Groups, Pick(w, g)
       PROVE  GroupIsOrdered(h)'
  BY <1>24, <1>0
  DEF Pick, GroupIsOrdered, NotBegun, NotSubmitted, Submitted,
      DirectHasNoBatch, Before, After
<1>25. ASSUME NEW g \in Groups, Receive(g) PROVE GroupIsOrdered(h)'
  BY <1>25, <1>0
  DEF Receive, GroupIsOrdered, NotBegun, NotSubmitted, Submitted,
      DirectHasNoBatch, Before, After
<1>26. ASSUME NEW g \in Groups, Lose(g) PROVE GroupIsOrdered(h)'
  BY <1>26, <1>0
  DEF Lose, GroupIsOrdered, NotBegun, NotSubmitted, Submitted,
      DirectHasNoBatch, Before, After
<1>27. ASSUME NEW g \in Groups, Finish(g) PROVE GroupIsOrdered(h)'
  BY <1>27, <1>0
  DEF Finish, GroupIsOrdered, NotBegun, NotSubmitted, Submitted,
      DirectHasNoBatch, Before, After
<1>28. ASSUME NEW g \in Groups, Expire(g) PROVE GroupIsOrdered(h)'
  BY <1>28, <1>0
  DEF Expire, GroupIsOrdered, NotBegun, NotSubmitted, Submitted,
      DirectHasNoBatch, Before, After
<1>29. ASSUME NEW g \in Groups, NEW r \in Requests, Close(g, r)
       PROVE  GroupIsOrdered(h)'
  BY <1>29, <1>0
  DEF Close, GroupIsOrdered, NotBegun, NotSubmitted, Submitted,
      DirectHasNoBatch, Before, After
<1>30. ASSUME NEW g \in Groups, NEW r \in Requests, Spoil(g, r)
       PROVE  GroupIsOrdered(h)'
  BY <1>30, <1>0
  DEF Spoil, GroupIsOrdered, NotBegun, NotSubmitted, Submitted,
      DirectHasNoBatch, Before, After
<1>31. CASE Pause
  BY <1>31, <1>0
  DEF Pause, GroupIsOrdered, NotBegun, NotSubmitted, Submitted,
      DirectHasNoBatch, Before, After
<1>32. CASE Resume
  BY <1>32, <1>0
  DEF Resume, GroupIsOrdered, NotBegun, NotSubmitted, Submitted,
      DirectHasNoBatch, Before, After
<1>33. CASE DeadlinePasses
  BY <1>33, <1>0
  DEF DeadlinePasses, GroupIsOrdered, NotBegun, NotSubmitted, Submitted,
      DirectHasNoBatch, Before, After
<1>34. CASE UNCHANGED vars
  BY <1>34, <1>0
  DEF vars, GroupIsOrdered, NotBegun, NotSubmitted, Submitted,
      DirectHasNoBatch, Before, After
<1> QED
  BY <1>1, <1>2, <1>3, <1>4, <1>5, <1>6, <1>7, <1>8, <1>9, <1>10, <1>11,
     <1>12, <1>13, <1>14, <1>15, <1>16, <1>17, <1>18, <1>19, <1>19a, <1>20,
     <1>21,
     <1>22, <1>23, <1>24, <1>25, <1>26, <1>27, <1>28, <1>29, <1>30, <1>31,
     <1>32, <1>33, <1>34 DEF Next, Work

\* Every step keeps what the requests of a wave have behind them.
LEMMA WavesStayOrdered ==
  ASSUME TypeOK, GroupsAreOrdered, JobsAreOrdered, WavesAreOrdered,
         OutcomesAreContacted, [Next]_vars, NEW v \in Workers
  PROVE  WaveIsOrdered(v)'
<1>0. /\ \A w \in Workers : job[w] \in Job /\ job[w].g \in Groups
      /\ job \in [Workers -> Job] /\ group \in [Groups -> Group]
      /\ provider \in [Groups -> Provider]
      /\ holder \in [Groups -> Workers \cup {NoOne}]
      /\ call \in [Groups -> [Requests -> CallState]]
      /\ contacts \in [Groups -> [Requests -> Nat]]
      /\ \A w \in Workers : JobIsOrdered(w) /\ WaveIsOrdered(w)
      /\ \A g \in Groups : DirectHasNoBatch(g)
      /\ \A u, w \in Workers : u # w => Apart(u, w)
      /\ \A g \in Groups, r \in Requests :
           call[g][r] \in {"none", "reserved"} => contacts[g][r] = 0
  BY DEF TypeOK, Job, JobsAreOrdered, GroupsAreOrdered, GroupIsOrdered,
     WavesAreOrdered, OutcomesAreContacted, IsContacted
<1>a. /\ job[v].todo \subseteq Requests /\ job[v].out \subseteq Requests
      /\ \/ job[v].todo = {} /\ job[v].out = {}
         \/ /\ group[job[v].g].transport = "direct"
            /\ group[job[v].g].state # "absent"
            /\ job[v].pc \in {"sending", "draining"}
  BY <1>0 DEF JobIsOrdered, Job
<1>1. ASSUME NEW w \in Workers, Claim(w) PROVE WaveIsOrdered(v)'
  <2>0. job[w].pc = "picked"
    BY <1>1, ClaimEffect
  <2>1. CASE TakesClaim(w)
    <3>1. CASE v = w
      <4>0. job[v].todo = {} /\ job[v].out = {}
        BY <2>0, <3>1, <1>0 DEF JobIsOrdered
      <4>1. job'[v].todo = {} /\ job'[v].out = {}
        BY <2>1, <3>1, <4>0, <1>0 DEF TakesClaim, Job
      <4> QED
        BY <4>1 DEF WaveIsOrdered
    <3>2. CASE v # w
      <4>1. job'[v] = job[v] /\ (Fenced(v)' => Fenced(v))
        BY <2>1, <3>2, <1>0 DEF TakesClaim, Fenced
      <4> QED
        BY <4>1, <2>1, <1>0 DEF TakesClaim, WaveIsOrdered
    <3> QED
      BY <3>1, <3>2
  <2>2. CASE Stops(w)
    BY <2>2, <1>0 DEF Stops, WaveIsOrdered, Fenced, Idle
  <2> QED
    BY <1>1, <2>1, <2>2, ClaimEffect
<1>2. ASSUME NEW w \in Workers, Leave(w) PROVE WaveIsOrdered(v)'
  BY <1>2, <1>0, ConstantsAssumption DEF Leave, WaveIsOrdered, Fenced, Idle
<1>3. ASSUME NEW w \in Workers, Stale(w) PROVE WaveIsOrdered(v)'
  <2>0. job[w].pc \notin {"idle", "picked"} /\ ~Fenced(w)
    BY <1>3, StaleEffect
  <2>1. CASE Stops(w)
    BY <2>0, <2>1, <1>0 DEF Stops, WaveIsOrdered, Fenced, Idle
  <2>2. CASE job[w].todo # {} /\ EndsTurn(w, "draining")
    BY <2>0, <2>2, <1>0 DEF EndsTurn, WaveIsOrdered, Fenced
  <2> QED
    BY <1>3, <2>1, <2>2, StaleEffect
<1>4. ASSUME NEW w \in Workers, StartUpload(w) PROVE WaveIsOrdered(v)'
  BY <1>4, <1>0 DEF StartUpload, WaveIsOrdered, Fenced, Go
<1>5. ASSUME NEW w \in Workers, FinishUpload(w) PROVE WaveIsOrdered(v)'
  BY <1>5, <1>0 DEF FinishUpload, WaveIsOrdered, Fenced, Go
<1>6. ASSUME NEW w \in Workers, mark_submitting(w) PROVE WaveIsOrdered(v)'
  <2>0. /\ job[w].pc = "claimed" /\ Fenced(w)
        /\ group[job[w].g].transport = "batch"
    BY <1>6, MarkEffect
  <2>1. CASE MarksCalls(w)
    <3>1. CASE job[v].todo = {} /\ job[v].out = {}
      <4>1. job'[v].todo = {} /\ job'[v].out = {}
        BY <2>1, <3>1, <1>0 DEF MarksCalls
      <4> QED
        BY <4>1 DEF WaveIsOrdered
    <3>2. CASE group[job[v].g].transport = "direct" /\ v # w
      <4>1. job'[v] = job[v] /\ call'[job[v].g] = call[job[v].g]
        BY <2>0, <2>1, <3>2, <1>0 DEF MarksCalls
      <4> QED
        BY <4>1, <2>1, <1>0 DEF MarksCalls, WaveIsOrdered, Fenced
    <3> QED
      BY <3>1, <3>2, <1>a, <2>0
  <2>2. CASE EndsTurn(w, "leaving")
    BY <2>2, <1>0 DEF EndsTurn, WaveIsOrdered, Fenced
  <2> QED
    BY <1>6, <2>1, <2>2, MarkEffect
<1>7. ASSUME NEW w \in Workers, Submit(w) PROVE WaveIsOrdered(v)'
  <2>0. job[w].pc = "submit" /\ Fenced(w)
    BY <1>7, SubmitEffect
  <2>1. CASE SendsBatch(w)
    BY <2>0, <2>1, <1>0 DEF SendsBatch, WaveIsOrdered, Fenced
  <2>2. CASE EndsTurn(w, "leaving")
    BY <2>0, <2>2, <1>0 DEF EndsTurn, WaveIsOrdered, Fenced
  <2> QED
    BY <1>7, <2>1, <2>2, SubmitEffect
<1>8. ASSUME NEW w \in Workers, SubmitAnswered(w) PROVE WaveIsOrdered(v)'
  BY <1>8, <1>0 DEF SubmitAnswered, WaveIsOrdered, Fenced, Go
<1>9. ASSUME NEW w \in Workers, SubmitFailed(w) PROVE WaveIsOrdered(v)'
  BY <1>9, <1>0 DEF SubmitFailed, WaveIsOrdered, Fenced, Go
<1>10. ASSUME NEW w \in Workers, Reconcile(w) PROVE WaveIsOrdered(v)'
  BY <1>10, <1>0 DEF Reconcile, WaveIsOrdered, Fenced, Go
<1>11. ASSUME NEW w \in Workers, Poll(w) PROVE WaveIsOrdered(v)'
  <2>0. /\ job[w].pc = "claimed" /\ Fenced(w)
        /\ group[job[w].g].transport = "batch"
        /\ group[job[w].g].state = "waiting"
    BY <1>11, PollEffect
  <2>1. CASE EndsTurn(w, "leaving")
    BY <2>0, <2>1, <1>0 DEF EndsTurn, WaveIsOrdered, Fenced
  <2>2. CASE ReadsBatch(w)
    BY <2>0, <2>2, <1>0 DEF ReadsBatch, WaveIsOrdered, Fenced
  <2> QED
    BY <1>11, <2>1, <2>2, PollEffect
<1>12. ASSUME NEW w \in Workers, Import(w) PROVE WaveIsOrdered(v)'
  <2>0. /\ group[job[w].g].transport = "batch"
        /\ UNCHANGED <<holder, contacts, job>>
    BY <1>12 DEF Import, Native
  <2>1. CASE job[v].todo = {} /\ job[v].out = {}
    BY <2>0, <2>1 DEF WaveIsOrdered
  <2>2. CASE group[job[v].g].transport = "direct"
    <3>1. call'[job[v].g] = call[job[v].g]
      BY <1>12, <2>0, <2>2, <1>0 DEF Import
    <3> QED
      BY <2>0, <3>1, <1>0 DEF WaveIsOrdered, Fenced
  <2> QED
    BY <2>1, <2>2, <1>a
<1>13. ASSUME NEW w \in Workers, FinishImport(w) PROVE WaveIsOrdered(v)'
  <2>0. job[w].pc = "claimed" /\ group[job[w].g].transport = "batch"
    BY <1>13 DEF FinishImport, Native
  <2>1. CASE job[v].todo = {} /\ job[v].out = {}
    <3>1. job'[v].todo = {} /\ job'[v].out = {}
      BY <1>13, <2>1, <1>0 DEF FinishImport, Go
    <3> QED
      BY <3>1 DEF WaveIsOrdered
  <2>2. CASE group[job[v].g].transport = "direct" /\ v # w
    <3>1. job'[v] = job[v] /\ call'[job[v].g] = call[job[v].g]
      BY <1>13, <2>0, <2>2, <1>0 DEF FinishImport, Go
    <3> QED
      BY <3>1, <1>13, <1>0 DEF FinishImport, WaveIsOrdered, Fenced
  <2> QED
    BY <2>0, <2>1, <2>2, <1>a
<1>14. ASSUME NEW w \in Workers, NothingToDo(w) PROVE WaveIsOrdered(v)'
  BY <1>14, <1>0 DEF NothingToDo, WaveIsOrdered, Fenced, Go
<1>15. ASSUME NEW w \in Workers, StartWave(w) PROVE WaveIsOrdered(v)'
  <2>0. /\ job[w].pc = "claimed" /\ Fenced(w)
        /\ group[job[w].g].transport = "direct"
    BY <1>15, StartWaveEffect
  <2>1. ASSUME NEW wave \in SUBSET Requests, MarksWave(w, wave)
        PROVE  WaveIsOrdered(v)'
    <3>1. CASE v = w
      <4>0. job[v].out = {}
        BY <2>0, <3>1, <1>0 DEF JobIsOrdered
      <4>1. job'[v].todo = wave /\ job'[v].out = {} /\ job'[v].g = job[v].g
        BY <2>1, <3>1, <4>0, <1>0 DEF MarksWave
      <4>2. \A r \in wave : contacts'[job[v].g][r] = 0
        BY <2>1, <3>1, <1>0 DEF MarksWave
      <4>3. \A r \in wave : call'[job[v].g][r] = "sent"
        BY <2>1, <3>1, <1>0 DEF MarksWave
      <4> QED
        BY <4>1, <4>2, <4>3 DEF WaveIsOrdered
    <3>2. CASE v # w
      <4>1. job'[v] = job[v] /\ UNCHANGED <<holder, contacts>>
        BY <2>1, <3>2, <1>0 DEF MarksWave
      <4>2. job[v].g # job[w].g => call'[job[v].g] = call[job[v].g]
        BY <2>1, <1>0 DEF MarksWave
      <4>3. job[v].g = job[w].g => ~Fenced(v)
        BY <2>0, <3>2 DEF Fenced
      <4>4. \A r \in job[v].todo :
              call'[job[v].g][r] \in {"sent", "ambiguous"}
        BY <2>1, <1>0, <1>a, <4>2 DEF MarksWave, WaveIsOrdered
      <4> QED
        BY <4>1, <4>2, <4>3, <4>4, <1>0 DEF WaveIsOrdered, Fenced
    <3> QED
      BY <3>1, <3>2
  <2>2. CASE EndsTurn(w, "leaving")
    BY <2>2, <1>0 DEF EndsTurn, WaveIsOrdered, Fenced
  <2> QED
    BY <1>15, <2>1, <2>2, StartWaveEffect
<1>16. ASSUME NEW w \in Workers, EndWave(w) PROVE WaveIsOrdered(v)'
  BY <1>16, <1>0 DEF EndWave, WaveIsOrdered, Fenced
<1>17. ASSUME NEW w \in Workers, Drained(w) PROVE WaveIsOrdered(v)'
  BY <1>17, <1>0 DEF Drained, WaveIsOrdered, Fenced, Idle
<1>18. ASSUME NEW w \in Workers, Register(w) PROVE WaveIsOrdered(v)'
  <2>0. job[w].pc = "idle" /\ UNCHANGED <<holder, contacts>>
    BY <1>18 DEF Register
  <2>1. PICK g \in Groups :
          /\ group[g].state = "absent"
          /\ \A h \in Groups \ {g} : call'[h] = call[h]
          /\ job' = [job EXCEPT ![w].pc = "picked", ![w].g = g]
    BY <1>18, <1>0 DEF Register
  <2>2. CASE job[v].todo = {} /\ job[v].out = {}
    <3>1. job'[v].todo = {} /\ job'[v].out = {}
      BY <2>1, <2>2, <1>0 DEF Job
    <3> QED
      BY <3>1 DEF WaveIsOrdered
  <2>3. CASE group[job[v].g].state # "absent" /\ v # w
    <3>1. job'[v] = job[v] /\ call'[job[v].g] = call[job[v].g]
      BY <2>1, <2>3, <1>0
    <3> QED
      BY <3>1, <2>0, <1>0 DEF WaveIsOrdered, Fenced
  <2> QED
    BY <2>0, <2>2, <2>3, <1>a
<1>19. ASSUME NEW w \in Workers, GiveUp(w) PROVE WaveIsOrdered(v)'
  BY <1>19, <1>0 DEF GiveUp, WaveIsOrdered, Fenced, Go
<1>19a. ASSUME NEW w \in Workers, SubmitUnidentified(w) PROVE WaveIsOrdered(v)'
  BY <1>19a, <1>0 DEF SubmitUnidentified, WaveIsOrdered, Fenced, Go
<1>20. ASSUME NEW w \in Workers, Die(w) PROVE WaveIsOrdered(v)'
  BY <1>20, <1>0 DEF Die, WaveIsOrdered, Fenced, Idle
<1>21. ASSUME NEW w \in Workers, NEW r \in Requests, Transmit(w, r)
       PROVE  WaveIsOrdered(v)'
  <2> DEFINE g == job[w].g
  <2>1. /\ r \in job[w].todo /\ UNCHANGED <<group, holder, call>>
        /\ contacts[g][r] = 0 /\ contacts'[g][r] = 1
        /\ \A h \in Groups, q \in Requests :
             h # g \/ q # r => contacts'[h][q] = contacts[h][q]
    BY <1>21, <1>0 DEF Transmit, WaveIsOrdered
  <2>2. CASE v = w
    <3>1. /\ job'[v].g = g
          /\ job'[v].todo = job[v].todo \ {r}
          /\ job'[v].out = job[v].out \cup {r}
      BY <1>21, <2>2, <1>0 DEF Transmit
    <3> QED
      BY <2>1, <2>2, <3>1, <1>0, <1>a DEF WaveIsOrdered, Fenced
  <2>3. CASE v # w
    <3>1. job'[v] = job[v]
      BY <1>21, <2>3, <1>0 DEF Transmit
    <3>2. job[v].g = g => r \notin job[v].todo /\ r \notin job[v].out
      BY <2>1, <2>3, <1>0 DEF Apart, WaveIsOrdered
    <3>3. \A q \in job[v].todo \cup job[v].out :
            contacts'[job[v].g][q] = contacts[job[v].g][q]
      BY <2>1, <3>2, <1>0, <1>a
    <3> QED
      BY <2>1, <3>1, <3>3, <1>0 DEF WaveIsOrdered, Fenced
  <2> QED
    BY <2>2, <2>3
<1>22. ASSUME NEW w \in Workers, NEW r \in Requests, Answer(w, r)
       PROVE  WaveIsOrdered(v)'
  BY <1>22, <1>0 DEF Answer, WaveIsOrdered, Fenced
<1>23. ASSUME NEW w \in Workers, NEW r \in Requests, Unanswered(w, r)
       PROVE  WaveIsOrdered(v)'
  BY <1>23, <1>0 DEF Unanswered, WaveIsOrdered, Fenced
<1>24. ASSUME NEW w \in Workers, NEW g \in Groups, Pick(w, g)
       PROVE  WaveIsOrdered(v)'
  <2>1. CASE v = w
    <3>0. job[v].todo = {} /\ job[v].out = {}
      BY <1>24, <2>1, <1>0 DEF Pick, JobIsOrdered
    <3>1. job'[v].todo = {} /\ job'[v].out = {}
      BY <1>24, <2>1, <3>0, <1>0 DEF Pick, Job
    <3> QED
      BY <3>1 DEF WaveIsOrdered
  <2>2. CASE v # w
    BY <1>24, <2>2, <1>0 DEF Pick, WaveIsOrdered, Fenced
  <2> QED
    BY <2>1, <2>2
<1>25. ASSUME NEW g \in Groups, Receive(g) PROVE WaveIsOrdered(v)'
  <2>1. group[g].transport = "batch"
    BY <1>25, <1>0 DEF Receive, DirectHasNoBatch, Group
  <2>2. UNCHANGED <<job, holder, call>>
        /\ \A h \in Groups \ {g} : contacts'[h] = contacts[h]
    BY <1>25, <1>0 DEF Receive
  <2>3. CASE job[v].todo = {} /\ job[v].out = {}
    BY <2>2, <2>3 DEF WaveIsOrdered
  <2>4. CASE group[job[v].g].transport = "direct"
    <3>1. contacts'[job[v].g] = contacts[job[v].g]
      BY <2>1, <2>2, <2>4, <1>0
    <3> QED
      BY <2>2, <3>1, <1>0 DEF WaveIsOrdered, Fenced
  <2> QED
    BY <2>3, <2>4, <1>a
<1>26. ASSUME NEW g \in Groups, Lose(g) PROVE WaveIsOrdered(v)'
  BY <1>26, <1>0 DEF Lose, WaveIsOrdered, Fenced
<1>27. ASSUME NEW g \in Groups, Finish(g) PROVE WaveIsOrdered(v)'
  BY <1>27, <1>0 DEF Finish, WaveIsOrdered, Fenced
<1>28. ASSUME NEW g \in Groups, Expire(g) PROVE WaveIsOrdered(v)'
  BY <1>28, <1>0, ConstantsAssumption DEF Expire, WaveIsOrdered, Fenced
<1>29. ASSUME NEW g \in Groups, NEW r \in Requests, Close(g, r)
       PROVE  WaveIsOrdered(v)'
  BY <1>29, <1>0 DEF Close, WaveIsOrdered, Fenced
<1>30. ASSUME NEW g \in Groups, NEW r \in Requests, Spoil(g, r)
       PROVE  WaveIsOrdered(v)'
  BY <1>30, <1>0 DEF Spoil, WaveIsOrdered, Fenced
<1>31. CASE Pause
  BY <1>31, <1>0, ConstantsAssumption
  DEF Pause, WaveIsOrdered, Fenced, RevokeClaims
<1>32. CASE Resume
  BY <1>32, <1>0, ConstantsAssumption
  DEF Resume, WaveIsOrdered, Fenced, RevokeClaims
<1>33. CASE DeadlinePasses
  BY <1>33, <1>0 DEF DeadlinePasses, WaveIsOrdered, Fenced
<1>34. CASE UNCHANGED vars
  BY <1>34, <1>0 DEF vars, WaveIsOrdered, Fenced
<1> QED
  BY <1>1, <1>2, <1>3, <1>4, <1>5, <1>6, <1>7, <1>8, <1>9, <1>10, <1>11,
     <1>12, <1>13, <1>14, <1>15, <1>16, <1>17, <1>18, <1>19, <1>19a, <1>20,
     <1>21,
     <1>22, <1>23, <1>24, <1>25, <1>26, <1>27, <1>28, <1>29, <1>30, <1>31,
     <1>32, <1>33, <1>34 DEF Next, Work

\* Every step keeps the waves of a group apart.
LEMMA WavesStayApart ==
  ASSUME TypeOK, JobsAreOrdered, WavesAreOrdered, [Next]_vars,
         NEW u \in Workers, NEW v \in Workers, u # v
  PROVE  Apart(u, v)'
<1>0. /\ \A w \in Workers : job[w] \in Job /\ job[w].g \in Groups
      /\ job \in [Workers -> Job]
      /\ \A w \in Workers : JobIsOrdered(w) /\ WaveIsOrdered(w)
      /\ Apart(u, v)
  BY DEF TypeOK, Job, JobsAreOrdered, WavesAreOrdered
<1>1. ASSUME NEW w \in Workers, Claim(w) PROVE Apart(u, v)'
  <2>0. job[w].pc = "picked"
    BY <1>1, ClaimEffect
  <2>1. CASE TakesClaim(w)
    BY <2>0, <2>1, <1>0 DEF TakesClaim, Apart
  <2>2. CASE Stops(w)
    BY <2>0, <2>2, <1>0 DEF Stops, Apart, Idle
  <2> QED
    BY <1>1, <2>1, <2>2, ClaimEffect
<1>2. ASSUME NEW w \in Workers, Leave(w) PROVE Apart(u, v)'
  BY <1>2, <1>0 DEF Leave, Apart, Idle
<1>3. ASSUME NEW w \in Workers, Stale(w) PROVE Apart(u, v)'
  <2>0. job[w].pc \notin {"idle", "picked"} /\ ~Fenced(w)
    BY <1>3, StaleEffect
  <2>1. CASE Stops(w)
    BY <2>0, <2>1, <1>0 DEF Stops, Apart, Idle
  <2>2. CASE job[w].todo # {} /\ EndsTurn(w, "draining")
    BY <2>0, <2>2, <1>0 DEF EndsTurn, Apart
  <2> QED
    BY <1>3, <2>1, <2>2, StaleEffect
<1>4. ASSUME NEW w \in Workers, StartUpload(w) PROVE Apart(u, v)'
  BY <1>4, <1>0 DEF StartUpload, Apart, Go
<1>5. ASSUME NEW w \in Workers, FinishUpload(w) PROVE Apart(u, v)'
  BY <1>5, <1>0 DEF FinishUpload, Apart, Go
<1>6. ASSUME NEW w \in Workers, mark_submitting(w) PROVE Apart(u, v)'
  <2>0. /\ job[w].pc = "claimed" /\ Fenced(w)
        /\ group[job[w].g].transport = "batch"
        /\ group[job[w].g].state = "uploaded"
    BY <1>6, MarkEffect
  <2>1. CASE MarksCalls(w)
    BY <2>0, <2>1, <1>0 DEF MarksCalls, Apart
  <2>2. CASE EndsTurn(w, "leaving")
    BY <2>0, <2>2, <1>0 DEF EndsTurn, Apart
  <2> QED
    BY <1>6, <2>1, <2>2, MarkEffect
<1>7. ASSUME NEW w \in Workers, Submit(w) PROVE Apart(u, v)'
  <2>0. job[w].pc = "submit" /\ Fenced(w)
    BY <1>7, SubmitEffect
  <2>1. CASE SendsBatch(w)
    BY <2>0, <2>1, <1>0 DEF SendsBatch, Apart
  <2>2. CASE EndsTurn(w, "leaving")
    BY <2>0, <2>2, <1>0 DEF EndsTurn, Apart
  <2> QED
    BY <1>7, <2>1, <2>2, SubmitEffect
<1>8. ASSUME NEW w \in Workers, SubmitAnswered(w) PROVE Apart(u, v)'
  BY <1>8, <1>0 DEF SubmitAnswered, Apart, Go
<1>9. ASSUME NEW w \in Workers, SubmitFailed(w) PROVE Apart(u, v)'
  BY <1>9, <1>0 DEF SubmitFailed, Apart, Go
<1>10. ASSUME NEW w \in Workers, Reconcile(w) PROVE Apart(u, v)'
  BY <1>10, <1>0 DEF Reconcile, Apart, Go
<1>11. ASSUME NEW w \in Workers, Poll(w) PROVE Apart(u, v)'
  <2>0. /\ job[w].pc = "claimed" /\ Fenced(w)
        /\ group[job[w].g].transport = "batch"
        /\ group[job[w].g].state = "waiting"
    BY <1>11, PollEffect
  <2>1. CASE EndsTurn(w, "leaving")
    BY <2>0, <2>1, <1>0 DEF EndsTurn, Apart
  <2>2. CASE ReadsBatch(w)
    BY <2>0, <2>2, <1>0 DEF ReadsBatch, Apart
  <2> QED
    BY <1>11, <2>1, <2>2, PollEffect
<1>12. ASSUME NEW w \in Workers, Import(w) PROVE Apart(u, v)'
  BY <1>12, <1>0 DEF Import, Apart
<1>13. ASSUME NEW w \in Workers, FinishImport(w) PROVE Apart(u, v)'
  BY <1>13, <1>0 DEF FinishImport, Apart, Go
<1>14. ASSUME NEW w \in Workers, NothingToDo(w) PROVE Apart(u, v)'
  BY <1>14, <1>0 DEF NothingToDo, Apart, Go
<1>15. ASSUME NEW w \in Workers, StartWave(w) PROVE Apart(u, v)'
  <2>1. ASSUME NEW wave \in SUBSET Requests, MarksWave(w, wave)
        PROVE  Apart(u, v)'
    <3>1. \A x \in Workers : /\ job'[x].g = job[x].g
                             /\ job'[x].todo = IF x = w THEN wave
                                                        ELSE job[x].todo
      BY <2>1, <1>0 DEF MarksWave
    <3>2. \A x \in Workers : job[x].g = job[w].g => job[x].todo \cap wave = {}
      BY <2>1, <1>0 DEF MarksWave, WaveIsOrdered
    <3> QED
      BY <3>1, <3>2, <1>0 DEF Apart
  <2>2. CASE EndsTurn(w, "leaving")
    BY <2>2, <1>0 DEF EndsTurn, Apart
  <2> QED
    BY <1>15, <2>1, <2>2, StartWaveEffect
<1>16. ASSUME NEW w \in Workers, EndWave(w) PROVE Apart(u, v)'
  BY <1>16, <1>0 DEF EndWave, Apart
<1>17. ASSUME NEW w \in Workers, Drained(w) PROVE Apart(u, v)'
  BY <1>17, <1>0 DEF Drained, Apart, Idle
<1>18. ASSUME NEW w \in Workers, Register(w) PROVE Apart(u, v)'
  BY <1>18, <1>0 DEF Register, Apart, JobIsOrdered
<1>19. ASSUME NEW w \in Workers, GiveUp(w) PROVE Apart(u, v)'
  BY <1>19, <1>0 DEF GiveUp, Apart, Go
<1>19a. ASSUME NEW w \in Workers, SubmitUnidentified(w) PROVE Apart(u, v)'
  BY <1>19a, <1>0 DEF SubmitUnidentified, Apart, Go
<1>20. ASSUME NEW w \in Workers, Die(w) PROVE Apart(u, v)'
  BY <1>20, <1>0 DEF Die, Apart, Idle
<1>21. ASSUME NEW w \in Workers, NEW r \in Requests, Transmit(w, r)
       PROVE  Apart(u, v)'
  BY <1>21, <1>0 DEF Transmit, Apart
<1>22. ASSUME NEW w \in Workers, NEW r \in Requests, Answer(w, r)
       PROVE  Apart(u, v)'
  BY <1>22, <1>0 DEF Answer, Apart
<1>23. ASSUME NEW w \in Workers, NEW r \in Requests, Unanswered(w, r)
       PROVE  Apart(u, v)'
  BY <1>23, <1>0 DEF Unanswered, Apart
<1>24. ASSUME NEW w \in Workers, NEW g \in Groups, Pick(w, g)
       PROVE  Apart(u, v)'
  BY <1>24, <1>0 DEF Pick, Apart, JobIsOrdered
<1>25. ASSUME NEW g \in Groups, Receive(g) PROVE Apart(u, v)'
  BY <1>25, <1>0 DEF Receive, Apart
<1>26. ASSUME NEW g \in Groups, Lose(g) PROVE Apart(u, v)'
  BY <1>26, <1>0 DEF Lose, Apart
<1>27. ASSUME NEW g \in Groups, Finish(g) PROVE Apart(u, v)'
  BY <1>27, <1>0 DEF Finish, Apart
<1>28. ASSUME NEW g \in Groups, Expire(g) PROVE Apart(u, v)'
  BY <1>28, <1>0 DEF Expire, Apart
<1>29. ASSUME NEW g \in Groups, NEW r \in Requests, Close(g, r)
       PROVE  Apart(u, v)'
  BY <1>29, <1>0 DEF Close, Apart
<1>30. ASSUME NEW g \in Groups, NEW r \in Requests, Spoil(g, r)
       PROVE  Apart(u, v)'
  BY <1>30, <1>0 DEF Spoil, Apart
<1>31. CASE Pause
  BY <1>31, <1>0 DEF Pause, Apart
<1>32. CASE Resume
  BY <1>32, <1>0 DEF Resume, Apart
<1>33. CASE DeadlinePasses
  BY <1>33, <1>0 DEF DeadlinePasses, Apart
<1>34. CASE UNCHANGED vars
  BY <1>34, <1>0 DEF vars, Apart
<1> QED
  BY <1>1, <1>2, <1>3, <1>4, <1>5, <1>6, <1>7, <1>8, <1>9, <1>10, <1>11,
     <1>12, <1>13, <1>14, <1>15, <1>16, <1>17, <1>18, <1>19, <1>19a, <1>20,
     <1>21,
     <1>22, <1>23, <1>24, <1>25, <1>26, <1>27, <1>28, <1>29, <1>30, <1>31,
     <1>32, <1>33, <1>34 DEF Next, Work

\* Every step keeps that a call is contacted once when it has an answer and
\* not at all before it is sent.
LEMMA OutcomesStayContacted ==
  ASSUME TypeOK, GroupsAreOrdered, WavesAreOrdered, OutcomesAreContacted,
         [Next]_vars, NEW h \in Groups, NEW q \in Requests
  PROVE  IsContacted(h, q)'
<1>0. /\ \A w \in Workers : job[w] \in Job /\ job[w].g \in Groups
      /\ group[h] \in Group
      /\ call \in [Groups -> [Requests -> CallState]]
      /\ contacts \in [Groups -> [Requests -> Nat]]
      /\ \A w \in Workers : WaveIsOrdered(w)
      /\ GroupIsOrdered(h) /\ IsContacted(h, q)
  BY DEF TypeOK, Job, GroupsAreOrdered, WavesAreOrdered, OutcomesAreContacted
<1>1. ASSUME NEW w \in Workers, Claim(w) PROVE IsContacted(h, q)'
  <2>0. job[w].pc = "picked"
    BY <1>1, ClaimEffect
  <2>1. CASE TakesClaim(w)
    BY <2>0, <2>1, <1>0 DEF TakesClaim, IsContacted
  <2>2. CASE Stops(w)
    BY <2>0, <2>2, <1>0 DEF Stops, IsContacted
  <2> QED
    BY <1>1, <2>1, <2>2, ClaimEffect
<1>2. ASSUME NEW w \in Workers, Leave(w) PROVE IsContacted(h, q)'
  BY <1>2, <1>0 DEF Leave, IsContacted
<1>3. ASSUME NEW w \in Workers, Stale(w) PROVE IsContacted(h, q)'
  <2>0. job[w].pc \notin {"idle", "picked"} /\ ~Fenced(w)
    BY <1>3, StaleEffect
  <2>1. CASE Stops(w)
    BY <2>0, <2>1, <1>0 DEF Stops, IsContacted
  <2>2. CASE job[w].todo # {} /\ EndsTurn(w, "draining")
    BY <2>0, <2>2, <1>0 DEF EndsTurn, IsContacted
  <2> QED
    BY <1>3, <2>1, <2>2, StaleEffect
<1>4. ASSUME NEW w \in Workers, StartUpload(w) PROVE IsContacted(h, q)'
  BY <1>4, <1>0 DEF StartUpload, IsContacted
<1>5. ASSUME NEW w \in Workers, FinishUpload(w) PROVE IsContacted(h, q)'
  BY <1>5, <1>0 DEF FinishUpload, IsContacted
<1>6. ASSUME NEW w \in Workers, mark_submitting(w) PROVE IsContacted(h, q)'
  <2>0. /\ job[w].pc = "claimed" /\ Fenced(w)
        /\ group[job[w].g].transport = "batch"
        /\ group[job[w].g].state = "uploaded"
    BY <1>6, MarkEffect
  <2>1. CASE MarksCalls(w)
    BY <2>0, <2>1, <1>0 DEF MarksCalls, IsContacted
  <2>2. CASE EndsTurn(w, "leaving")
    BY <2>0, <2>2, <1>0 DEF EndsTurn, IsContacted
  <2> QED
    BY <1>6, <2>1, <2>2, MarkEffect
<1>7. ASSUME NEW w \in Workers, Submit(w) PROVE IsContacted(h, q)'
  <2>0. job[w].pc = "submit" /\ Fenced(w)
    BY <1>7, SubmitEffect
  <2>1. CASE SendsBatch(w)
    BY <2>0, <2>1, <1>0 DEF SendsBatch, IsContacted
  <2>2. CASE EndsTurn(w, "leaving")
    BY <2>0, <2>2, <1>0 DEF EndsTurn, IsContacted
  <2> QED
    BY <1>7, <2>1, <2>2, SubmitEffect
<1>8. ASSUME NEW w \in Workers, SubmitAnswered(w) PROVE IsContacted(h, q)'
  BY <1>8, <1>0 DEF SubmitAnswered, IsContacted
<1>9. ASSUME NEW w \in Workers, SubmitFailed(w) PROVE IsContacted(h, q)'
  BY <1>9, <1>0 DEF SubmitFailed, IsContacted
<1>10. ASSUME NEW w \in Workers, Reconcile(w) PROVE IsContacted(h, q)'
  BY <1>10, <1>0 DEF Reconcile, IsContacted
<1>11. ASSUME NEW w \in Workers, Poll(w) PROVE IsContacted(h, q)'
  <2>0. /\ job[w].pc = "claimed" /\ Fenced(w)
        /\ group[job[w].g].transport = "batch"
        /\ group[job[w].g].state = "waiting"
    BY <1>11, PollEffect
  <2>1. CASE EndsTurn(w, "leaving")
    BY <2>0, <2>1, <1>0 DEF EndsTurn, IsContacted
  <2>2. CASE ReadsBatch(w)
    BY <2>0, <2>2, <1>0 DEF ReadsBatch, IsContacted
  <2> QED
    BY <1>11, <2>1, <2>2, PollEffect
<1>12. ASSUME NEW w \in Workers, Import(w) PROVE IsContacted(h, q)'
  BY <1>12, <1>0
  DEF Import, IsContacted, GroupIsOrdered, Submitted, After, Native,
      Unimported, Calls
<1>13. ASSUME NEW w \in Workers, FinishImport(w) PROVE IsContacted(h, q)'
  BY <1>13, <1>0
  DEF FinishImport, IsContacted, GroupIsOrdered, Submitted, After, Native,
      Calls
<1>14. ASSUME NEW w \in Workers, NothingToDo(w) PROVE IsContacted(h, q)'
  BY <1>14, <1>0 DEF NothingToDo, IsContacted
<1>15. ASSUME NEW w \in Workers, StartWave(w) PROVE IsContacted(h, q)'
  <2>1. ASSUME NEW wave \in SUBSET Requests, MarksWave(w, wave)
        PROVE  IsContacted(h, q)'
    <3>1. contacts' = contacts
      BY <2>1 DEF MarksWave
    <3>2. \/ call'[h][q] = call[h][q]
          \/ call'[h][q] \in {"sent", "ambiguous"}
      BY <2>1, <1>0 DEF MarksWave
    <3> QED
      BY <3>1, <3>2, <1>0 DEF IsContacted
  <2>2. CASE EndsTurn(w, "leaving")
    BY <2>2, <1>0 DEF EndsTurn, IsContacted
  <2> QED
    BY <1>15, <2>1, <2>2, StartWaveEffect
<1>16. ASSUME NEW w \in Workers, EndWave(w) PROVE IsContacted(h, q)'
  BY <1>16, <1>0 DEF EndWave, IsContacted
<1>17. ASSUME NEW w \in Workers, Drained(w) PROVE IsContacted(h, q)'
  BY <1>17, <1>0 DEF Drained, IsContacted
<1>18. ASSUME NEW w \in Workers, Register(w) PROVE IsContacted(h, q)'
  BY <1>18, <1>0 DEF Register, IsContacted, GroupIsOrdered, NotBegun
<1>19. ASSUME NEW w \in Workers, GiveUp(w) PROVE IsContacted(h, q)'
  BY <1>19, <1>0 DEF GiveUp, IsContacted
<1>19a. ASSUME NEW w \in Workers, SubmitUnidentified(w) PROVE IsContacted(h, q)'
  BY <1>19a, <1>0 DEF SubmitUnidentified, IsContacted
<1>20. ASSUME NEW w \in Workers, Die(w) PROVE IsContacted(h, q)'
  BY <1>20, <1>0 DEF Die, IsContacted
<1>21. ASSUME NEW w \in Workers, NEW r \in Requests, Transmit(w, r)
       PROVE  IsContacted(h, q)'
  <2>1. CASE h = job[w].g /\ q = r
    <3>1. contacts[h][q] = 0 /\ call[h][q] \in {"sent", "ambiguous"}
      BY <1>21, <2>1, <1>0 DEF Transmit, WaveIsOrdered
    <3>2. contacts'[h][q] = 1 /\ call'[h][q] = call[h][q]
      BY <1>21, <2>1, <3>1, <1>0 DEF Transmit
    <3> QED
      BY <3>1, <3>2 DEF IsContacted
  <2>2. CASE h # job[w].g \/ q # r
    <3>1. contacts'[h][q] = contacts[h][q] /\ call'[h][q] = call[h][q]
      BY <1>21, <2>2, <1>0 DEF Transmit
    <3> QED
      BY <3>1, <1>0 DEF IsContacted
  <2> QED
    BY <2>1, <2>2
<1>22. ASSUME NEW w \in Workers, NEW r \in Requests, Answer(w, r)
       PROVE  IsContacted(h, q)'
  BY <1>22, <1>0 DEF Answer, IsContacted, WaveIsOrdered
<1>23. ASSUME NEW w \in Workers, NEW r \in Requests, Unanswered(w, r)
       PROVE  IsContacted(h, q)'
  BY <1>23, <1>0 DEF Unanswered, IsContacted
<1>24. ASSUME NEW w \in Workers, NEW g \in Groups, Pick(w, g)
       PROVE  IsContacted(h, q)'
  BY <1>24, <1>0 DEF Pick, IsContacted
<1>25. ASSUME NEW g \in Groups, Receive(g) PROVE IsContacted(h, q)'
  <2>1. CASE h = g
    <3>1. /\ contacts[h][q] = 0 /\ call[h][q] \in {"none", "sent"}
      BY <1>25, <2>1, <1>0
      DEF Receive, GroupIsOrdered, NotBegun, NotSubmitted, Submitted,
          DirectHasNoBatch, Group,
          Before, After, ACTIVE_STATES, Outstanding
    <3>2. /\ contacts'[h][q] = IF call[h][q] = "none" THEN 0 ELSE 1
          /\ call'[h][q] = call[h][q]
      BY <1>25, <2>1, <3>1, <1>0 DEF Receive
    <3> QED
      BY <3>1, <3>2 DEF IsContacted
  <2>2. CASE h # g
    <3>1. contacts'[h][q] = contacts[h][q] /\ call'[h][q] = call[h][q]
      BY <1>25, <2>2, <1>0 DEF Receive
    <3> QED
      BY <3>1, <1>0 DEF IsContacted
  <2> QED
    BY <2>1, <2>2
<1>26. ASSUME NEW g \in Groups, Lose(g) PROVE IsContacted(h, q)'
  BY <1>26, <1>0 DEF Lose, IsContacted
<1>27. ASSUME NEW g \in Groups, Finish(g) PROVE IsContacted(h, q)'
  BY <1>27, <1>0 DEF Finish, IsContacted
<1>28. ASSUME NEW g \in Groups, Expire(g) PROVE IsContacted(h, q)'
  BY <1>28, <1>0 DEF Expire, IsContacted
<1>29. ASSUME NEW g \in Groups, NEW r \in Requests, Close(g, r)
       PROVE  IsContacted(h, q)'
  BY <1>29, <1>0 DEF Close, IsContacted
<1>30. ASSUME NEW g \in Groups, NEW r \in Requests, Spoil(g, r)
       PROVE  IsContacted(h, q)'
  BY <1>30, <1>0 DEF Spoil, IsContacted
<1>31. CASE Pause
  BY <1>31, <1>0 DEF Pause, IsContacted
<1>32. CASE Resume
  BY <1>32, <1>0 DEF Resume, IsContacted
<1>33. CASE DeadlinePasses
  BY <1>33, <1>0 DEF DeadlinePasses, IsContacted
<1>34. CASE UNCHANGED vars
  BY <1>34, <1>0 DEF vars, IsContacted
<1> QED
  BY <1>1, <1>2, <1>3, <1>4, <1>5, <1>6, <1>7, <1>8, <1>9, <1>10, <1>11,
     <1>12, <1>13, <1>14, <1>15, <1>16, <1>17, <1>18, <1>19, <1>19a, <1>20,
     <1>21,
     <1>22, <1>23, <1>24, <1>25, <1>26, <1>27, <1>28, <1>29, <1>30, <1>31,
     <1>32, <1>33, <1>34 DEF Next, Work

\* A registration gives calls to one group that had none, of requests that
\* have no live call and an attempt left.
LEMMA RegisterEffect ==
  ASSUME TypeOK, GroupsAreOrdered, NEW w \in Workers, Register(w)
  PROVE  \E g \in Groups :
           /\ \A q \in Requests : call[g][q] = "none"
           /\ \A h \in Groups \ {g} : call'[h] = call[h]
           /\ \A q \in Requests : \/ call'[g][q] = "none"
                                  \/ call'[g][q] = "reserved" /\ Eligible(q)
<1>1. PICK g \in Groups, rs \in SUBSET {r \in Requests : Eligible(r)} :
        /\ group[g].state = "absent"
        /\ call' = [call EXCEPT ![g] = [r \in Requests |->
                      IF r \in rs THEN "reserved" ELSE "none"]]
  BY DEF Register
<1>2. \A q \in Requests : call[g][q] = "none"
  BY <1>1 DEF GroupsAreOrdered, GroupIsOrdered, NotBegun
<1>3. \A h \in Groups \ {g} : call'[h] = call[h]
  BY <1>1 DEF TypeOK
<1>4. ASSUME NEW q \in Requests
      PROVE  \/ call'[g][q] = "none"
             \/ call'[g][q] = "reserved" /\ Eligible(q)
  <2>1. call'[g][q] = IF q \in rs THEN "reserved" ELSE "none"
    BY <1>1 DEF TypeOK
  <2>2. CASE q \in rs
    <3>1. Eligible(q)
      BY <2>2
    <3>2. call'[g][q] = "reserved"
      BY <2>1, <2>2
    <3> QED
      BY <3>1, <3>2
  <2>3. CASE q \notin rs
    BY <2>1, <2>3
  <2> QED
    BY <2>2, <2>3
<1> QED
  BY <1>2, <1>3, <1>4

\* The groups are finitely many, and so are the attempts of a request.
LEMMA AttemptsAreFinite ==
  ASSUME NEW S, S \subseteq Groups
  PROVE  IsFiniteSet(S) /\ Cardinality(S) \in Nat
<1>1. IsFiniteSet(Groups)
  BY FS_Interval, ConstantsAssumption DEF Groups
<1> QED
  BY <1>1, FS_Subset, FS_CardinalityType

\* Every step keeps the attempts of a request within the allowance and at most
\* one of its calls useful.
LEMMA CallsStayCounted ==
  ASSUME TypeOK, GroupsAreOrdered, WavesAreOrdered, OneIsLive,
         AttemptsAreCounted, [Next]_vars
  PROVE  OneIsLive' /\ AttemptsAreCounted'
<1>1. CASE \A w \in Workers : ~Register(w)
  <2>1. \A h \in Groups, q \in Requests : MovesOn(call[h][q], call'[h][q])
    BY <1>1, CallsMoveOn
  <2>2. OneIsLive'
    BY <2>1 DEF OneIsLive, MovesOn, Live
  <2>3. ASSUME NEW q \in Requests PROVE Attempts(q)' <= MaxAttempts
    <3>1. \A h \in Groups : call'[h][q] # "none" <=> call[h][q] # "none"
      BY <2>1 DEF MovesOn
    <3>2. Attempts(q)' = Attempts(q)
      BY <3>1 DEF Attempts
    <3> QED
      BY <3>2 DEF AttemptsAreCounted
  <2> QED
    BY <2>2, <2>3 DEF AttemptsAreCounted
<1>2. ASSUME NEW w \in Workers, Register(w)
      PROVE  OneIsLive' /\ AttemptsAreCounted'
  <2>1. PICK g \in Groups :
          /\ \A q \in Requests : call[g][q] = "none"
          /\ \A h \in Groups \ {g} : call'[h] = call[h]
          /\ \A q \in Requests : \/ call'[g][q] = "none"
                                 \/ call'[g][q] = "reserved" /\ Eligible(q)
    BY <1>2, RegisterEffect
  <2>2. \A q \in Requests : call'[g][q] # "none" =>
          \A h \in Groups : call[h][q] \notin Live
    BY <2>1 DEF Eligible, Live
  <2>3. ASSUME NEW h \in Groups, NEW k \in Groups, NEW q \in Requests,
               call'[h][q] \in Live, call'[k][q] \in Live
        PROVE  h = k
    <3>1. CASE call'[g][q] = "none"
      <4>1. h # g /\ k # g
        BY <3>1, <2>3 DEF Live
      <4> QED
        BY <4>1, <2>1, <2>3 DEF OneIsLive
    <3>2. CASE call'[g][q] # "none"
      <4>1. \A j \in Groups \ {g} : call'[j][q] \notin Live
        BY <3>2, <2>1, <2>2
      <4> QED
        BY <4>1, <2>3
    <3> QED
      BY <3>1, <3>2
  <2>4. ASSUME NEW q \in Requests PROVE Attempts(q)' <= MaxAttempts
    <3> DEFINE A == {h \in Groups : call[h][q] # "none"}
               B == {h \in Groups : call'[h][q] # "none"}
    <3>1. Attempts(q) = Cardinality(A) /\ Attempts(q)' = Cardinality(B)
      BY DEF Attempts
    <3>2. CASE call'[g][q] = "none"
      <4>1. B = A
        BY <3>2, <2>1
      <4> QED
        BY <4>1, <3>1 DEF AttemptsAreCounted
    <3>3. CASE call'[g][q] # "none"
      <4>1. B = A \cup {g} /\ g \notin A
        BY <3>3, <2>1
      <4>2. IsFiniteSet(A) /\ Cardinality(A) \in Nat
        BY AttemptsAreFinite
      <4>3. Cardinality(B) = Cardinality(A) + 1
        BY <4>1, <4>2, FS_AddElement
      <4>4. Cardinality(A) < MaxAttempts
        BY <3>1, <3>3, <2>1 DEF Eligible
      <4> QED
        BY <4>2, <4>3, <4>4, <3>1, ConstantsAssumption
    <3> QED
      BY <3>2, <3>3
  <2> QED
    BY <2>3, <2>4 DEF OneIsLive, AttemptsAreCounted
<1> QED
  BY <1>1, <1>2

-----------------------------------------------------------------------------
(* The inductive invariant *)

\* It holds at first, when there are no groups and no calls.
LEMMA BatchesInvariantInit == Init => BatchesInvariant
<1> SUFFICES ASSUME Init PROVE BatchesInvariant
  OBVIOUS
<1>1. TypeOK
  BY BatchesTypeInit
<1>2. GroupsAreOrdered
  BY DEF Init, GroupsAreOrdered, GroupIsOrdered, NotBegun, NotSubmitted,
     Submitted, DirectHasNoBatch, Before, After
<1>3. JobsAreOrdered
  BY DEF Init, JobsAreOrdered, JobIsOrdered, Idle
<1>4. WavesAreOrdered
  BY DEF Init, WavesAreOrdered, WaveIsOrdered, Apart, Idle
<1>5. OutcomesAreContacted
  BY DEF Init, OutcomesAreContacted, IsContacted
<1>6. OneIsLive
  BY DEF Init, OneIsLive, Live
<1>7. AttemptsAreCounted
  <2>1. ASSUME NEW r \in Requests PROVE Attempts(r) <= MaxAttempts
    <3>1. {g \in Groups : call[g][r] # "none"} = {}
      BY DEF Init
    <3>2. Attempts(r) = 0
      BY <3>1, FS_EmptySet DEF Attempts
    <3> QED
      BY <3>2, ConstantsAssumption
  <2> QED
    BY <2>1 DEF AttemptsAreCounted
<1> QED
  BY <1>1, <1>2, <1>3, <1>4, <1>5, <1>6, <1>7 DEF BatchesInvariant

\* Every step keeps it.
LEMMA BatchesInvariantStep ==
  BatchesInvariant /\ [Next]_vars => BatchesInvariant'
<1> SUFFICES ASSUME BatchesInvariant, [Next]_vars PROVE BatchesInvariant'
  OBVIOUS
<1>0. /\ TypeOK /\ GroupsAreOrdered /\ JobsAreOrdered /\ WavesAreOrdered
      /\ OutcomesAreContacted /\ OneIsLive /\ AttemptsAreCounted
  BY DEF BatchesInvariant
<1>1. TypeOK'
  BY <1>0, StepKeepsTypes
<1>2. GroupsAreOrdered'
  BY <1>0, GroupsStayOrdered DEF GroupsAreOrdered
<1>3. JobsAreOrdered'
  BY <1>0, JobsStayOrdered DEF JobsAreOrdered
<1>4. WavesAreOrdered'
  BY <1>0, WavesStayOrdered, WavesStayApart DEF WavesAreOrdered
<1>5. OutcomesAreContacted'
  BY <1>0, OutcomesStayContacted DEF OutcomesAreContacted
<1>6. OneIsLive' /\ AttemptsAreCounted'
  BY <1>0, CallsStayCounted
<1> QED
  BY <1>1, <1>2, <1>3, <1>4, <1>5, <1>6 DEF BatchesInvariant

\* The strengthened invariant holds in every reachable state.
THEOREM BatchesInvariantHolds == Spec => []BatchesInvariant
<1>1. Init => BatchesInvariant
  BY BatchesInvariantInit
<1>2. BatchesInvariant /\ [Next]_vars => BatchesInvariant'
  BY BatchesInvariantStep
<1> QED
  BY <1>1, <1>2, PTL DEF Spec

\* TypeOK: the types of the groups, their calls, the provider and the
\* controllers.
THEOREM BatchesTypeCorrect == Spec => []TypeOK
<1>1. BatchesInvariant => TypeOK
  BY DEF BatchesInvariant
<1> QED
  BY <1>1, BatchesInvariantHolds, PTL

\* SpendsOnce: whatever controllers die, lose their claims or race, a request
\* has at most one payment that may still turn out useful, and never more
\* payments than attempts.
THEOREM RequestsAreSpentOnce == Spec => []SpendsOnce
<1>1. ASSUME BatchesInvariant, NEW r \in Requests
      PROVE  LET paid == {g \in Groups : contacts[g][r] > 0}
             IN /\ Cardinality({g \in paid : call[g][r] \in
                                  {"sent", "ambiguous", "completed"}}) <= 1
                /\ Cardinality(paid) <= MaxAttempts
  <2> DEFINE paid == {g \in Groups : contacts[g][r] > 0}
             useful == {g \in paid :
                          call[g][r] \in {"sent", "ambiguous", "completed"}}
             tried == {g \in Groups : call[g][r] # "none"}
  <2>1. \A g, h \in useful : g = h
    BY <1>1 DEF BatchesInvariant, OneIsLive, Live
  <2>2. Cardinality(useful) <= 1
    <3> HIDE DEF useful
    <3>1. CASE useful = {}
      BY <3>1, FS_EmptySet
    <3>2. CASE useful # {}
      <4>1. PICK g \in useful : useful = {g}
        BY <2>1, <3>2
      <4>2. Cardinality({g}) = 1
        BY FS_Singleton
      <4> QED
        BY <4>1, <4>2
    <3> QED
      BY <3>1, <3>2
  <2>3. paid \subseteq tried
    BY <1>1 DEF BatchesInvariant, OutcomesAreContacted, IsContacted
  <2>4. /\ IsFiniteSet(tried)
        /\ Cardinality(tried) \in Nat /\ Cardinality(paid) \in Nat
    BY AttemptsAreFinite
  <2>5. Cardinality(paid) <= Cardinality(tried)
    BY <2>3, <2>4, FS_Subset
  <2>6. Cardinality(tried) <= MaxAttempts
    BY <1>1 DEF BatchesInvariant, AttemptsAreCounted, Attempts
  <2> QED
    BY <2>2, <2>4, <2>5, <2>6, ConstantsAssumption
<1>2. BatchesInvariant => SpendsOnce
  BY <1>1 DEF SpendsOnce
<1> QED
  BY <1>2, BatchesInvariantHolds, PTL

-----------------------------------------------------------------------------
(* The promise of a single call *)

\* Only the threads of a wave and the provider of a native batch make contact.
LEMMA ContactsAreMade ==
  ASSUME [Next]_vars
  PROVE  \/ UNCHANGED contacts
         \/ \E w \in Workers, r \in Requests : Transmit(w, r)
         \/ \E g \in Groups : Receive(g)
<1>1. ASSUME NEW w \in Workers, Work(w)
      PROVE  UNCHANGED contacts \/ \E r \in Requests : Transmit(w, r)
  <2>1. Claim(w) \/ Leave(w) \/ Stale(w) => UNCHANGED contacts
    BY DEF Claim, Leave, Stale
  <2>2. StartUpload(w) \/ FinishUpload(w) \/ mark_submitting(w) \/ Submit(w)
          => UNCHANGED contacts
    BY DEF StartUpload, FinishUpload, mark_submitting, Submit
  <2>3. SubmitAnswered(w) \/ SubmitFailed(w) \/ Reconcile(w) \/ Poll(w)
          => UNCHANGED contacts
    BY DEF SubmitAnswered, SubmitFailed, Reconcile, Poll
  <2>4. Import(w) \/ FinishImport(w) \/ NothingToDo(w) => UNCHANGED contacts
    BY DEF Import, FinishImport, NothingToDo
  <2>5. StartWave(w) \/ EndWave(w) \/ Drained(w) => UNCHANGED contacts
    BY DEF StartWave, EndWave, Drained
  <2>6. \A r \in Requests : Answer(w, r) => UNCHANGED contacts
    BY DEF Answer
  <2> QED
    BY <1>1, <2>1, <2>2, <2>3, <2>4, <2>5, <2>6 DEF Work
<1>2. ASSUME NEW w \in Workers
      PROVE  /\ Register(w) \/ GiveUp(w) => UNCHANGED contacts
             /\ SubmitUnidentified(w) \/ Die(w) => UNCHANGED contacts
             /\ \A g \in Groups : Pick(w, g) => UNCHANGED contacts
             /\ \A r \in Requests : Unanswered(w, r) => UNCHANGED contacts
  BY DEF Register, GiveUp, SubmitUnidentified, Die, Pick, Unanswered
<1>3. ASSUME NEW g \in Groups
      PROVE  /\ Lose(g) \/ Finish(g) \/ Expire(g) => UNCHANGED contacts
             /\ \A r \in Requests :
                  Close(g, r) \/ Spoil(g, r) => UNCHANGED contacts
  BY DEF Lose, Finish, Expire, Close, Spoil
<1>4. Pause \/ Resume \/ DeadlinePasses \/ UNCHANGED vars => UNCHANGED contacts
  BY DEF Pause, Resume, DeadlinePasses, vars
<1> QED
  BY <1>1, <1>2, <1>3, <1>4 DEF Next

\* A contact is the first of its call, and one of a call that was sent.
LEMMA ContactIsFirst ==
  ASSUME BatchesInvariant, [Next]_vars, NEW h \in Groups, NEW q \in Requests,
         contacts'[h][q] # contacts[h][q]
  PROVE  /\ contacts[h][q] = 0 /\ contacts'[h][q] = 1
         /\ call[h][q] \in {"sent", "ambiguous"} /\ UNCHANGED call
<1>0. /\ IsContacted(h, q) /\ IsContacted(h, q)'
      /\ \A w \in Workers : WaveIsOrdered(w) /\ job[w].g \in Groups
      /\ GroupIsOrdered(h) /\ group[h] \in Group
      /\ contacts \in [Groups -> [Requests -> Nat]]
  BY BatchesInvariantStep
  DEF BatchesInvariant, OutcomesAreContacted, WavesAreOrdered,
      GroupsAreOrdered, TypeOK, Job
<1>1. ASSUME NEW w \in Workers, NEW r \in Requests, Transmit(w, r)
      PROVE  call[h][q] \in {"sent", "ambiguous"} /\ UNCHANGED call
  <2>1. h = job[w].g /\ q = r
    BY <1>0, <1>1 DEF Transmit
  <2> QED
    BY <1>0, <1>1, <2>1 DEF Transmit, WaveIsOrdered
<1>2. ASSUME NEW g \in Groups, Receive(g)
      PROVE  call[h][q] \in {"sent", "ambiguous"} /\ UNCHANGED call
  <2>1. h = g /\ call[h][q] # "none"
    BY <1>0, <1>2 DEF Receive
  <2>2. provider[h].status = "coming" /\ UNCHANGED call
    BY <1>2, <2>1 DEF Receive
  <2> QED
    BY <1>0, <2>1, <2>2
    DEF GroupIsOrdered, NotBegun, NotSubmitted, Submitted, DirectHasNoBatch,
        Before, After, Group, ACTIVE_STATES, Outstanding
<1>3. ~UNCHANGED contacts
  OBVIOUS
<1>4. call[h][q] \in {"sent", "ambiguous"} /\ UNCHANGED call
  BY <1>1, <1>2, <1>3, ContactsAreMade
<1>5. contacts[h][q] \in {0, 1} /\ contacts'[h][q] \in {0, 1}
  BY <1>0 DEF IsContacted
<1>6. contacts'[h][q] > contacts[h][q]
  <2>1. ASSUME NEW w \in Workers, NEW r \in Requests, Transmit(w, r)
        PROVE  contacts'[h][q] = contacts[h][q] + 1
    <3>1. h = job[w].g /\ q = r
      BY <1>0, <2>1 DEF Transmit
    <3> QED
      BY <1>0, <2>1, <3>1 DEF Transmit
  <2>2. ASSUME NEW g \in Groups, Receive(g)
        PROVE  contacts'[h][q] = contacts[h][q] + 1
    BY <1>0, <2>2 DEF Receive
  <2> QED
    BY <2>1, <2>2, <1>3, <1>5, ContactsAreMade
<1> QED
  BY <1>4, <1>5, <1>6

\* What a step means for one call is a step of AtMostOnceCall or none.
LEMMA CallKeepsPromise ==
  ASSUME BatchesInvariant, [Next]_vars, NEW h \in Groups, NEW q \in Requests
  PROVE  [Promise(h, q)!Next]_(Promise(h, q)!vars)
<1>0. IsContacted(h, q) /\ IsContacted(h, q)'
  BY BatchesInvariantStep DEF BatchesInvariant, OutcomesAreContacted
<1>1. CASE contacts'[h][q] # contacts[h][q]
  <2>1. /\ contacts[h][q] = 0 /\ contacts'[h][q] = 1
        /\ call[h][q] \in {"sent", "ambiguous"} /\ UNCHANGED call
    BY <1>1, ContactIsFirst
  <2>2. /\ Outcome(h, q) \in {"sent", "ambiguous"}
        /\ Outcome(h, q)' = Outcome(h, q)
    BY <2>1 DEF Outcome
  <2> QED
    BY <2>1, <2>2 DEF Promise!Next, Promise!Contact
<1>2. CASE contacts'[h][q] = contacts[h][q]
  <2>1. CASE \A w \in Workers : ~Register(w)
    <3>1. MovesOn(call[h][q], call'[h][q])
      BY <2>1, CallsMoveOn DEF BatchesInvariant
    <3> QED
      BY <1>0, <1>2, <3>1
      DEF MovesOn, IsContacted, Outcome, Promise!Next, Promise!vars,
          Promise!Start, Promise!Settle, Promise!Settled, Promise!Answered
  <2>2. ASSUME NEW w \in Workers, Register(w)
        PROVE  Outcome(h, q)' = Outcome(h, q)
    <3>1. PICK g \in Groups :
            /\ \A r \in Requests : call[g][r] = "none"
            /\ \A k \in Groups \ {g} : call'[k] = call[k]
            /\ \A r \in Requests : \/ call'[g][r] = "none"
                                   \/ call'[g][r] = "reserved" /\ Eligible(r)
      BY <2>2, RegisterEffect DEF BatchesInvariant
    <3> QED
      BY <3>1 DEF Outcome
  <2> QED
    BY <1>2, <2>1, <2>2 DEF Promise!vars
<1> QED
  BY <1>1, <1>2

\* KeepsPromise: every call of either transport keeps the promise of
\* AtMostOnceCall, through takeovers, repeated uploads, lost submissions and
\* pauses.
THEOREM CallsKeepPromise == Spec => KeepsPromise
<1>1. Init => \A g \in Groups, r \in Requests : Promise(g, r)!Init
  BY DEF Init, Promise!Init, Outcome
<1>2. BatchesInvariant /\ [Next]_vars =>
        [\A g \in Groups, r \in Requests :
           [Promise(g, r)!Next]_(Promise(g, r)!vars)]_vars
  BY CallKeepsPromise
<1> QED
  BY <1>1, <1>2, BatchesInvariantHolds, PTL DEF Spec, KeepsPromise

-----------------------------------------------------------------------------
(* A quiet campaign *)

\* Nobody holds a group, so that no controller's write passes its fence: all
\* that can happen to a call is that it is written off or its reply rejected.
LEMMA OnlyTheOperatorWrites ==
  ASSUME TypeOK, SafeToCancel, [Next]_vars
  PROVE  /\ UNCHANGED group
         /\ \/ UNCHANGED call
            \/ \E g \in Groups, r \in Requests : Close(g, r) \/ Spoil(g, r)
<1>0. ~MayStart /\ \A w \in Workers : ~Fenced(w)
  BY ConstantsAssumption
  DEF TypeOK, Job, SafeToCancel, NoClaims, Fenced, MayStart
<1>1. ASSUME NEW w \in Workers, Work(w) PROVE UNCHANGED <<group, call>>
  <2>1. Claim(w) \/ Leave(w) \/ Stale(w) => UNCHANGED <<group, call>>
    BY DEF Claim, Leave, Stale
  <2>2. ~(StartUpload(w) \/ FinishUpload(w) \/ mark_submitting(w) \/ Submit(w))
    BY <1>0 DEF StartUpload, FinishUpload, mark_submitting, Submit, Native
  <2>3. ~(SubmitAnswered(w) \/ SubmitFailed(w) \/ Reconcile(w) \/ Poll(w))
    BY <1>0 DEF SubmitAnswered, SubmitFailed, Reconcile, Poll, Native
  <2>4. ~(Import(w) \/ FinishImport(w) \/ NothingToDo(w))
    BY <1>0 DEF Import, FinishImport, NothingToDo, Native
  <2>5. ~(StartWave(w) \/ EndWave(w))
    BY <1>0 DEF StartWave, EndWave
  <2>6. \A r \in Requests : ~Answer(w, r)
    BY <1>0 DEF Answer
  <2>7. /\ Drained(w) => UNCHANGED <<group, call>>
        /\ \A r \in Requests : Transmit(w, r) => UNCHANGED <<group, call>>
    BY DEF Drained, Transmit
  <2> QED
    BY <1>1, <2>1, <2>2, <2>3, <2>4, <2>5, <2>6, <2>7 DEF Work
<1>2. ASSUME NEW w \in Workers
      PROVE  /\ ~Register(w) /\ ~GiveUp(w) /\ ~SubmitUnidentified(w)
             /\ Die(w) => UNCHANGED <<group, call>>
             /\ \A g \in Groups : Pick(w, g) => UNCHANGED <<group, call>>
             /\ \A r \in Requests : ~Unanswered(w, r)
  BY <1>0
  DEF Register, GiveUp, SubmitUnidentified, Die, Pick, Unanswered
<1>3. ASSUME NEW g \in Groups
      PROVE  /\ Receive(g) \/ Lose(g) \/ Finish(g) \/ Expire(g)
                  => UNCHANGED <<group, call>>
             /\ \A r \in Requests :
                  Close(g, r) \/ Spoil(g, r) => UNCHANGED group
  BY DEF Receive, Lose, Finish, Expire, Close, Spoil
<1>4. Pause \/ Resume \/ DeadlinePasses \/ UNCHANGED vars
        => UNCHANGED <<group, call>>
  BY DEF Pause, Resume, DeadlinePasses, vars
<1> QED
  BY <1>1, <1>2, <1>3, <1>4 DEF Next

\* SafeMeansQuiet: once it was said to be safe to cancel no group moves, and
\* the only contacts are of calls given up before.
THEOREM SafeIsQuiet == Spec => SafeMeansQuiet
<1>1. ASSUME BatchesInvariant, [Next]_vars, SafeToCancel,
             NEW g \in Groups, NEW r \in Requests
      PROVE  contacts'[g][r] = contacts[g][r] \/ call[g][r] = "ambiguous"
  BY <1>1, ContactIsFirst DEF SafeToCancel, SentOutstanding, Calls
<1>2. ASSUME BatchesInvariant, [Next]_vars, SafeToCancel,
             NEW g \in Groups, NEW r \in Requests
      PROVE  \/ call'[g][r] = call[g][r]
             \/ call[g][r] \in {"ambiguous", "completed"}
  <2>1. TypeOK
    BY <1>2 DEF BatchesInvariant
  <2>2. ASSUME NEW h \in Groups, NEW q \in Requests,
               Close(h, q) \/ Spoil(h, q), call'[g][r] # call[g][r]
        PROVE  call[g][r] \in {"ambiguous", "completed"}
    <3>1. h = g /\ q = r
      BY <2>1, <2>2 DEF TypeOK, Close, Spoil
    <3> QED
      BY <2>2, <3>1 DEF Close, Spoil
  <2> QED
    BY <1>2, <2>1, <2>2, OnlyTheOperatorWrites
<1>3. BatchesInvariant /\ [Next]_vars =>
        [SafeToCancel =>
           /\ UNCHANGED group
           /\ \A g \in Groups, r \in Requests :
                /\ contacts'[g][r] = contacts[g][r] \/ call[g][r] = "ambiguous"
                /\ call'[g][r] = call[g][r]
                   \/ call[g][r] \in {"ambiguous", "completed"}]_vars
  BY <1>1, <1>2, OnlyTheOperatorWrites DEF BatchesInvariant
<1> QED
  BY <1>3, BatchesInvariantHolds, PTL DEF Spec, SafeMeansQuiet

=============================================================================
