------------------------- MODULE ProviderCallProofs -------------------------
(***************************************************************************)
(* Proofs about ProviderCall, for every set of workers, lease, lag and     *)
(* horizon: at most one provider transport per ledger row, one holder of   *)
(* the right to transmit, and that the row implements AtMostOnceCall.      *)
(***************************************************************************)
EXTENDS ProviderCall, TLAPS

\* A reservation has not been transmitted and nobody is about to.
ReservedIsUntouched == row.state = "reserved" => contacts = 0 /\ Sending = {}

\* What each worker past its `sent` mark knows of the history.
SenderKnows == \A w \in Workers :
  /\ job[w].pc = "sending" => contacts = 0
  /\ job[w].pc = "answered" => job[w].result \in Settled
  /\ job[w].pc = "answered" /\ job[w].result \in Answered => contacts = 1

\* An answer on record was given by a provider that was contacted.
AnswerHasContact == row.state \in Answered => contacts = 1

\* The inductive invariant: AtMostOneTransport alone is not preserved by
\* Transport, which needs that the sender is alone and has not sent yet.
CallInvariant == /\ TypeOK
                 /\ AtMostOneTransport
                 /\ OneSender
                 /\ ReservedIsUntouched
                 /\ SenderKnows
                 /\ AnswerHasContact

-----------------------------------------------------------------------------
\* The initial state satisfies the inductive invariant.
LEMMA CallInvariantInit == Init => CallInvariant
BY DEF Init, CallInvariant, TypeOK, AtMostOneTransport, OneSender, Sending,
       ReservedIsUntouched, SenderKnows, AnswerHasContact, Row, States,
       Job, Run, Idle, Settled, Answered

\* Every step of every process preserves the inductive invariant.
LEMMA CallInvariantStep == CallInvariant /\ [Next]_vars => CallInvariant'
<1> SUFFICES ASSUME CallInvariant, [Next]_vars PROVE CallInvariant'
    OBVIOUS
<1> USE ConstantsAssumption
<1> USE DEF CallInvariant, TypeOK, AtMostOneTransport, OneSender, Sending,
            ReservedIsUntouched, SenderKnows, AnswerHasContact, Row, States,
            Job, Run, Idle, Settled, Answered
<1>1. CASE Tick
      BY <1>1 DEF Tick
<1>2. CASE HandOff
  <2>1. PICK t \in Recent :
          /\ Claimable(t)
          /\ row' = [row EXCEPT !.fence = @ + 1, !.expires = t + Lease]
          /\ queue' \in {queue, queue \cup {row.fence + 1}}
          /\ UNCHANGED <<now, run, job, contacts>>
        BY <1>2 DEF HandOff
  <2>2. t \in Nat /\ row.state = "reserved" /\ row.fence + 1 \in Nat
        BY <2>1 DEF Recent, Claimable
  <2>3. t + Lease \in Nat
        BY <2>2
  <2>4. row' = [state |-> "reserved", fence |-> row.fence + 1,
                expires |-> t + Lease]
        BY <2>1, <2>2
  <2>5. queue' \in SUBSET Nat
        BY <2>1, <2>2
  <2>6. Sending = {} /\ contacts = 0
        BY <2>2
  <2> QED BY <2>1, <2>2, <2>3, <2>4, <2>5, <2>6
<1>3. CASE ExpireSent
      BY <1>3 DEF ExpireSent, Recent
<1>4. CASE Lose
      BY <1>4 DEF Lose
<1>5. ASSUME NEW w \in Workers, NEW f \in queue, Receive(w, f)
      PROVE  CallInvariant'
  <2>1. UNCHANGED <<now, row, run, contacts>> /\ queue' \in SUBSET Nat
        BY <1>5 DEF Receive
  <2> DEFINE new == [pc |-> "claimed", fence |-> f, at |-> now,
                     result |-> "none"]
  <2>2. job' = job \/ job' = [job EXCEPT ![w] = new]
        BY <1>5 DEF Receive
  <2>3. f \in Nat /\ new \in Job
        OBVIOUS
  <2>4. job' \in [Workers -> Job]
        BY <2>2, <2>3
  <2>5. Sending' = Sending
        BY <1>5, <2>2 DEF Receive
  <2>6. job' \in [Workers -> Job] /\ Sending' = Sending
        BY <2>4, <2>5
  <2>7. \A v \in Sending : job'[v] = job[v]
        BY <1>5, <2>2 DEF Receive
  <2>8. OneSender' /\ SenderKnows'
        BY <2>1, <2>6, <2>7
  <2> QED BY <2>1, <2>6, <2>8
<1>6. ASSUME NEW w \in Workers, MarkSent(w) PROVE CallInvariant'
  <2>1. CASE Owns(job[w].fence, job[w].at)
        BY <1>6, <2>1 DEF MarkSent, Owns
  <2>2. CASE ~Owns(job[w].fence, job[w].at)
        BY <1>6, <2>2 DEF MarkSent, Done
  <2> QED BY <2>1, <2>2
<1>7. ASSUME NEW w \in Workers, Transport(w) PROVE CallInvariant'
  <2>1. PICK r \in Settled, contacted \in {0, 1} :
          /\ r \in Answered => contacted = 1
          /\ contacts' = contacts + contacted
          /\ job' = [job EXCEPT ![w] = [@ EXCEPT !.pc = "answered",
                                                 !.result = r]]
        BY <1>7 DEF Transport
  <2>2. /\ job[w].pc = "sending" /\ contacts = 0
        /\ \A v \in Workers \ {w} : job[v].pc \notin {"sending", "answered"}
        BY <1>7 DEF Transport
  <2>3. UNCHANGED <<now, row, run, queue>>
        BY <1>7 DEF Transport
  <2>4. contacts' \in {0, 1} /\ contacts' = contacted
        BY <2>1, <2>2
  <2> DEFINE new == [job[w] EXCEPT !.pc = "answered", !.result = r]
  <2>5. new \in Job
    <3>1. job[w] \in Job
          OBVIOUS
    <3> DEFINE mid == [job[w] EXCEPT !.pc = "answered"]
    <3>2. mid \in Job
          BY <3>1
    <3> HIDE DEF mid
    <3>3. [mid EXCEPT !.result = r] \in Job
          BY <3>2
    <3> QED BY <3>3 DEF mid
  <2>6. job' \in [Workers -> Job]
        BY <2>1, <2>5
  <2>7. w \in Sending /\ Sending = {w}
        BY <2>2
  <2>8. Sending' = {w}
        BY <2>1, <2>2
  <2>9. row.state # "reserved"
        BY <2>7
  <2>10. /\ Sending' = {w} /\ Sending = {w}
        /\ row.state # "reserved"
        BY <2>7, <2>8, <2>9
  <2>11. job'[w].pc = "answered" /\ job'[w].result = r
        BY <2>1
  <2>12. job'[w].fence = job[w].fence
        BY <2>1
  <2>13. OneSender' /\ ReservedIsUntouched'
        BY <2>3, <2>10, <2>12
  <2>14. SenderKnows'
        BY <2>1, <2>4, <2>10, <2>11
  <2>15. AnswerHasContact'
        BY <2>2, <2>3, <2>4
  <2> QED BY <2>3, <2>4, <2>6, <2>13, <2>14, <2>15
<1>8. ASSUME NEW w \in Workers, Record(w) PROVE CallInvariant'
  <2>1. /\ job' = [job EXCEPT ![w] = Idle]
        /\ queue' \in SUBSET Nat
        /\ UNCHANGED <<now, run, contacts>>
        BY <1>8 DEF Record, Done
  <2>2. Sending' = {}
        BY <1>8, <2>1 DEF Record
  <2>3. row' \in Row /\ row'.state # "reserved"
        BY <1>8 DEF Record, MaySettle
  <2>4. row'.state \in Answered => contacts = 1
        BY <1>8 DEF Record, MaySettle
  <2> QED BY <2>1, <2>2, <2>3, <2>4
<1>9. ASSUME NEW w \in Workers, Crash(w) PROVE CallInvariant'
      BY <1>9 DEF Crash
<1>10. CASE UNCHANGED vars
       BY <1>10 DEF vars
<1>11. CASE Suspend \/ WalkEnds \/ DemandChanges
  <2>1. run' \in Run /\ UNCHANGED <<now, row, queue, job, contacts>>
        BY <1>11 DEF Suspend, WalkEnds, DemandChanges
  <2> QED BY <2>1
<1> QED BY <1>1, <1>2, <1>3, <1>4, <1>5, <1>6, <1>7, <1>8, <1>9, <1>10, <1>11
        DEF Next

\* The inductive invariant holds in every reachable state.
THEOREM CallInvariantHolds == Spec => []CallInvariant
<1>1. Init => CallInvariant
      BY CallInvariantInit
<1>2. CallInvariant /\ [Next]_vars => CallInvariant'
      BY CallInvariantStep
<1> QED BY <1>1, <1>2, PTL DEF Spec

-----------------------------------------------------------------------------
\* Type correctness of the ledger row, the queue and the workers.
THEOREM TypeCorrect == Spec => []TypeOK
<1>1. CallInvariant => TypeOK
      BY DEF CallInvariant
<1> QED BY <1>1, CallInvariantHolds, PTL

\* At most one provider transport per row, however many workers, redelivered
\* messages, expired leases, crashes and stale clocks there are.
THEOREM OneTransportEver == Spec => []AtMostOneTransport
<1>1. CallInvariant => AtMostOneTransport
      BY DEF CallInvariant
<1> QED BY <1>1, CallInvariantHolds, PTL

\* No two workers hold the right to transmit, and the holder has the fence.
THEOREM OneSenderEver == Spec => []OneSender
<1>1. CallInvariant => OneSender
      BY DEF CallInvariant
<1> QED BY <1>1, CallInvariantHolds, PTL

-----------------------------------------------------------------------------
\* Every step of the row is a step, or a stutter, of the abstract call.
LEMMA PromiseStep ==
  CallInvariant /\ [Next]_vars => [Promise!Next]_(Promise!vars)
<1> SUFFICES ASSUME CallInvariant, [Next]_vars
             PROVE  [Promise!Next]_(Promise!vars)
    OBVIOUS
<1> USE DEF CallInvariant, TypeOK, Sending, ReservedIsUntouched, SenderKnows,
            AnswerHasContact, Row, States, Job, Settled, Answered
<1> USE DEF Promise!Next, Promise!vars, Promise!Start, Promise!Contact,
            Promise!Settle, Promise!Settled, Promise!Answered
<1>1. ASSUME UNCHANGED <<row, contacts>>
      PROVE  UNCHANGED Promise!vars
      BY <1>1
<1>2. CASE HandOff
      BY <1>2 DEF HandOff, Claimable
<1>3. CASE ExpireSent
      BY <1>3 DEF ExpireSent
<1>4. ASSUME NEW w \in Workers, MarkSent(w)
      PROVE  [Promise!Next]_(Promise!vars)
      BY <1>4, <1>1 DEF MarkSent, Owns
<1>5. ASSUME NEW w \in Workers, Transport(w)
      PROVE  [Promise!Next]_(Promise!vars)
  <2>1. /\ contacts = 0 /\ row.state \in {"sent", "ambiguous"}
        /\ row' = row /\ contacts' \in {0, 1}
        BY <1>5 DEF Transport
  <2> QED BY <2>1
<1>6. ASSUME NEW w \in Workers, Record(w)
      PROVE  [Promise!Next]_(Promise!vars)
  <2>1. CASE MaySettle(job[w].fence)
        BY <1>6, <2>1 DEF Record, MaySettle, AtMostOneTransport
  <2>2. CASE ~MaySettle(job[w].fence)
        BY <1>6, <2>2, <1>1 DEF Record
  <2> QED BY <2>1, <2>2
<1>7. CASE Tick \/ Lose \/ Suspend \/ WalkEnds \/ DemandChanges \/ UNCHANGED vars
      BY <1>7, <1>1 DEF Tick, Lose, Suspend, WalkEnds, DemandChanges, vars
<1>8. ASSUME NEW w \in Workers,
             (\E f \in queue : Receive(w, f)) \/ Crash(w)
      PROVE  [Promise!Next]_(Promise!vars)
      BY <1>8, <1>1 DEF Receive, Crash
<1> QED BY <1>2, <1>3, <1>4, <1>5, <1>6, <1>7, <1>8 DEF Next

\* The ledger row, its workers and the broker implement the abstract call.
THEOREM ImplementsPromise == Spec => KeepsPromise
<1>1. Init => Promise!Init
      BY DEF Init, Promise!Init
<1>2. CallInvariant /\ [Next]_vars => [Promise!Next]_(Promise!vars)
      BY PromiseStep
<1> QED BY <1>1, <1>2, CallInvariantHolds, PTL
        DEF Spec, KeepsPromise, Promise!Spec

=============================================================================
