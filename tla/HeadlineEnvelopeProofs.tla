------------------------ MODULE HeadlineEnvelopeProofs ------------------------
(***************************************************************************)
(* Proofs about HeadlineEnvelope, for every number of harvests and         *)
(* failing accesses: type correctness, and that coalescing never goes      *)
(* back and forgets no harvest while no access has failed.                 *)
(***************************************************************************)
EXTENDS HeadlineEnvelope, TLAPS

\* As long as nothing failed, the watermark is ahead of all that is about to be
\* sent, is sent or is worked on, because it is advanced before the message is
\* sent.
WatermarkLeads == failures = 0 =>
  /\ \A e \in marked \cup messages : e <= watermark
  /\ working[1] <= working[2] /\ working[2] <= watermark

\* What stands for the envelope `e` once its own message is dropped.
Carried(e) == \/ working[2] >= e
              \/ \E f \in marked \cup messages \cup lost : f >= e

\* As long as nothing failed, the envelope of the watermark was worked on, or
\* it or a newer one is on its way or was lost; so for the last harvest, whose
\* dispatch may still have to begin.
NewestIsCarried == failures = 0 =>
  /\ Carried(watermark)
  /\ Carried(completed) \/ completed \in pending

EnvelopeInvariant == TypeOK /\ WatermarkLeads /\ NewestIsCarried

\* The watermark and what a consumer works on are envelopes, or nothing.
LEMMA CoalescingTypes ==
  ASSUME TypeOK, NEW e \in Envelope
  PROVE  /\ Advanced(e) \in Envelope
         /\ Coalesced(e) \in Envelope \cup {None}
BY EnvelopeAssumption DEF TypeOK, Advanced, Coalesced, Envelope, None

\* Every step keeps the types.
LEMMA EnvelopeTypeStep == TypeOK /\ [Next]_vars => TypeOK'
<1> SUFFICES ASSUME TypeOK, [Next]_vars PROVE TypeOK'
  OBVIOUS
<1> USE EnvelopeAssumption
<1>1. CASE Complete
  BY <1>1 DEF Complete, TypeOK, Envelope
<1>2. ASSUME NEW e \in Envelope, Mark(e) PROVE TypeOK'
  BY <1>2, CoalescingTypes DEF Mark, TypeOK, Works, Fails
<1>3. ASSUME NEW e \in Envelope, Send(e) PROVE TypeOK'
  BY <1>3 DEF Send, TypeOK, Works, Fails
<1>4. ASSUME NEW e \in Envelope, Consume(e) PROVE TypeOK'
  <2>1. working' \in {<<None, None>>} \cup (Envelope \X Envelope)
    BY <1>4, CoalescingTypes DEF Consume, Work, TypeOK, Envelope, None
  <2> QED
    BY <1>4, <2>1 DEF Consume, TypeOK, Works, Fails
<1>5. CASE Forget
  BY <1>5 DEF Forget, TypeOK, Fails
<1>7. ASSUME NEW e \in Envelope, Lose(e) PROVE TypeOK'
  BY <1>7 DEF Lose, TypeOK
<1>6. CASE UNCHANGED vars
  BY <1>6 DEF vars, TypeOK
<1> QED
  BY <1>1, <1>2, <1>3, <1>4, <1>5, <1>6, <1>7 DEF Next

\* What a step does to the watermark and to the envelope worked on.
LEMMA NothingGoesBack ==
  ASSUME EnvelopeInvariant, [Next]_vars, failures' = 0
  PROVE  /\ failures = 0
         /\ watermark' >= watermark
         /\ \A e \in marked' \cup messages' : e <= watermark'
         /\ working' = working \/ /\ working'[1] <= working'[2]
                                  /\ working'[2] = watermark
<1> USE EnvelopeAssumption DEF EnvelopeInvariant
<1>0. /\ failures \in Nat /\ watermark \in Nat /\ Envelope \subseteq Nat
      /\ marked \subseteq Envelope /\ messages \subseteq Envelope
  BY DEF TypeOK, Envelope, None
<1>1. CASE Complete
  BY <1>0, <1>1 DEF Complete, WatermarkLeads
<1>2. ASSUME NEW e \in Envelope, Mark(e)
      PROVE  /\ failures = 0
             /\ watermark' >= watermark
             /\ \A d \in marked' \cup messages' : d <= watermark'
             /\ working' = working
  <2>1. failures = 0 /\ watermark' = Advanced(e)
    BY <1>0, <1>2 DEF Mark, Works, Fails
  <2>2. watermark' \in Nat /\ watermark' >= watermark /\ watermark' >= e
    BY <1>0, <2>1 DEF Advanced
  <2> QED
    BY <1>0, <1>2, <2>1, <2>2 DEF Mark, WatermarkLeads
<1>3. ASSUME NEW e \in Envelope, Send(e)
      PROVE  /\ failures = 0 /\ watermark' = watermark
             /\ \A d \in marked' \cup messages' : d <= watermark'
             /\ working' = working
  BY <1>0, <1>3 DEF Send, Works, Fails, WatermarkLeads
<1>4. ASSUME NEW e \in Envelope, Consume(e)
      PROVE  /\ failures = 0 /\ watermark' = watermark
             /\ \A d \in marked' \cup messages' : d <= watermark'
             /\ \/ working' = working
                \/ working'[1] <= working'[2] /\ working'[2] = watermark
  <2>1. failures = 0 /\ Work(e, Coalesced(e))
    BY <1>0, <1>4 DEF Consume, Works, Fails
  <2>2. \/ e <= watermark /\ watermark # None /\ ~(watermark > e)
        \/ watermark > e
    BY <1>0, <1>4, <2>1 DEF Consume, WatermarkLeads, None, Envelope
  <2>3. working' = working \/ (working' = <<e, watermark>> /\ e <= watermark)
    BY <1>0, <2>1, <2>2 DEF Work, Coalesced
  <2> QED
    BY <1>0, <1>4, <2>1, <2>3 DEF Consume, WatermarkLeads
<1>5. CASE Forget
  BY <1>0, <1>5 DEF Forget, Fails
<1>6. CASE UNCHANGED vars
  BY <1>0, <1>6 DEF vars, WatermarkLeads
<1>7. ASSUME NEW e \in Envelope, Lose(e)
      PROVE  /\ failures = 0 /\ watermark' = watermark
             /\ \A d \in marked' \cup messages' : d <= watermark'
             /\ working' = working
  BY <1>0, <1>7 DEF Lose, WatermarkLeads
<1> QED
  BY <1>0, <1>1, <1>2, <1>3, <1>4, <1>5, <1>6, <1>7 DEF Next

\* Whatever is carried stays carried: a message is dropped only for the
\* envelope worked on instead or for a watermark that is carried itself.
LEMMA NothingIsForgotten ==
  ASSUME EnvelopeInvariant, [Next]_vars, failures' = 0
  PROVE  NewestIsCarried'
<1> USE EnvelopeAssumption DEF EnvelopeInvariant
<1>0. /\ failures = 0 /\ failures' = 0
      /\ watermark \in Nat /\ completed \in Nat /\ Envelope \subseteq Nat
      /\ working[2] \in Nat
      /\ marked \subseteq Envelope /\ messages \subseteq Envelope
      /\ lost \subseteq Envelope /\ pending \subseteq Envelope
  <2>1. working[2] \in Nat
    BY DEF TypeOK, Envelope, None
  <2> QED
    BY <2>1, NothingGoesBack DEF TypeOK, Envelope, None
<1>1. Carried(watermark) /\ (Carried(completed) \/ completed \in pending)
  BY <1>0 DEF NewestIsCarried
<1>2. CASE Complete
  <2>1. /\ completed' = completed + 1 /\ completed' \in pending'
        /\ UNCHANGED <<marked, watermark, messages, working, lost>>
    BY <1>2 DEF Complete
  <2> QED
    BY <1>1, <2>1 DEF NewestIsCarried, Carried
<1>3. ASSUME NEW e \in Envelope, Mark(e) PROVE NewestIsCarried'
  <2>1. /\ watermark' = Advanced(e) /\ pending' = pending \ {e}
        /\ marked' = marked \cup {e}
        /\ UNCHANGED <<completed, messages, working, lost>>
    BY <1>0, <1>3 DEF Mark, Works, Fails
  <2>2. Carried(e)'
    BY <1>0, <2>1 DEF Carried
  <2>3. \A n \in Nat : Carried(n) => Carried(n)'
    BY <2>1 DEF Carried
  <2>4. Carried(watermark)'
    <3>1. CASE watermark >= e
      BY <1>0, <1>1, <2>1, <3>1 DEF Carried, Advanced
    <3>2. CASE ~(watermark >= e)
      BY <1>0, <2>1, <2>2, <3>2 DEF Carried, Advanced
    <3> QED
      BY <3>1, <3>2
  <2>5. Carried(completed)' \/ completed' \in pending'
    <3>1. CASE Carried(completed)
      BY <2>1, <3>1 DEF Carried
    <3>2. CASE completed = e
      BY <1>0, <2>1, <3>2 DEF Carried
    <3>3. CASE completed \in pending /\ completed # e
      BY <2>1, <3>3
    <3> QED
      BY <1>1, <3>1, <3>2, <3>3
  <2> QED
    BY <2>4, <2>5 DEF NewestIsCarried
<1>4. ASSUME NEW e \in Envelope, Send(e) \/ Lose(e) PROVE NewestIsCarried'
  <2>1. /\ UNCHANGED <<completed, watermark, working>>
        /\ marked \cup messages \cup lost \subseteq
             marked' \cup messages' \cup lost'
        /\ pending \subseteq pending' \cup lost'
    BY <1>0, <1>4 DEF Send, Lose, Works, Fails
  <2> QED
    BY <1>0, <1>1, <2>1 DEF NewestIsCarried, Carried
<1>5. ASSUME NEW e \in Envelope, Consume(e) PROVE NewestIsCarried'
  <2>1. /\ messages \subseteq messages' \cup {e}
        /\ Work(e, Coalesced(e))
        /\ UNCHANGED <<completed, pending, marked, watermark, lost>>
    BY <1>0, <1>5 DEF Consume, Works, Fails
  <2>2. e \in Nat /\ e <= watermark
    BY <1>0, <1>5 DEF Consume, WatermarkLeads
  <2>3. CASE watermark > e
    <3>1. working' = working
      BY <1>0, <2>1, <2>3 DEF Work, Coalesced, None
    <3>2. Carried(watermark)'
      BY <1>0, <1>1, <2>1, <2>2, <2>3, <3>1 DEF Carried
    <3>3. CASE completed \in pending
      BY <2>1, <3>2, <3>3 DEF NewestIsCarried
    <3>4. CASE Carried(completed)
      <4>1. Carried(completed)'
        <5>1. completed <= watermark => Carried(completed)'
          BY <1>0, <2>1, <3>1, <3>2 DEF Carried
        <5>2. completed > watermark => Carried(completed)'
          BY <1>0, <2>1, <2>2, <3>1, <3>4 DEF Carried
        <5> QED
          BY <1>0, <5>1, <5>2
      <4> QED
        BY <3>2, <4>1 DEF NewestIsCarried
    <3> QED
      BY <1>1, <3>3, <3>4
  <2>4. CASE watermark = e
    <3>1. working' = <<e, e>>
      BY <1>0, <2>1, <2>2, <2>4, <1>5 DEF Work, Coalesced, None, Envelope
    <3>2. Carried(watermark)'
      BY <1>0, <2>1, <2>2, <2>4, <3>1 DEF Carried
    <3>3. CASE completed \in pending
      BY <2>1, <3>2, <3>3 DEF NewestIsCarried
    <3>4. CASE Carried(completed)
      <4>1. completed <= e => Carried(completed)'
        BY <1>0, <2>1, <2>2, <3>1 DEF Carried
      <4>2. working[2] <= watermark
        BY <1>0 DEF WatermarkLeads
      <4>3. completed > e => Carried(completed)'
        BY <1>0, <2>1, <2>2, <2>4, <3>4, <4>2 DEF Carried
      <4> QED
        BY <1>0, <2>2, <3>2, <4>1, <4>3 DEF NewestIsCarried
    <3> QED
      BY <1>1, <3>3, <3>4
  <2> QED
    BY <1>0, <2>2, <2>3, <2>4
<1>6. CASE Forget
  BY <1>0, <1>6 DEF Forget, Fails
<1>7. CASE UNCHANGED vars
  BY <1>1, <1>7 DEF vars, NewestIsCarried, Carried
<1> QED
  BY <1>2, <1>3, <1>4, <1>5, <1>6, <1>7 DEF Next

\* The invariant holds in every reachable state.
THEOREM EnvelopeInvariantHolds == Spec => []EnvelopeInvariant
<1>1. Init => EnvelopeInvariant
  BY EnvelopeAssumption
     DEF Init, EnvelopeInvariant, TypeOK, WatermarkLeads, NewestIsCarried,
         Carried, Envelope, None
<1>2. EnvelopeInvariant /\ [Next]_vars => EnvelopeInvariant'
  <2> SUFFICES ASSUME EnvelopeInvariant, [Next]_vars
               PROVE  EnvelopeInvariant'
    OBVIOUS
  <2>1. TypeOK'
    BY EnvelopeTypeStep DEF EnvelopeInvariant
  <2>2. ASSUME failures' = 0
        PROVE  /\ \A e \in marked' \cup messages' : e <= watermark'
               /\ working'[1] <= working'[2] /\ working'[2] <= watermark'
    <3>1. /\ watermark \in Nat /\ watermark' \in Nat
          /\ working[1] \in Nat /\ working[2] \in Nat
      BY <2>1, EnvelopeAssumption
         DEF EnvelopeInvariant, TypeOK, Envelope, None
    <3> QED
      BY <2>2, <3>1, NothingGoesBack DEF EnvelopeInvariant, WatermarkLeads
  <2>3. NewestIsCarried'
    BY NothingIsForgotten DEF NewestIsCarried
  <2> QED
    BY <2>1, <2>2, <2>3 DEF EnvelopeInvariant, WatermarkLeads
<1> QED
  BY <1>1, <1>2, PTL DEF Spec

\* The dispatches, the watermark and the broker have their types.
THEOREM EnvelopeTypeCorrect == Spec => []TypeOK
<1>1. EnvelopeInvariant => TypeOK
  BY DEF EnvelopeInvariant
<1> QED
  BY <1>1, EnvelopeInvariantHolds, PTL

\* update_latest_envelope before apply_async: without a failing access no
\* envelope is worked on after a newer one, or for the message of a newer one.
THEOREM BacklogNeverGoesBack == Spec => NeverGoesBack
<1> DEFINE Forward == failures' = 0 =>
             working'[2] >= working[2] /\ working'[2] >= working'[1]
<1>1. EnvelopeInvariant /\ [Next]_vars => [Forward]_vars
  <2> SUFFICES ASSUME EnvelopeInvariant, [Next]_vars, failures' = 0
               PROVE  working'[2] >= working[2] /\ working'[2] >= working'[1]
    OBVIOUS
  <2>1. TypeOK'
    BY EnvelopeTypeStep DEF EnvelopeInvariant
  <2>2. /\ watermark \in Nat /\ working[1] \in Nat /\ working[2] \in Nat
        /\ working'[1] \in Nat /\ working'[2] \in Nat
    BY <2>1, EnvelopeAssumption
       DEF EnvelopeInvariant, TypeOK, Envelope, None
  <2> QED
    BY <2>2, NothingGoesBack DEF EnvelopeInvariant, WatermarkLeads
<1> QED
  BY <1>1, EnvelopeInvariantHolds, PTL DEF Spec, NeverGoesBack

\* coalesce_envelope drops a message only for a newer harvest, which is worked
\* on or on its way, or was lost itself.
THEOREM CoalescingForgetsNothing == Spec => []NoneForgotten
<1>1. EnvelopeInvariant => NoneForgotten
  <2> SUFFICES ASSUME EnvelopeInvariant, failures = 0, NEW e \in 1..completed
               PROVE  \/ working[2] >= e
                      \/ \E f \in pending \cup marked \cup messages \cup lost :
                           f >= e
    BY DEF NoneForgotten
  <2>1. /\ completed \in Nat /\ working[2] \in Nat
        /\ marked \cup messages \cup lost \subseteq Nat
        /\ e \in Nat /\ completed >= e
    BY EnvelopeAssumption DEF EnvelopeInvariant, TypeOK, Envelope, None
  <2>2. Carried(completed) \/ completed \in pending
    BY DEF EnvelopeInvariant, NewestIsCarried
  <2>3. CASE completed \in pending
    BY <2>1, <2>3
  <2>4. CASE Carried(completed)
    BY <2>1, <2>4 DEF Carried
  <2> QED
    BY <2>2, <2>3, <2>4
<1> QED
  BY <1>1, EnvelopeInvariantHolds, PTL

=============================================================================
