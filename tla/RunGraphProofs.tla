--------------------------- MODULE RunGraphProofs ---------------------------
(***************************************************************************)
(* Proofs about RunGraph, for every number of workers, batches, brands and *)
(* faults and for all caps and prices: type correctness, brands that are   *)
(* decided by the answers on record alone, caps that are kept,             *)
(* and the promise of RunPromise; and suspensions that are final for a     *)
(* single worker, or for two and a plan that fits the cap.                 *)
(***************************************************************************)
EXTENDS RunGraph, FiniteSetTheorems, TLAPS

-----------------------------------------------------------------------------
(* The inductive invariant *)

\* A completed editor answer has been judged.
VerdictKnown == \A b \in Batches :
  call[Editor(b)] = "completed" => verdict[b] # "none"

GraphInvariant == /\ TypeOK
                  /\ VerdictKnown
                  /\ DecidedByAnswers
                  /\ WithinBudget

\* The outcome of a brand agrees with the answers about its batch.
Justified(b, k) ==
  /\ outcome[k] = "approved" =>
       /\ call[Editor(b)] = "completed"
       /\ \/ verdict[b] = "plain"
          \/ /\ verdict[b] = "risky" /\ call[Critic(b)] = "completed"
             /\ k \in approves[b]
  /\ outcome[k] = "held" =>
       \/ call[Editor(b)] \in Failed
       \/ call[Editor(b)] = "completed" /\ verdict[b] = "unusable"
       \/ /\ call[Editor(b)] = "completed" /\ verdict[b] = "risky"
          /\ \/ call[Critic(b)] \in Failed
             \/ call[Critic(b)] = "completed" /\ k \notin approves[b]

Jobs == {Idle, Building} \cup {Transport(c) : c \in Calls}
          \cup {Meter(c) : c \in Calls} \cup {Walk(k) : k \in 0..N + 1}

\* The run is asked to be published only once it is closed, and what is public
\* is decided.
PublicIsDecided == /\ closing => status # "preparing"
                   /\ status = "active" => Complete

\* The circumstances under which a suspension is final: batches with brands, and
\* either two processes at most and planned calls that fit the cap, or a single
\* process and a cap that admits a call.
AtMostOneWorker  == \A v, w \in Workers : v = w
AtMostTwoWorkers == \A u, v, w \in Workers : u = v \/ v = w \/ u = w
NoBatchIsEmpty   == \A b \in Batches : Members[b] # {}
PlanFits         == 1 + 2 * Planned <= CallCap

FewWorkers == \/ AtMostTwoWorkers /\ PlanFits
              \/ AtMostOneWorker /\ CallCap > 0

\* A process that is alone builds the run before it walks.
BuiltFirst == AtMostOneWorker =>
  \A w \in Workers : job[w] = Building => \A c \in Calls : call[c] = "none"

\* Only brands without a narrative are decided without a call.
NoContentIsPlain == \A k \in Brand : outcome[k] = "no_content" => k \in Plain

\* The batches come after the rank call.
RankIsFirst ==
  /\ \A w \in Workers : job[w] = Walk(0) => N > 0
  /\ call[Rank] \notin Settled =>
       /\ \A b \in Batches : call[Editor(b)] = "none"
       /\ \A w \in Workers, i \in 1..N + 1 : job[w] # Walk(i)

\* The workers whose walk has not passed the batch.
Before(b) == {w \in Workers : \E i \in 0..b : job[w] = Walk(i)}

\* The next call of the batch has no row.
Unasked(b) == \/ call[Editor(b)] = "none"
              \/ /\ call[Editor(b)] = "completed" /\ verdict[b] = "risky"
                 /\ call[Critic(b)] = "none"

\* No walk will decide the batch any more: the last one that comes by can at
\* most reserve its call.
Stuck(b) == \/ Before(b) = {}
            \/ Unasked(b) /\ \A v, w \in Before(b) : v = w

\* A suspended run has a batch like that.
StopsForGood == status = "suspended" =>
  /\ ~closing
  /\ \E b \in Batches : Stuck(b) /\ \E k \in Members[b] : outcome[k] = "none"

SuspensionInvariant ==
  NoContentIsPlain /\ RankIsFirst /\ BuiltFirst /\ StopsForGood

-----------------------------------------------------------------------------
(* Calls *)

\* The calls of a run are told apart by stage and batch.
LEMMA CallsDiffer ==
  /\ Rank \in Calls
  /\ \A b \in Batches : /\ Editor(b) \in Calls /\ Critic(b) \in Calls
                        /\ Editor(b) # Rank /\ Critic(b) # Rank
  /\ \A b, d \in Batches : /\ Editor(b) # Critic(d)
                           /\ b # d => /\ Editor(b) # Editor(d)
                                       /\ Critic(b) # Critic(d)
  /\ \A c \in Calls : /\ c[1] = "editor" => c[2] \in Batches /\ c = Editor(c[2])
                      /\ c[1] = "critic" => c[2] \in Batches /\ c = Critic(c[2])
  /\ \A b \in Batches : /\ Editor(b)[1] = "editor" /\ Editor(b)[2] = b
                        /\ Critic(b)[1] = "critic" /\ Critic(b)[2] = b
BY DEF Calls, Rank, Editor, Critic

\* A run has finitely many calls.
LEMMA FinitelyManyCalls == IsFiniteSet(Calls)
<1> USE GraphAssumption
<1> DEFINE E == {Editor(b) : b \in Batches}
           C == {Critic(b) : b \in Batches}
<1>1. IsFiniteSet(Batches)
  BY FS_Interval DEF Batches
<1>2. IsFiniteSet(E)
  <2> DEFINE f == [b \in Batches |-> Editor(b)]
  <2>1. f \in Surjection(Batches, E)
    BY DEF Surjection
  <2> HIDE DEF f, E
  <2> QED
    BY <1>1, <2>1, FS_Surjection
<1>3. IsFiniteSet(C)
  <2> DEFINE f == [b \in Batches |-> Critic(b)]
  <2>1. f \in Surjection(Batches, C)
    BY DEF Surjection
  <2> HIDE DEF f, C
  <2> QED
    BY <1>1, <2>1, FS_Surjection
<1>4. IsFiniteSet({Rank})
  BY FS_Singleton
<1>5. Calls = ({Rank} \cup E) \cup C
  BY DEF Calls
<1> HIDE DEF E, C
<1>6. IsFiniteSet({Rank} \cup E)
  BY <1>2, <1>4, FS_Union
<1> QED
  BY <1>3, <1>5, <1>6, FS_Union

-----------------------------------------------------------------------------
(* The budget *)

\* No call is dearer than its estimate and the excess.
LEMMA ExcessCovers == Excess \in Nat /\ Usage <= Estimate + Excess
BY GraphAssumption DEF Excess

\* Settling calls at their usage makes the run dearer than it was with them at
\* their estimate by their excess at most.
LEMMA SettlingCostsExcess ==
  ASSUME NEW n \in Nat, NEW x \in Nat, NEW y \in Nat, x <= y, y <= n
  PROVE  /\ Excess * x \in Nat /\ Excess * y \in Nat
         /\ (Estimate * (n - y) + Usage * y) + Excess * x
              <= (Estimate * (n - x) + Usage * x) + Excess * y
<1> USE GraphAssumption, ExcessCovers
<1> DEFINE d == y - x
           m == n - y
<1>1. d \in Nat /\ m \in Nat /\ y = x + d /\ n - x = m + d
  OBVIOUS
<1> HIDE DEF d, m
<1>2. \A e, p, q \in Nat : e * (p + q) = e * p + e * q
  OBVIOUS
<1>3. /\ Estimate * (m + d) = Estimate * m + Estimate * d
      /\ Usage * (x + d) = Usage * x + Usage * d
      /\ Excess * (x + d) = Excess * x + Excess * d
  BY <1>1, <1>2
<1>4. Usage * d <= Estimate * d + Excess * d
  <2>1. \A u, e, f, p \in Nat : u <= e + f => u * p <= e * p + f * p
    OBVIOUS
  <2> QED
    BY <1>1, <2>1
<1>5. \A e, p \in Nat : e * p \in Nat
  OBVIOUS
<1>6. /\ Estimate * m \in Nat /\ Estimate * d \in Nat
      /\ Usage * x \in Nat /\ Usage * d \in Nat
      /\ Excess * x \in Nat /\ Excess * d \in Nat
  BY <1>1, <1>5
<1>7. Estimate * (n - y) + Usage * y = Estimate * m + (Usage * x + Usage * d)
  BY <1>1, <1>3 DEF m
<1>8. Estimate * (n - x) + Usage * x = (Estimate * m + Estimate * d) + Usage * x
  BY <1>1, <1>3
<1>9. Excess * y = Excess * x + Excess * d
  BY <1>1, <1>3
<1> QED
  BY <1>4, <1>6, <1>7, <1>8, <1>9

\* What is spent, in numbers.
LEMMA Spending ==
  TypeOK => /\ IsFiniteSet(Rows) /\ IsFiniteSet(Exact) /\ Exact \subseteq Rows
            /\ Cardinality(Rows) \in Nat /\ Cardinality(Exact) \in Nat
            /\ Cardinality(Exact) <= Cardinality(Rows)
            /\ Spend = Estimate * (Cardinality(Rows) - Cardinality(Exact))
                         + Usage * Cardinality(Exact)
<1> SUFFICES ASSUME TypeOK
             PROVE  /\ IsFiniteSet(Rows) /\ IsFiniteSet(Exact)
                    /\ Exact \subseteq Rows
                    /\ Cardinality(Rows) \in Nat /\ Cardinality(Exact) \in Nat
                    /\ Cardinality(Exact) <= Cardinality(Rows)
                    /\ Spend = Estimate * (Cardinality(Rows) - Cardinality(Exact))
                                 + Usage * Cardinality(Exact)
  OBVIOUS
<1>1. Rows \subseteq Calls /\ Exact \subseteq Rows
  BY DEF Rows, Exact, TypeOK
<1>2. IsFiniteSet(Rows)
  BY <1>1, FinitelyManyCalls, FS_Subset
<1>3. IsFiniteSet(Exact) /\ Cardinality(Exact) <= Cardinality(Rows)
  BY <1>1, <1>2, FS_Subset
<1>4. Cardinality(Rows \ Exact) = Cardinality(Rows) - Cardinality(Exact)
  <2>1. Rows \cap Exact = Exact
    BY <1>1
  <2> QED
    BY <1>2, <2>1, FS_Difference
<1>5. Cardinality(Rows) \in Nat /\ Cardinality(Exact) \in Nat
  BY <1>2, <1>3, FS_CardinalityType
<1> QED
  BY <1>1, <1>2, <1>3, <1>4, <1>5 DEF Spend

\* A step that makes no row, and forgets no usage, keeps within the caps.
LEMMA SettlingKeepsBudget ==
  ASSUME TypeOK, TypeOK', WithinBudget,
         \A c \in Calls : /\ call'[c] = "none" <=> call[c] = "none"
                          /\ call[c] = "completed" => call'[c] = "completed",
         metered \subseteq metered'
  PROVE  WithinBudget'
<1> USE GraphAssumption
<1>1. Rows' = Rows /\ Exact \subseteq Exact'
  BY DEF Rows, Exact, TypeOK
<1>2. /\ IsFiniteSet(Exact') /\ Cardinality(Exact') \in Nat
      /\ Cardinality(Rows)' \in Nat
      /\ Cardinality(Exact') <= Cardinality(Rows')
      /\ Spend' = Estimate * (Cardinality(Rows') - Cardinality(Exact'))
                    + Usage * Cardinality(Exact')
  <2>1. (TypeOK => /\ IsFiniteSet(Exact) /\ Cardinality(Exact) \in Nat
                   /\ Cardinality(Rows) \in Nat
                   /\ Cardinality(Exact) <= Cardinality(Rows)
                   /\ Spend = Estimate * (Cardinality(Rows) - Cardinality(Exact))
                                + Usage * Cardinality(Exact))'
    BY Spending, PTL
  <2> QED
    BY <2>1
<1>3. /\ Cardinality(Rows) \in Nat /\ Cardinality(Exact) \in Nat
      /\ Cardinality(Exact) <= Cardinality(Rows)
      /\ Spend = Estimate * (Cardinality(Rows) - Cardinality(Exact))
                   + Usage * Cardinality(Exact)
  BY Spending
<1>4. Cardinality(Exact) <= Cardinality(Exact')
  BY <1>1, <1>2, FS_Subset
<1> DEFINE n == Cardinality(Rows)
           x == Cardinality(Exact)
           y == Cardinality(Exact')
<1>5. /\ n \in Nat /\ x \in Nat /\ y \in Nat /\ x <= y /\ y <= n
      /\ Cardinality(Rows') = n
      /\ Spend' = Estimate * (n - y) + Usage * y
      /\ Spend = Estimate * (n - x) + Usage * x
      /\ n <= CallCap /\ Spend <= TokenCap + Excess * x
  BY <1>1, <1>2, <1>3, <1>4 DEF WithinBudget
<1> HIDE DEF n, x, y
<1>6. /\ Excess * x \in Nat /\ Excess * y \in Nat
      /\ Spend' + Excess * x <= Spend + Excess * y
  BY <1>5, SettlingCostsExcess
<1>7. /\ Estimate * (n - y) \in Nat /\ Usage * y \in Nat
      /\ Estimate * (n - x) \in Nat /\ Usage * x \in Nat
  <2>1. \A e, p \in Nat : e * p \in Nat
    OBVIOUS
  <2>2. n - y \in Nat /\ n - x \in Nat
    BY <1>5
  <2> QED
    BY <1>5, <2>1, <2>2
<1>8. Spend' \in Nat /\ Spend \in Nat
  BY <1>5, <1>7
<1>9. Cardinality(Rows') <= CallCap /\ Spend' <= TokenCap + Excess * y
  BY <1>5, <1>6, <1>8
<1> QED
  BY <1>9 DEF WithinBudget, Excess, y

\* A new row that the caps allow keeps within them.
LEMMA NewRowKeepsBudget ==
  ASSUME TypeOK, TypeOK', Affordable, NEW d \in Calls,
         call[d] = "none", call'[d] = "reserved",
         \A c \in Calls : c # d => call'[c] = call[c],
         metered' = metered
  PROVE  WithinBudget'
<1> USE GraphAssumption
<1>1. Rows' = Rows \cup {d} /\ d \notin Rows
  BY DEF Rows
<1>2. Exact' = Exact
  BY DEF Exact, TypeOK
<1>3. /\ IsFiniteSet(Rows)
      /\ Cardinality(Rows) \in Nat /\ Cardinality(Exact) \in Nat
      /\ Cardinality(Exact) <= Cardinality(Rows)
      /\ Spend = Estimate * (Cardinality(Rows) - Cardinality(Exact))
                   + Usage * Cardinality(Exact)
      /\ Exact \subseteq Rows
  BY Spending
<1>4. Cardinality(Rows') = Cardinality(Rows) + 1
  BY <1>1, <1>3, FS_AddElement
<1> DEFINE n == Cardinality(Rows)
           x == Cardinality(Exact)
           u == Usage * x
<1>5. Spend' = Estimate * ((n + 1) - x) + u
  <2>1. Cardinality(Rows' \ Exact') = (n + 1) - x
    <3>1. (Rows' \ Exact') = (Rows \ Exact) \cup {d} /\ d \notin Rows \ Exact
      BY <1>1, <1>2, <1>3
    <3>2. IsFiniteSet(Rows \ Exact) /\ Cardinality(Rows \ Exact) = n - x
      <4>1. Rows \cap Exact = Exact
        BY <1>3
      <4>2. /\ IsFiniteSet(Rows \ Exact)
            /\ Cardinality(Rows \ Exact)
                 = Cardinality(Rows) - Cardinality(Rows \cap Exact)
        BY <1>3, FS_Difference
      <4> QED
        BY <4>1, <4>2
    <3>3. Cardinality((Rows \ Exact) \cup {d}) = (n - x) + 1
      BY <3>1, <3>2, FS_AddElement
    <3>4. (n - x) + 1 = (n + 1) - x
      BY <1>3
    <3> QED
      BY <3>1, <3>3, <3>4
  <2> QED
    BY <1>2, <2>1 DEF Spend
<1>6. n \in Nat /\ x \in Nat /\ x <= n /\ Spend = Estimate * (n - x) + u
      /\ n + 1 <= CallCap /\ Spend + Estimate <= TokenCap
  BY <1>3 DEF Affordable
<1> HIDE DEF n, x, u
<1>7. Estimate * ((n + 1) - x) = Estimate * (n - x) + Estimate
  <2>1. \A e, p \in Nat : e * (p + 1) = e * p + e
    OBVIOUS
  <2>2. n - x \in Nat /\ (n + 1) - x = (n - x) + 1
    BY <1>6
  <2> QED
    BY <2>1, <2>2
<1>8. u \in Nat /\ Estimate * (n - x) \in Nat
  <2>1. \A e, p \in Nat : e * p \in Nat
    OBVIOUS
  <2>2. n - x \in Nat
    BY <1>6
  <2> QED
    BY <1>6, <2>1, <2>2 DEF u
<1>9. Spend' <= TokenCap + Excess * Cardinality(Exact')
  <2>1. Spend' <= TokenCap /\ Spend' \in Nat
    BY <1>5, <1>6, <1>7, <1>8
  <2>2. Excess * x \in Nat
    <3>1. \A e, p \in Nat : e * p \in Nat
      OBVIOUS
    <3> QED
      BY <1>6, <3>1, ExcessCovers
  <2>3. x = Cardinality(Exact')
    BY <1>2 DEF x
  <2> QED
    BY <2>1, <2>2, <2>3
<1>10. Cardinality(Rows') <= CallCap
  BY <1>4, <1>6 DEF n
<1> QED
  BY <1>9, <1>10 DEF WithinBudget

-----------------------------------------------------------------------------
(* Frames *)

\* Brands stay justified: what is settled stays as it is, and an outcome that
\* is new is justified by what is settled.
LEMMA DecisionsFrame ==
  ASSUME GraphInvariant,
         \A c \in Calls : call[c] \in Settled => call'[c] = call[c],
         \A b \in Batches :
           /\ call[Editor(b)] \in Settled => verdict'[b] = verdict[b]
           /\ call'[Editor(b)] = "completed" => verdict'[b] # "none"
           /\ call[Critic(b)] \in Settled => approves'[b] = approves[b],
         \A k \in Brand : \/ outcome'[k] = outcome[k]
                          \/ outcome'[k] = "no_content"
                          \/ \E b \in Batches : /\ k \in Members[b]
                                                /\ Justified(b, k)'
  PROVE  VerdictKnown' /\ DecidedByAnswers'
<1> USE GraphAssumption, CallsDiffer DEF GraphInvariant
<1>1. VerdictKnown'
  BY DEF VerdictKnown
<1>2. ASSUME NEW b \in Batches, NEW k \in Members[b] PROVE Justified(b, k)'
  <2>0. k \in Brand
    OBVIOUS
  <2>1. CASE outcome'[k] = "no_content"
    BY <2>1 DEF Justified
  <2>2. CASE outcome'[k] = outcome[k]
    BY <2>2 DEF Justified, DecidedByAnswers, Settled, Failed
  <2>3. ASSUME NEW d \in Batches, k \in Members[d], Justified(d, k)'
        PROVE  Justified(b, k)'
    <3>1. d = b
      BY <2>3
    <3> QED
      BY <2>3, <3>1
  <2> QED
    BY <2>0, <2>1, <2>2, <2>3
<1>3. DecidedByAnswers'
  BY <1>2 DEF DecidedByAnswers, Justified
<1> QED
  BY <1>1, <1>3

\* A step that leaves calls and outcomes alone keeps the invariant.
LEMMA QuietFrame ==
  ASSUME GraphInvariant, TypeOK',
         UNCHANGED <<call, metered, verdict, approves, outcome>>
  PROVE  GraphInvariant'
<1> USE DEF GraphInvariant
<1>1. WithinBudget'
  BY SettlingKeepsBudget
<1>2. VerdictKnown' /\ DecidedByAnswers'
  BY DecisionsFrame, CallsDiffer DEF VerdictKnown
<1> QED
  BY <1>1, <1>2

-----------------------------------------------------------------------------
(* Types *)

\* A worker goes on to a job it can have.
LEMMA GoingOn ==
  ASSUME TypeOK, NEW w \in Workers, NEW j \in Jobs, Go(w, j)
  PROVE  job' \in [Workers -> Jobs]
BY DEF TypeOK, Go, Jobs

\* A reconciliation that begins leaves a run of the known kinds.
LEMMA BeginTypes ==
  ASSUME TypeOK, NEW w \in Workers, BeginWalk(w)
  PROVE  /\ job' \in [Workers -> Jobs]
         /\ status' \in {"preparing", "terminal", "suspended", "active"}
         /\ closing' \in BOOLEAN
<1>1. Idle \in Jobs /\ Walk(0) \in Jobs
  BY GraphAssumption DEF Jobs
<1>2. /\ Go(w, Idle) \/ Go(w, Walk(0))
      /\ status' \in {status, "terminal"} /\ closing' \in {closing, TRUE}
  BY DEF BeginWalk
<1> QED
  BY <1>1, <1>2, GoingOn DEF TypeOK

\* So does a suspension.
LEMMA SuspendTypes ==
  ASSUME TypeOK, NEW w \in Workers, Suspend(w)
  PROVE  /\ job' \in [Workers -> Jobs]
         /\ status' \in {"preparing", "terminal", "suspended", "active"}
<1>1. Idle \in Jobs
  BY DEF Jobs
<1> QED
  BY <1>1, GoingOn DEF TypeOK, Suspend

\* A visit reserves a row for a call, or settles one whose lease is over.
LEMMA Visiting ==
  ASSUME TypeOK, NEW c \in Calls, Visit(c)
  PROVE  /\ call' \in [Calls -> {"none", "reserved", "sent"} \cup Settled]
         /\ lease' \in [Calls -> BOOLEAN] /\ stages' \in SUBSET Calls
         /\ \A d \in Calls : d # c => call'[d] = call[d]
         /\ call[c] = "none" => call'[c] = "reserved"
         /\ call[c] # "none" => call'[c] \in {call[c], "ambiguous"}
         /\ call[c] # "sent" /\ call[c] # "none" => call'[c] = call[c]
<1>1. \/ call[c] = "none" /\ call' = [call EXCEPT ![c] = "reserved"]
      \/ call[c] = "sent" /\ call' = [call EXCEPT ![c] = "ambiguous"]
      \/ call[c] # "none" /\ call' = call
  BY DEF Visit
<1>2. lease' \in [Calls -> BOOLEAN] /\ stages' \in SUBSET Calls
  BY DEF Visit, TypeOK
<1> QED
  BY <1>1, <1>2 DEF TypeOK, Settled, Failed

\* A visit within the budget keeps the budget, and what is settled.
LEMMA VisitKeeps ==
  ASSUME GraphInvariant, TypeOK', NEW c \in Calls, Visit(c), ~OverBudget(c),
         UNCHANGED <<metered, verdict, approves>>
  PROVE  /\ WithinBudget'
         /\ \A d \in Calls : call[d] \in Settled => call'[d] = call[d]
         /\ \A b \in Batches : call'[Editor(b)] = "completed" =>
              call[Editor(b)] = "completed" /\ verdict'[b] # "none"
<1> USE DEF GraphInvariant
<1>0. /\ \A d \in Calls : d # c => call'[d] = call[d]
      /\ call[c] = "none" => call'[c] = "reserved"
      /\ call[c] # "none" => call'[c] \in {call[c], "ambiguous"}
      /\ call[c] # "sent" /\ call[c] # "none" => call'[c] = call[c]
  BY Visiting
<1>1. \A d \in Calls : call[d] \in Settled => call'[d] = call[d]
  BY <1>0 DEF Settled, Failed
<1>2. WithinBudget'
  <2>1. CASE call[c] = "none"
    BY <1>0, <2>1, NewRowKeepsBudget DEF OverBudget
  <2>2. CASE call[c] # "none"
    BY <1>0, <2>2, SettlingKeepsBudget
  <2> QED
    BY <2>1, <2>2
<1>3. \A b \in Batches : call'[Editor(b)] = "completed" =>
        call[Editor(b)] = "completed" /\ verdict'[b] # "none"
  BY <1>0, CallsDiffer DEF VerdictKnown
<1> QED
  BY <1>1, <1>2, <1>3

-----------------------------------------------------------------------------
(* The steps *)

\* The run is built, envelopes, the end of a walk, finalization, faults: no
\* call and no outcome of an eligible brand changes.
LEMMA QuietStep ==
  ASSUME GraphInvariant,
         \/ \E w \in Workers : FinishBuilding(w) \/ Envelope(w)
                               \/ WalkClose(w) \/ Finalize(w) \/ Crash(w)
         \/ \E c \in Calls : LeaseExpires(c)
         \/ Lose
         \/ UNCHANGED vars
  PROVE  GraphInvariant'
<1> USE DEF GraphInvariant
<1>0. /\ call \in [Calls -> {"none", "reserved", "sent"} \cup Settled]
      /\ Idle \in Jobs
  BY DEF TypeOK, Jobs
<1>1. UNCHANGED <<call, metered, verdict, approves, outcome>>
  BY DEF FinishBuilding, Envelope, WalkClose, Finalize, Crash, LeaseExpires,
         Lose, vars
<1>2. /\ job' \in [Workers -> Jobs] /\ closing' \in BOOLEAN
      /\ status' \in {"preparing", "terminal", "suspended", "active"}
  <2>1. ASSUME NEW w \in Workers, FinishBuilding(w) \/ Envelope(w)
        PROVE  /\ job' \in [Workers -> Jobs] /\ closing' \in BOOLEAN
               /\ status' \in {"preparing", "terminal", "suspended", "active"}
    BY <2>1, BeginTypes, SuspendTypes DEF FinishBuilding, Envelope, TypeOK
  <2>2. ASSUME NEW w \in Workers, WalkClose(w) \/ Crash(w)
        PROVE  /\ job' \in [Workers -> Jobs] /\ closing' \in BOOLEAN
               /\ status' \in {"preparing", "terminal", "suspended", "active"}
    <3>1. job' \in [Workers -> Jobs]
      BY <1>0, <2>2, GoingOn DEF WalkClose, Crash
    <3> QED
      BY <2>2, <3>1 DEF WalkClose, Crash, TypeOK
  <2>3. ASSUME \/ \E w \in Workers : Finalize(w)
               \/ \E c \in Calls : LeaseExpires(c)
               \/ Lose
               \/ UNCHANGED vars
        PROVE  /\ job' \in [Workers -> Jobs] /\ closing' \in BOOLEAN
               /\ status' \in {"preparing", "terminal", "suspended", "active"}
    <3>1. job' = job
      BY <2>3 DEF Finalize, LeaseExpires, Lose, vars
    <3>2. job' \in [Workers -> Jobs]
      BY <3>1 DEF TypeOK, Jobs
    <3> QED
      BY <2>3, <3>2 DEF Finalize, LeaseExpires, Lose, vars, TypeOK
  <2> QED
    BY <2>1, <2>2, <2>3
<1>3. lease' \in [Calls -> BOOLEAN] /\ stages' \in SUBSET Calls
  BY DEF FinishBuilding, Envelope, WalkClose, Finalize, Crash, LeaseExpires,
         Lose, vars, TypeOK
<1>4. faults' \in 0..MaxFaults
  BY GraphAssumption DEF FinishBuilding, Envelope, WalkClose, Finalize, Crash,
         LeaseExpires, Lose, vars, TypeOK
<1>5. TypeOK'
  BY <1>1, <1>2, <1>3, <1>4 DEF TypeOK, Jobs
<1> QED
  BY <1>1, <1>5, QuietFrame

\* A brand without a narrative gets its row.
LEMMA PlainStep ==
  ASSUME GraphInvariant, NEW w \in Workers, WritePlain(w)
  PROVE  GraphInvariant'
<1> USE DEF GraphInvariant
<1>1. PICK k \in Plain : outcome' = [outcome EXCEPT ![k] = "no_content"]
  BY DEF WritePlain
<1>2. UNCHANGED <<status, call, lease, metered, verdict, approves, stages,
                  closing, job, faults>>
  BY DEF WritePlain
<1>3. TypeOK'
  BY <1>1, <1>2 DEF TypeOK
<1>4. WithinBudget'
  BY <1>2, <1>3, SettlingKeepsBudget
<1>5. \A q \in Brand : outcome'[q] \in {outcome[q], "no_content"}
  BY <1>1 DEF TypeOK
<1>6. VerdictKnown' /\ DecidedByAnswers'
  BY <1>2, <1>5, DecisionsFrame DEF VerdictKnown
<1> QED
  BY <1>3, <1>4, <1>6

\* The walk visits the rank call.
LEMMA RankStep ==
  ASSUME GraphInvariant, NEW w \in Workers, WalkRank(w)
  PROVE  GraphInvariant'
<1> USE DEF GraphInvariant
<1>1. CASE OverBudget(Rank)
  <2>1. Suspend(w) /\ UNCHANGED <<call, lease, stages, metered, verdict,
                                  approves, outcome, closing, faults>>
    BY <1>1 DEF WalkRank
  <2>2. TypeOK'
    BY <2>1, SuspendTypes DEF TypeOK, Jobs
  <2> QED
    BY <2>1, <2>2, QuietFrame
<1>2. CASE ~OverBudget(Rank)
  <2>1. /\ Visit(Rank) /\ Rank \in Calls
        /\ Go(w, Walk(1)) \/ Go(w, Idle)
        /\ UNCHANGED <<status, metered, verdict, approves, outcome, closing,
                       faults>>
    BY <1>2, CallsDiffer DEF WalkRank
  <2>2. job' \in [Workers -> Jobs]
    <3>1. Idle \in Jobs /\ Walk(1) \in Jobs
      BY GraphAssumption DEF Jobs
    <3> QED
      BY <2>1, <3>1, GoingOn
  <2>3. TypeOK'
    BY <2>1, <2>2, Visiting DEF TypeOK, Jobs
  <2>4. /\ WithinBudget'
        /\ \A d \in Calls : call[d] \in Settled => call'[d] = call[d]
        /\ \A b \in Batches : call'[Editor(b)] = "completed" =>
             verdict'[b] # "none"
    BY <1>2, <2>1, <2>3, VisitKeeps
  <2>5. VerdictKnown' /\ DecidedByAnswers'
    BY <2>1, <2>4, DecisionsFrame
  <2> QED
    BY <2>3, <2>4, <2>5
<1> QED
  BY <1>1, <1>2

\* The walk visits a batch, and decides its brands once their last call is
\* settled.
LEMMA BatchStep ==
  ASSUME GraphInvariant, NEW w \in Workers, NEW b \in Batches, WalkBatch(w, b)
  PROVE  GraphInvariant'
<1> USE DEF GraphInvariant
<1> DEFINE e == Editor(b)
           c == Critic(b)
           review == call[e] = "completed" /\ verdict[b] = "risky"
           next == IF review THEN c ELSE e
           good == IF call'[next] \in Failed THEN {}
                   ELSE IF review THEN approves[b]
                   ELSE IF verdict[b] = "plain" THEN Members[b] ELSE {}
<1>1. CASE OverBudget(next)
  <2>1. Suspend(w) /\ UNCHANGED <<call, lease, stages, outcome, faults,
                                  metered, verdict, approves, closing>>
    BY <1>1 DEF WalkBatch
  <2>2. TypeOK'
    BY <2>1, SuspendTypes DEF TypeOK, Jobs
  <2> QED
    BY <2>1, <2>2, QuietFrame
<1>2. CASE ~OverBudget(next)
  <2>0. next \in Calls /\ Members[b] \subseteq Brand
    BY CallsDiffer, GraphAssumption
  <2>1. /\ Visit(next)
        /\ UNCHANGED <<status, metered, verdict, approves, closing>>
        /\ \/ call'[next] \notin Settled /\ MoveOn(w, b)
           \/ call'[next] \in Settled /\ Decide(w, b, good)
    BY <1>2 DEF WalkBatch, Settled
  <2> HIDE DEF good
  <2>2. job' \in [Workers -> Jobs] /\ faults' \in 0..MaxFaults
    <3>1. Idle \in Jobs /\ Walk(b + 1) \in Jobs
      BY GraphAssumption DEF Jobs, Batches
    <3>2. Go(w, Idle) \/ Go(w, Walk(b + 1))
      BY <2>1 DEF MoveOn, Decide
    <3>3. faults' = faults \/ (faults < MaxFaults /\ faults' = faults + 1)
      BY <2>1 DEF MoveOn, Decide
    <3> QED
      BY <3>1, <3>2, <3>3, GoingOn, GraphAssumption DEF TypeOK
  <2>3. outcome' \in [Brand -> {"none", "approved", "held", "no_content"}]
    BY <2>1 DEF MoveOn, Decide, TypeOK
  <2>4. TypeOK'
    <3> HIDE DEF next
    <3> QED
      BY <2>0, <2>1, <2>2, <2>3, Visiting DEF TypeOK, Jobs
  <2>5. /\ WithinBudget'
        /\ \A d \in Calls : call[d] \in Settled => call'[d] = call[d]
        /\ \A d \in Batches : call'[Editor(d)] = "completed" =>
             call[Editor(d)] = "completed" /\ verdict'[d] # "none"
    <3> HIDE DEF next
    <3> QED
      BY <1>2, <2>0, <2>1, <2>4, VisitKeeps
  <2>6. \A k \in Brand : \/ outcome'[k] = outcome[k]
                         \/ /\ k \in Members[b] /\ call'[next] \in Settled
                            /\ outcome'[k] = IF k \in good THEN "approved"
                                                           ELSE "held"
    BY <2>1 DEF MoveOn, Decide
  <2>7. ASSUME NEW k \in Members[b], call'[next] \in Settled,
               outcome'[k] = IF k \in good THEN "approved" ELSE "held"
        PROVE  Justified(b, k)'
    <3>1. e \in Calls /\ c \in Calls /\ verdict' = verdict /\ approves' = approves
          /\ verdict[b] \in Verdicts \cup {"none"}
      BY <2>1, CallsDiffer DEF TypeOK
    <3>2. CASE review
      <4>1. call'[e] = "completed" /\ next = c
        BY <2>5, <3>1, <3>2 DEF Settled
      <4> QED
        BY <2>7, <3>1, <3>2, <4>1 DEF Justified, good, Settled, Failed
    <3>3. CASE ~review
      <4>1. next = e
        BY <3>3
      <4>2. call'[e] = "completed" => verdict[b] \in {"plain", "unusable"}
        BY <2>5, <3>1, <3>3 DEF Verdicts
      <4> QED
        BY <2>7, <3>1, <3>3, <4>1, <4>2 DEF Justified, good, Settled, Failed
    <3> QED
      BY <3>2, <3>3
  <2>8. VerdictKnown' /\ DecidedByAnswers'
    <3>1. \A k \in Brand : \/ outcome'[k] = outcome[k]
                           \/ outcome'[k] = "no_content"
                           \/ \E d \in Batches : /\ k \in Members[d]
                                                 /\ Justified(d, k)'
      BY <2>6, <2>7
    <3> QED
      BY <2>1, <2>5, <3>1, DecisionsFrame
  <2> QED
    BY <2>4, <2>5, <2>8
<1> QED
  BY <1>1, <1>2

\* A stage message is received and its row marked sent.
LEMMA StartStep ==
  ASSUME GraphInvariant, NEW w \in Workers, NEW c \in Calls, Start(w, c)
  PROVE  GraphInvariant'
<1> USE DEF GraphInvariant
<1>1. /\ call[c] = "reserved" /\ call' = [call EXCEPT ![c] = "sent"]
      /\ stages' = stages \ {c} /\ Go(w, Transport(c))
      /\ UNCHANGED <<status, lease, metered, verdict, approves, outcome,
                     closing, faults>>
  BY DEF Start
<1>2. job' \in [Workers -> Jobs]
  <2>1. Transport(c) \in Jobs
    BY DEF Jobs
  <2> QED
    BY <1>1, <2>1, GoingOn
<1>3. TypeOK'
  BY <1>1, <1>2 DEF TypeOK, Jobs
<1>4. /\ \A d \in Calls : d # c => call'[d] = call[d]
      /\ call'[c] = "sent"
  BY <1>1 DEF TypeOK
<1>5. WithinBudget'
  BY <1>1, <1>3, <1>4, SettlingKeepsBudget
<1>6. VerdictKnown' /\ DecidedByAnswers'
  <2>1. \A d \in Calls : call[d] \in Settled => call'[d] = call[d]
    BY <1>1, <1>4 DEF Settled, Failed
  <2>2. \A b \in Batches : call'[Editor(b)] = "completed" => verdict'[b] # "none"
    BY <1>1, <1>4, CallsDiffer DEF VerdictKnown
  <2> QED
    BY <1>1, <2>1, <2>2, DecisionsFrame
<1> QED
  BY <1>3, <1>5, <1>6

\* The answer of a call that is still sent is recorded.
LEMMA AnswerStep ==
  ASSUME GraphInvariant, NEW w \in Workers, NEW c \in Calls, Answer(w, c)
  PROVE  GraphInvariant'
<1> USE DEF GraphInvariant
<1>0. /\ Go(w, Meter(c))
      /\ UNCHANGED <<status, lease, metered, outcome, stages, closing, faults>>
  BY DEF Answer
<1>1. job' \in [Workers -> Jobs]
  <2>1. Meter(c) \in Jobs
    BY DEF Jobs
  <2> QED
    BY <1>0, <2>1, GoingOn
<1>2. CASE call[c] # "sent"
  <2>1. UNCHANGED <<call, verdict, approves>>
    BY <1>2 DEF Answer
  <2>2. TypeOK'
    BY <1>0, <1>1, <2>1 DEF TypeOK, Jobs
  <2> QED
    BY <1>0, <2>1, <2>2, QuietFrame
<1>3. CASE call[c] = "sent"
  <2>1. PICK s \in Settled : RecordAnswer(c, s)
    BY <1>3 DEF Answer
  <2>2. /\ call' = [call EXCEPT ![c] = s]
        /\ \/ /\ s = "completed" /\ c[1] = "editor"
              /\ \E v \in Verdicts : verdict' = [verdict EXCEPT ![c[2]] = v]
           \/ /\ ~(s = "completed" /\ c[1] = "editor")
              /\ UNCHANGED verdict
        /\ \/ /\ s = "completed" /\ c[1] = "critic"
              /\ \E good \in SUBSET Members[c[2]] :
                   approves' = [approves EXCEPT ![c[2]] = good]
           \/ /\ ~(s = "completed" /\ c[1] = "critic")
              /\ UNCHANGED approves
    BY <2>1 DEF RecordAnswer
  <2>3. /\ \A d \in Calls : d # c => call'[d] = call[d]
        /\ call'[c] = s
        /\ call' \in [Calls -> {"none", "reserved", "sent"} \cup Settled]
    BY <2>2 DEF TypeOK
  <2>4. /\ verdict' \in [Batches -> Verdicts \cup {"none"}]
        /\ \A b \in Batches : Editor(b) # c => verdict'[b] = verdict[b]
        /\ \A b \in Batches : Editor(b) = c /\ s = "completed" =>
             verdict'[b] \in Verdicts
    <3>1. verdict \in [Batches -> Verdicts \cup {"none"}]
      BY DEF TypeOK
    <3>2. CASE s = "completed" /\ c[1] = "editor"
      <4>1. PICK v \in Verdicts : verdict' = [verdict EXCEPT ![c[2]] = v]
        BY <2>2, <3>2
      <4>2. c[2] \in Batches /\ c = Editor(c[2])
        BY <3>2, CallsDiffer
      <4>3. \A b \in Batches : Editor(b) # c => b # c[2]
        BY <4>2
      <4>4. \A b \in Batches : Editor(b) = c => b = c[2]
        BY <4>2, CallsDiffer
      <4> QED
        BY <3>1, <4>1, <4>2, <4>3, <4>4
    <3>3. CASE ~(s = "completed" /\ c[1] = "editor")
      BY <2>2, <3>1, <3>3, CallsDiffer
    <3> QED
      BY <3>2, <3>3
  <2>5. /\ approves' \in [Batches -> SUBSET Brand]
        /\ \A b \in Batches : Critic(b) # c => approves'[b] = approves[b]
    <3>1. approves \in [Batches -> SUBSET Brand]
      BY DEF TypeOK
    <3>2. CASE s = "completed" /\ c[1] = "critic"
      <4>1. c[2] \in Batches /\ c = Critic(c[2])
        BY <3>2, CallsDiffer
      <4>2. PICK good \in SUBSET Members[c[2]] :
              approves' = [approves EXCEPT ![c[2]] = good]
        BY <2>2, <3>2
      <4>3. good \in SUBSET Brand
        BY <4>1, <4>2, GraphAssumption
      <4>4. \A b \in Batches : Critic(b) # c => b # c[2]
        BY <4>1
      <4> QED
        BY <3>1, <4>1, <4>2, <4>3, <4>4
    <3>3. CASE ~(s = "completed" /\ c[1] = "critic")
      BY <2>2, <3>1, <3>3
    <3> QED
      BY <3>2, <3>3
  <2>6. TypeOK'
    BY <1>0, <1>1, <2>3, <2>4, <2>5 DEF TypeOK, Jobs
  <2>7. s # "none" /\ "sent" \notin Settled /\ "none" \notin Settled
    BY DEF Settled, Failed
  <2>8. WithinBudget'
    BY <1>0, <1>3, <2>3, <2>6, <2>7, SettlingKeepsBudget DEF Settled, Failed
  <2>9. VerdictKnown' /\ DecidedByAnswers'
    <3>1. \A d \in Calls : call[d] \in Settled => call'[d] = call[d]
      BY <1>3, <2>3, <2>7
    <3>2. \A b \in Batches :
            /\ call[Editor(b)] \in Settled => verdict'[b] = verdict[b]
            /\ call[Critic(b)] \in Settled => approves'[b] = approves[b]
      BY <1>3, <2>4, <2>5, <2>7
    <3>3. ASSUME NEW b \in Batches, call'[Editor(b)] = "completed"
          PROVE  verdict'[b] # "none"
      <4>1. CASE Editor(b) = c
        BY <2>3, <2>4, <3>3, <4>1 DEF Verdicts
      <4>2. CASE Editor(b) # c
        BY <2>3, <2>4, <3>3, <4>2, CallsDiffer DEF VerdictKnown
      <4> QED
        BY <4>1, <4>2
    <3> QED
      BY <1>0, <3>1, <3>2, <3>3, DecisionsFrame
  <2> QED
    BY <2>6, <2>8, <2>9
<1> QED
  BY <1>2, <1>3

\* Usage is recorded, then the task reconciles.
LEMMA RecordStep ==
  ASSUME GraphInvariant, NEW w \in Workers, NEW c \in Calls, Record(w, c)
  PROVE  GraphInvariant'
<1> USE DEF GraphInvariant
<1>1. /\ metered' \in {metered, metered \cup {c}} /\ BeginWalk(w)
      /\ UNCHANGED <<call, lease, verdict, approves, outcome, stages, faults>>
  BY DEF Record
<1>2. TypeOK'
  BY <1>1, BeginTypes DEF TypeOK, Jobs
<1>3. WithinBudget'
  BY <1>1, <1>2, SettlingKeepsBudget
<1>4. VerdictKnown' /\ DecidedByAnswers'
  BY <1>1, DecisionsFrame, CallsDiffer DEF VerdictKnown
<1> QED
  BY <1>2, <1>3, <1>4

-----------------------------------------------------------------------------
(* The theorems *)

\* Nothing is called, decided or spent at first.
LEMMA InitHolds == Init => GraphInvariant
<1> SUFFICES ASSUME Init PROVE GraphInvariant
  OBVIOUS
<1> USE GraphAssumption DEF Init
<1>1. TypeOK
  <2>1. PICK w \in Workers : job = [v \in Workers |-> IF v = w THEN Building
                                                               ELSE Idle]
    OBVIOUS
  <2>2. job \in [Workers -> Jobs]
    BY <2>1 DEF Jobs
  <2>3. /\ status \in {"preparing", "terminal", "suspended", "active"}
        /\ call \in [Calls -> {"none", "reserved", "sent"} \cup Settled]
        /\ lease \in [Calls -> BOOLEAN]
        /\ metered \in SUBSET Calls /\ stages \in SUBSET Calls
    OBVIOUS
  <2>4. /\ verdict \in [Batches -> Verdicts \cup {"none"}]
        /\ approves \in [Batches -> SUBSET Brand]
        /\ outcome \in [Brand -> {"none", "approved", "held", "no_content"}]
    OBVIOUS
  <2>5. closing \in BOOLEAN
    OBVIOUS
  <2>6. faults \in 0..MaxFaults
    OBVIOUS
  <2> QED
    BY <2>2, <2>3, <2>4, <2>5, <2>6 DEF TypeOK, Jobs
<1>2. VerdictKnown /\ DecidedByAnswers
  BY CallsDiffer DEF VerdictKnown, DecidedByAnswers
<1>3. WithinBudget
  <2>1. Rows = {} /\ Exact = {} /\ Rows \ Exact = {}
    BY DEF Rows, Exact
  <2>2. Cardinality(Rows) = 0 /\ Cardinality(Exact) = 0
        /\ Cardinality(Rows \ Exact) = 0
    BY <2>1, FS_EmptySet
  <2>3. Spend = 0
    BY <2>2 DEF Spend
  <2>4. Excess * 0 = 0
    BY ExcessCovers
  <2> QED
    BY <2>2, <2>3, <2>4 DEF WithinBudget
<1> QED
  BY <1>1, <1>2, <1>3 DEF GraphInvariant

\* Every step of a worker, the clock or the broker keeps the invariant.
LEMMA StepHolds == GraphInvariant /\ [Next]_vars => GraphInvariant'
<1> SUFFICES ASSUME GraphInvariant, [Next]_vars
             PROVE  GraphInvariant'
  OBVIOUS
<1>1. ASSUME NEW w \in Workers, Step(w) PROVE GraphInvariant'
  <2>1. CASE WritePlain(w)
    BY <2>1, PlainStep
  <2>2. CASE FinishBuilding(w) \/ WalkClose(w)
    BY <2>2, QuietStep
  <2>3. CASE WalkRank(w)
    BY <2>3, RankStep
  <2>4. CASE \E b \in Batches : WalkBatch(w, b)
    BY <2>4, BatchStep
  <2>5. CASE \E c \in Calls : Answer(w, c) \/ Record(w, c)
    BY <2>5, AnswerStep, RecordStep
  <2> QED
    BY <1>1, <2>1, <2>2, <2>3, <2>4, <2>5 DEF Step
<1>2. CASE \E w \in Workers : Envelope(w) \/ Finalize(w) \/ Crash(w)
  BY <1>2, QuietStep
<1>3. CASE \E w \in Workers : \E c \in Calls : Start(w, c)
  BY <1>3, StartStep
<1>4. CASE \/ \E c \in Calls : LeaseExpires(c)
           \/ Lose
           \/ UNCHANGED vars
  BY <1>4, QuietStep
<1> QED
  BY <1>1, <1>2, <1>3, <1>4 DEF Next

\* The inductive invariant of the call graph.
THEOREM GraphInvariantHolds == Spec => []GraphInvariant
BY InitHolds, StepHolds, PTL DEF Spec

\* Run, rows, answers, outcomes and workers have their types.
THEOREM GraphTypeCorrect == Spec => []TypeOK
<1>1. GraphInvariant => TypeOK
  BY DEF GraphInvariant
<1> QED
  BY <1>1, GraphInvariantHolds, PTL

\* _provider_budget_reason: however many reconcilers reserve at the same time
\* and however late usage is recorded, the calls of a run stay within their cap
\* and its tokens within theirs and the excess of completed calls over their
\* estimates.
THEOREM CapsAreKept == Spec => []WithinBudget
<1>1. GraphInvariant => WithinBudget
  BY DEF GraphInvariant
<1> QED
  BY <1>1, GraphInvariantHolds, PTL

\* prepare_brand_trend_narrative is called for what the recorded answers say,
\* and no answer that comes late contradicts it.
THEOREM BrandsAreDecidedByAnswers == Spec => []DecidedByAnswers
<1>1. GraphInvariant => DecidedByAnswers
  BY DEF GraphInvariant
<1> QED
  BY <1>1, GraphInvariantHolds, PTL

-----------------------------------------------------------------------------
(* The promise to the window *)

\* What a walk decides, it decides for the first time, and for brands that have
\* a narrative.
LEMMA BatchDecides ==
  ASSUME GraphInvariant, NEW w \in Workers, NEW b \in Batches, WalkBatch(w, b)
  PROVE  /\ \A k \in Brand : outcome'[k] # outcome[k] =>
              /\ outcome[k] = "none" /\ outcome'[k] \in {"approved", "held"}
              /\ k \in Members[b]
         /\ UNCHANGED closing
         /\ UNCHANGED status \/ (Suspend(w) /\ UNCHANGED outcome)
<1>1. UNCHANGED closing
  BY DEF WalkBatch
<1>2. \/ Suspend(w) /\ UNCHANGED outcome
      \/ UNCHANGED status /\ UNCHANGED outcome
      \/ UNCHANGED status /\ \E good : Decide(w, b, good)
  BY DEF WalkBatch, MoveOn
<1>3. ASSUME NEW good, Decide(w, b, good)
      PROVE  \A k \in Brand : outcome'[k] # outcome[k] =>
               /\ outcome[k] = "none" /\ outcome'[k] \in {"approved", "held"}
               /\ k \in Members[b]
  BY <1>3 DEF Decide
<1> QED
  BY <1>1, <1>2, <1>3

\* What the other steps do to the status and the outcomes.
StatusStep ==
  \/ UNCHANGED <<status, outcome>> /\ (closing' => closing)
  \/ UNCHANGED <<status, outcome>> /\ status # "preparing"
  \/ /\ status = "preparing" /\ status' = "terminal"
     /\ Complete \/ N = 0
     /\ UNCHANGED outcome
  \/ /\ status = "preparing" /\ status' = "suspended"
     /\ UNCHANGED <<outcome, closing>>
  \/ /\ closing /\ Complete /\ status' = "active"
     /\ UNCHANGED outcome
  \/ /\ \A k \in Brand : outcome'[k] # outcome[k] =>
          outcome[k] = "none" /\ k \in Plain /\ outcome'[k] = "no_content"
     /\ UNCHANGED <<status, closing>>

\* They close, suspend or publish the run, or decide brands without a narrative.
LEMMA StatusSteps ==
  ASSUME GraphInvariant, [Next]_vars,
         ~\E w \in Workers, b \in Batches : WalkBatch(w, b)
  PROVE  StatusStep
<1>1. ASSUME NEW w \in Workers, BeginWalk(w), UNCHANGED outcome PROVE StatusStep
  BY <1>1 DEF StatusStep, BeginWalk
<1>2. ASSUME NEW w \in Workers, Suspend(w), UNCHANGED <<outcome, closing>>
      PROVE  StatusStep
  BY <1>2 DEF StatusStep, Suspend
<1>3. ASSUME NEW w \in Workers, Step(w) PROVE StatusStep
  <2>1. CASE WritePlain(w)
    BY <2>1 DEF StatusStep, WritePlain, GraphInvariant, TypeOK
  <2>2. CASE FinishBuilding(w)
    BY <1>1, <1>2, <2>2 DEF StatusStep, FinishBuilding
  <2>3. CASE WalkRank(w)
    BY <1>2, <2>3 DEF StatusStep, WalkRank
  <2>4. CASE WalkClose(w)
    BY <2>4 DEF StatusStep, WalkClose
  <2>5. CASE \E c \in Calls : Answer(w, c)
    BY <2>5 DEF StatusStep, Answer
  <2>6. CASE \E c \in Calls : Record(w, c)
    BY <1>1, <2>6 DEF StatusStep, Record
  <2> QED
    BY <1>3, <2>1, <2>2, <2>3, <2>4, <2>5, <2>6 DEF Step
<1>4. ASSUME NEW w \in Workers, Envelope(w) PROVE StatusStep
  BY <1>1, <1>4 DEF StatusStep, Envelope
<1>5. ASSUME NEW w \in Workers, Finalize(w) PROVE StatusStep
  BY <1>5 DEF StatusStep, Finalize
<1>6. CASE \/ \E w \in Workers : Crash(w) \/ \E c \in Calls : Start(w, c)
           \/ \E c \in Calls : LeaseExpires(c)
           \/ Lose
           \/ UNCHANGED vars
  BY <1>6 DEF StatusStep, Crash, Start, LeaseExpires, Lose, vars
<1>7. CASE Next
  <2>1. \/ \E w \in Workers : Step(w)
        \/ \E w \in Workers : Envelope(w)
        \/ \E w \in Workers : Finalize(w)
        \/ \E w \in Workers : Crash(w) \/ \E c \in Calls : Start(w, c)
        \/ \E c \in Calls : LeaseExpires(c)
        \/ Lose
    BY <1>7 DEF Next
  <2> QED
    BY <1>3, <1>4, <1>5, <1>6, <2>1
<1> QED
  BY <1>6, <1>7

\* No narrative is written when there is no batch.
LEMMA NoBatchesIsPlain == N = 0 => Plain = Brand
BY DEF Plain, Eligible, Batches

LEMMA PublicStep ==
  GraphInvariant /\ PublicIsDecided /\ [Next]_vars => PublicIsDecided'
<1> SUFFICES ASSUME GraphInvariant, PublicIsDecided, [Next]_vars
             PROVE  PublicIsDecided'
  OBVIOUS
<1>1. ASSUME NEW w \in Workers, NEW b \in Batches, WalkBatch(w, b)
      PROVE  PublicIsDecided'
  BY <1>1, BatchDecides DEF PublicIsDecided, Suspend, Complete
<1>2. CASE ~\E w \in Workers, b \in Batches : WalkBatch(w, b)
  BY <1>2, StatusSteps DEF StatusStep, PublicIsDecided, Complete
<1> QED
  BY <1>1, <1>2

LEMMA PromiseStep ==
  GraphInvariant /\ PublicIsDecided /\ GraphInvariant' /\ [Next]_vars
    => [Promise!Next]_(Promise!vars)
<1> SUFFICES ASSUME GraphInvariant, PublicIsDecided, GraphInvariant', [Next]_vars
             PROVE  [Promise!Next]_(Promise!vars)
  OBVIOUS
<1> USE DEF Promise!Next, Promise!vars
<1>0. /\ status \in {"preparing", "terminal", "suspended", "active"}
      /\ outcome \in [Brand -> {"none", "approved", "held", "no_content"}]
      /\ outcome' \in [Brand -> {"none", "approved", "held", "no_content"}]
  BY DEF GraphInvariant, TypeOK
<1>1. ASSUME UNCHANGED status,
             \A k \in Brand : outcome'[k] # outcome[k] =>
               outcome[k] = "none" /\ outcome'[k] \in Promise!Kind(k)
      PROVE  [Promise!Next]_(Promise!vars)
  <2>1. CASE status = "active"
    <3>1. \A k \in Brand : outcome'[k] = outcome[k]
      BY <1>1, <2>1 DEF PublicIsDecided, Complete
    <3>2. outcome' = outcome
      BY <1>0, <3>1
    <3> QED
      BY <1>1, <3>2
  <2>2. CASE status # "active"
    BY <1>0, <1>1, <2>2 DEF Promise!Decide
  <2> QED
    BY <2>1, <2>2
<1>2. ASSUME NEW w \in Workers, NEW b \in Batches, WalkBatch(w, b)
      PROVE  [Promise!Next]_(Promise!vars)
  <2>1. CASE UNCHANGED status
    <3>1. \A k \in Members[b] : k \notin Plain
      BY DEF Plain, Eligible
    <3> QED
      BY <1>1, <1>2, <2>1, <3>1, BatchDecides DEF Promise!Kind
  <2>2. CASE Suspend(w) /\ UNCHANGED outcome
    BY <2>2 DEF Suspend, Promise!Suspend
  <2> QED
    BY <1>2, <2>1, <2>2, BatchDecides
<1>3. CASE ~\E w \in Workers, b \in Batches : WalkBatch(w, b)
  <2>1. CASE UNCHANGED <<status, outcome>>
    BY <2>1
  <2>2. CASE status = "preparing" /\ status' = "terminal"
             /\ (Complete \/ N = 0) /\ UNCHANGED outcome
    BY <2>2, NoBatchesIsPlain DEF Promise!Close, Promise!Complete, Complete
  <2>3. CASE status = "preparing" /\ status' = "suspended" /\ UNCHANGED outcome
    BY <2>3 DEF Promise!Suspend
  <2>4. CASE closing /\ Complete /\ status' = "active" /\ UNCHANGED outcome
    BY <1>0, <2>4 DEF PublicIsDecided, Promise!Publish, Promise!Complete, Complete
  <2>5. CASE /\ \A k \in Brand : outcome'[k] # outcome[k] =>
                  outcome[k] = "none" /\ k \in Plain /\ outcome'[k] = "no_content"
             /\ UNCHANGED status
    BY <1>1, <2>5 DEF Promise!Kind
  <2> QED
    BY <1>3, <2>1, <2>2, <2>3, <2>4, <2>5, StatusSteps DEF StatusStep
<1> QED
  BY <1>2, <1>3

\* What is public is decided, in every run.
LEMMA PublicHolds == Spec => []PublicIsDecided
<1>1. Init => PublicIsDecided
  BY DEF Init, PublicIsDecided
<1> QED
  BY <1>1, PublicStep, GraphInvariantHolds, PTL DEF Spec

\* The run, with its calls, walks, messages and faults, implements what
\* HeadlineWindow takes a run to be.
THEOREM GraphKeepsPromise == Spec => KeepsPromise
<1>1. Init => Promise!Init
  BY DEF Init, Promise!Init
<1> QED
  BY <1>1, PromiseStep, PublicHolds, GraphInvariantHolds, PTL
     DEF Spec, KeepsPromise, Promise!Spec

-----------------------------------------------------------------------------
(* Suspensions *)

\* Jobs are told apart by what the worker does.
LEMMA JobsDiffer ==
  /\ \A i : Idle # Walk(i) /\ Building # Walk(i)
  /\ \A i, c : Transport(c) # Walk(i) /\ Meter(c) # Walk(i)
  /\ \A i, j : Walk(i) = Walk(j) => i = j
BY DEF Idle, Building, Walk, Transport, Meter

\* What is settled stays so, with the verdict on it.
LEMMA SettledStays ==
  ASSUME GraphInvariant, [Next]_vars
  PROVE  /\ \A c \in Calls : call[c] \in Settled => call'[c] = call[c]
         /\ \A b \in Batches :
              call[Editor(b)] \in Settled => verdict'[b] = verdict[b]
<1> USE DEF GraphInvariant
<1>1. ASSUME NEW w \in Workers, NEW b \in Batches, WalkBatch(w, b)
      PROVE  /\ \A c \in Calls : call[c] \in Settled => call'[c] = call[c]
             /\ verdict' = verdict
  <2>1. verdict' = verdict
    BY <1>1 DEF WalkBatch
  <2>2. \/ call' = call
        \/ \E c \in Calls : Visit(c)
    BY <1>1, CallsDiffer DEF WalkBatch
  <2> QED
    BY <2>1, <2>2, Visiting DEF Settled, Failed
<1>2. ASSUME NEW w \in Workers, WalkRank(w)
      PROVE  /\ \A c \in Calls : call[c] \in Settled => call'[c] = call[c]
             /\ verdict' = verdict
  <2>1. verdict' = verdict
    BY <1>2 DEF WalkRank
  <2>2. call' = call \/ Visit(Rank)
    BY <1>2 DEF WalkRank
  <2> QED
    BY <2>1, <2>2, Visiting, CallsDiffer DEF Settled, Failed
<1>3. ASSUME NEW w \in Workers, NEW c \in Calls, Start(w, c)
      PROVE  /\ \A d \in Calls : call[d] \in Settled => call'[d] = call[d]
             /\ verdict' = verdict
  BY <1>3 DEF Start, Settled, Failed, TypeOK
<1>4. ASSUME NEW w \in Workers, NEW c \in Calls, Answer(w, c)
      PROVE  /\ \A d \in Calls : call[d] \in Settled => call'[d] = call[d]
             /\ \A b \in Batches :
                  call[Editor(b)] \in Settled => verdict'[b] = verdict[b]
  <2>1. CASE call[c] # "sent"
    BY <1>4, <2>1 DEF Answer
  <2>2. CASE call[c] = "sent"
    <3>1. PICK s \in Settled : RecordAnswer(c, s)
      BY <1>4, <2>2 DEF Answer
    <3>2. call' = [call EXCEPT ![c] = s]
      BY <3>1 DEF RecordAnswer
    <3>3. "sent" \notin Settled
      BY DEF Settled, Failed
    <3>4. \A b \in Batches : Editor(b) # c => verdict'[b] = verdict[b]
      <4>1. UNCHANGED verdict \/ (c[1] = "editor" /\ \E v : verdict' = [verdict EXCEPT ![c[2]] = v])
        BY <3>1 DEF RecordAnswer
      <4>2. c[1] = "editor" => c[2] \in Batches /\ c = Editor(c[2])
        BY CallsDiffer
      <4>3. verdict \in [Batches -> Verdicts \cup {"none"}]
        BY DEF TypeOK
      <4> QED
        BY <4>1, <4>2, <4>3
    <3> QED
      BY <2>2, <3>2, <3>3, <3>4 DEF TypeOK
  <2> QED
    BY <2>1, <2>2
<1>5. CASE \/ \E w \in Workers : WritePlain(w) \/ FinishBuilding(w)
                                  \/ WalkClose(w) \/ Envelope(w)
                                  \/ Finalize(w) \/ Crash(w)
           \/ \E w \in Workers, c \in Calls : Record(w, c)
           \/ \E c \in Calls : LeaseExpires(c)
           \/ Lose
           \/ UNCHANGED vars
  BY <1>5 DEF WritePlain, FinishBuilding, WalkClose, Envelope, Finalize, Crash,
              Record, LeaseExpires, Lose, vars
<1> QED
  BY <1>1, <1>2, <1>3, <1>4, <1>5 DEF Next, Step

\* Brands without a content row are decided by calls.
LEMMA NoContentStep ==
  GraphInvariant /\ NoContentIsPlain /\ [Next]_vars => NoContentIsPlain'
<1> SUFFICES ASSUME GraphInvariant, NoContentIsPlain, [Next]_vars
             PROVE  NoContentIsPlain'
  OBVIOUS
<1>1. ASSUME NEW w \in Workers, NEW b \in Batches, WalkBatch(w, b)
      PROVE  NoContentIsPlain'
  BY <1>1, BatchDecides DEF NoContentIsPlain
<1>2. CASE ~\E w \in Workers, b \in Batches : WalkBatch(w, b)
  BY <1>2, StatusSteps DEF StatusStep, NoContentIsPlain
<1> QED
  BY <1>1, <1>2

\* How a worker comes to where its walk is.
LEMMA WalkMoves ==
  ASSUME GraphInvariant, [Next]_vars, NEW v \in Workers, NEW i \in 0..N + 1,
         job'[v] = Walk(i)
  PROVE  \/ job[v] = Walk(i)
         \/ i = 0 /\ status = "preparing" /\ N > 0
         \/ i = 1 /\ job[v] = Walk(0) /\ call'[Rank] \in Settled
         \/ i - 1 \in Batches /\ job[v] = Walk(i - 1)
<1> USE GraphAssumption
<1>0. job \in [Workers -> Jobs]
  BY DEF GraphInvariant, TypeOK, Jobs
<1>1. ASSUME NEW w \in Workers, NEW j, Go(w, j), j = Idle \/ \E c : j = Transport(c)
                                                         \/ j = Meter(c)
      PROVE  job[v] = Walk(i)
  BY <1>0, <1>1, JobsDiffer DEF Go
<1>2. ASSUME NEW w \in Workers, BeginWalk(w)
      PROVE  job[v] = Walk(i) \/ (i = 0 /\ status = "preparing" /\ N > 0)
  <2>1. Go(w, Idle) \/ (Go(w, Walk(0)) /\ status = "preparing" /\ N > 0)
    BY <1>2 DEF BeginWalk
  <2>2. CASE Go(w, Idle)
    BY <1>1, <2>2
  <2>3. CASE Go(w, Walk(0)) /\ status = "preparing" /\ N > 0
    <3>1. job'[v] = job[v] \/ job'[v] = Walk(0)
      BY <1>0, <2>3 DEF Go
    <3> QED
      BY <2>3, <3>1, JobsDiffer
  <2> QED
    BY <2>1, <2>2, <2>3
<1>3. ASSUME NEW w \in Workers, Suspend(w) PROVE job[v] = Walk(i)
  BY <1>1, <1>3 DEF Suspend
<1>4. ASSUME NEW w \in Workers, WalkRank(w)
      PROVE  \/ job[v] = Walk(i)
             \/ i = 1 /\ job[v] = Walk(0) /\ call'[Rank] \in Settled
  <2>1. \/ Suspend(w) \/ Go(w, Idle)
        \/ Go(w, Walk(1)) /\ job[w] = Walk(0) /\ call'[Rank] \in Settled
    BY <1>4 DEF WalkRank
  <2>2. CASE Suspend(w) \/ Go(w, Idle)
    BY <1>1, <1>3, <2>2
  <2>3. CASE Go(w, Walk(1)) /\ job[w] = Walk(0) /\ call'[Rank] \in Settled
    <3>1. job'[v] = job[v] \/ (v = w /\ job'[v] = Walk(1))
      BY <1>0, <2>3 DEF Go
    <3> QED
      BY <2>3, <3>1, JobsDiffer
  <2> QED
    BY <2>1, <2>2, <2>3
<1>5. ASSUME NEW w \in Workers, NEW b \in Batches, WalkBatch(w, b)
      PROVE  job[v] = Walk(i) \/ (i - 1 \in Batches /\ job[v] = Walk(i - 1))
  <2>1. job[w] = Walk(b) /\ (Suspend(w) \/ Go(w, Idle) \/ Go(w, Walk(b + 1)))
    BY <1>5 DEF WalkBatch, MoveOn, Decide
  <2>2. CASE Suspend(w) \/ Go(w, Idle)
    BY <1>1, <1>3, <2>2
  <2>3. CASE Go(w, Walk(b + 1))
    <3>1. job'[v] = job[v] \/ (v = w /\ job'[v] = Walk(b + 1))
      BY <1>0, <2>3 DEF Go
    <3>2. ASSUME v = w, job'[v] = Walk(b + 1)
          PROVE  i - 1 = b
      <4>1. i = b + 1
        BY <3>2, JobsDiffer
      <4> QED
        BY <4>1 DEF Batches
    <3> QED
      BY <2>1, <3>1, <3>2
  <2> QED
    BY <2>1, <2>2, <2>3
<1>6. ASSUME NEW w \in Workers,
             \/ WalkClose(w) \/ Crash(w)
             \/ \E c \in Calls : Start(w, c) \/ Answer(w, c)
      PROVE  job[v] = Walk(i)
  <2>1. \E j : Go(w, j) /\ (j = Idle \/ \E c : j = Transport(c) \/ j = Meter(c))
    BY <1>6 DEF WalkClose, Crash, Start, Answer
  <2> QED
    BY <1>1, <2>1
<1>7. ASSUME NEW w \in Workers, WritePlain(w) \/ Finalize(w)
      PROVE  job[v] = Walk(i)
  BY <1>7 DEF WritePlain, Finalize
<1>8. ASSUME NEW w \in Workers,
             FinishBuilding(w) \/ Envelope(w) \/ \E c \in Calls : Record(w, c)
      PROVE  job[v] = Walk(i) \/ (i = 0 /\ status = "preparing" /\ N > 0)
  BY <1>2, <1>3, <1>8 DEF FinishBuilding, Envelope, Record
<1>9. ASSUME (\E c \in Calls : LeaseExpires(c)) \/ Lose \/ UNCHANGED vars
      PROVE  job[v] = Walk(i)
  BY <1>9 DEF LeaseExpires, Lose, vars
<1> QED
  BY <1>4, <1>5, <1>6, <1>7, <1>8, <1>9 DEF Next, Step

\* Rows appear where a walk is.
LEMMA RowsAppear ==
  ASSUME GraphInvariant, [Next]_vars, NEW c \in Calls,
         call[c] = "none", call'[c] # "none"
  PROVE  \/ c = Rank
         \/ \E w \in Workers, b \in Batches :
              WalkBatch(w, b) /\ c \in {Editor(b), Critic(b)}
<1> USE DEF GraphInvariant
<1>1. ASSUME NEW w \in Workers, NEW b \in Batches, WalkBatch(w, b)
      PROVE  c \in {Editor(b), Critic(b)}
  <2>1. call' = call \/ Visit(Editor(b)) \/ Visit(Critic(b))
    BY <1>1 DEF WalkBatch
  <2> QED
    BY <2>1, Visiting, CallsDiffer
<1>2. ASSUME NEW w \in Workers, WalkRank(w) PROVE c = Rank
  <2>1. call' = call \/ Visit(Rank)
    BY <1>2 DEF WalkRank
  <2> QED
    BY <2>1, Visiting, CallsDiffer
<1>3. ASSUME NEW w \in Workers, NEW d \in Calls, Start(w, d) PROVE FALSE
  BY <1>3 DEF Start, TypeOK
<1>4. ASSUME NEW w \in Workers, NEW d \in Calls, Answer(w, d) PROVE FALSE
  BY <1>4 DEF Answer, RecordAnswer, TypeOK
<1>5. CASE \/ \E w \in Workers : WritePlain(w) \/ FinishBuilding(w)
                                  \/ WalkClose(w) \/ Envelope(w)
                                  \/ Finalize(w) \/ Crash(w)
           \/ \E w \in Workers, d \in Calls : Record(w, d)
           \/ \E d \in Calls : LeaseExpires(d)
           \/ Lose
           \/ UNCHANGED vars
  BY <1>5 DEF WritePlain, FinishBuilding, WalkClose, Envelope, Finalize, Crash,
              Record, LeaseExpires, Lose, vars
<1> QED
  BY <1>1, <1>2, <1>3, <1>4, <1>5 DEF Next, Step

\* Walks come to the batches when the rank call is settled.
LEMMA RankFirstStep ==
  GraphInvariant /\ RankIsFirst /\ [Next]_vars => RankIsFirst'
<1> SUFFICES ASSUME GraphInvariant, RankIsFirst, [Next]_vars
             PROVE  RankIsFirst'
  OBVIOUS
<1> USE GraphAssumption
<1>1. ASSUME NEW v \in Workers, job'[v] = Walk(0) PROVE N > 0
  <2>1. 0 \in 0..N + 1
    OBVIOUS
  <2>2. \/ job[v] = Walk(0) \/ N > 0 \/ 0 = 1 \/ 0 - 1 \in Batches
    BY <1>1, <2>1, WalkMoves
  <2> QED
    BY <2>2 DEF RankIsFirst, Batches
<1>2. ASSUME call'[Rank] \notin Settled
      PROVE  /\ \A b \in Batches : call'[Editor(b)] = "none"
             /\ \A v \in Workers, i \in 1..N + 1 : job'[v] # Walk(i)
  <2>1. call[Rank] \notin Settled
    BY <1>2, SettledStays, CallsDiffer
  <2>2. /\ \A b \in Batches : call[Editor(b)] = "none"
        /\ \A v \in Workers, i \in 1..N + 1 : job[v] # Walk(i)
    BY <2>1 DEF RankIsFirst
  <2>3. ASSUME NEW b \in Batches, call'[Editor(b)] # "none" PROVE FALSE
    <3>1. PICK w \in Workers, d \in Batches : WalkBatch(w, d)
      BY <2>2, <2>3, RowsAppear, CallsDiffer
    <3>2. job[w] = Walk(d) /\ d \in 1..N + 1
      BY <3>1 DEF WalkBatch, Batches
    <3> QED
      BY <2>2, <3>2
  <2>4. ASSUME NEW v \in Workers, NEW i \in 1..N + 1, job'[v] = Walk(i)
        PROVE  FALSE
    <3>1. i \in 0..N + 1 /\ i # 0
      OBVIOUS
    <3>2. i - 1 \in Batches => i - 1 \in 1..N + 1
      BY DEF Batches
    <3> QED
      BY <1>2, <2>2, <2>4, <3>1, <3>2, WalkMoves
  <2> QED
    BY <2>3, <2>4
<1> QED
  BY <1>1, <1>2 DEF RankIsFirst

\* A suspended run that lacks an outcome is not asked to be published.
LEMMA StaysUnclosed ==
  ASSUME GraphInvariant, [Next]_vars, status = "suspended", ~closing, ~Complete
  PROVE  ~closing' /\ status' = "suspended"
<1>1. ASSUME NEW w \in Workers, BeginWalk(w) PROVE ~closing' /\ status' = "suspended"
  BY <1>1 DEF BeginWalk
<1>2. ASSUME NEW w \in Workers, Step(w) PROVE ~closing' /\ status' = "suspended"
  <2>1. CASE WritePlain(w) \/ WalkRank(w) \/ WalkClose(w)
             \/ (\E b \in Batches : WalkBatch(w, b))
             \/ (\E c \in Calls : Answer(w, c))
    BY <2>1 DEF WritePlain, WalkRank, WalkClose, WalkBatch, Answer, Suspend
  <2>2. CASE FinishBuilding(w) \/ \E c \in Calls : Record(w, c)
    BY <1>1, <2>2 DEF FinishBuilding, Record, Suspend
  <2> QED
    BY <1>2, <2>1, <2>2 DEF Step
<1>3. CASE \/ \E w \in Workers : \/ Envelope(w) \/ Finalize(w) \/ Crash(w)
                                 \/ \E c \in Calls : Start(w, c)
           \/ \E c \in Calls : LeaseExpires(c)
           \/ Lose
           \/ UNCHANGED vars
  BY <1>3 DEF Envelope, Finalize, Crash, Start, LeaseExpires, Lose, vars
<1> QED
  BY <1>2, <1>3 DEF Next

\* A batch that is stuck stays stuck, and undecided.
LEMMA StuckStep ==
  ASSUME GraphInvariant, [Next]_vars, status = "suspended",
         NEW b \in Batches, NEW k \in Members[b], outcome[k] = "none", Stuck(b)
  PROVE  outcome'[k] = "none" /\ Stuck(b)'
<1> USE GraphAssumption, CallsDiffer DEF GraphInvariant
<1>0. k \in Brand /\ k \notin Plain /\ job \in [Workers -> Jobs]
  BY DEF Plain, Eligible, TypeOK, Jobs
<1>1. CASE ~\E w \in Workers : WalkBatch(w, b)
  <2>1. outcome'[k] = "none"
    <3>1. ASSUME NEW w \in Workers, NEW d \in Batches, WalkBatch(w, d)
          PROVE  outcome'[k] = outcome[k]
      <4>1. d # b /\ k \notin Members[d]
        BY <1>1, <3>1
      <4> QED
        BY <1>0, <3>1, <4>1, BatchDecides
    <3>2. CASE ~\E w \in Workers, d \in Batches : WalkBatch(w, d)
      BY <1>0, <3>2, StatusSteps DEF StatusStep
    <3> QED
      BY <3>1, <3>2
  <2>2. Before(b)' \subseteq Before(b)
    <3> SUFFICES ASSUME NEW v \in Workers, NEW i \in 0..b, job'[v] = Walk(i)
                 PROVE  v \in Before(b)
      BY DEF Before
    <3>1. i \in 0..N + 1
      BY DEF Batches
    <3>2. \E j \in 0..b : job[v] = Walk(j)
      <4>1. CASE job[v] = Walk(i)
        BY <4>1
      <4>2. CASE i = 1 /\ job[v] = Walk(0)
        BY <4>2 DEF Batches
      <4>3. CASE i - 1 \in Batches /\ job[v] = Walk(i - 1)
        <5>1. i - 1 \in 0..b
          BY <4>3 DEF Batches
        <5> QED
          BY <4>3, <5>1
      <4> QED
        BY <3>1, <4>1, <4>2, <4>3, WalkMoves
    <3> QED
      BY <3>2 DEF Before
  <2>3. Unasked(b) => Unasked(b)'
    <3>1. call[Editor(b)] = "none" => call'[Editor(b)] = "none"
      BY <1>1, RowsAppear
    <3>2. call[Critic(b)] = "none" => call'[Critic(b)] = "none"
      BY <1>1, RowsAppear
    <3>3. call[Editor(b)] = "completed" =>
            call'[Editor(b)] = "completed" /\ verdict'[b] = verdict[b]
      BY SettledStays DEF Settled
    <3> QED
      BY <3>1, <3>2, <3>3 DEF Unasked
  <2> QED
    BY <2>1, <2>2, <2>3 DEF Stuck
<1>2. ASSUME NEW w \in Workers, WalkBatch(w, b)
      PROVE  outcome'[k] = "none" /\ Stuck(b)'
  <2> DEFINE e == Editor(b)
             c == Critic(b)
             review == call[e] = "completed" /\ verdict[b] = "risky"
             next == IF review THEN c ELSE e
  <2>1. w \in Before(b)
    BY <1>2 DEF WalkBatch, Before, Batches
  <2>2. Unasked(b) /\ \A v \in Before(b) : v = w
    BY <2>1 DEF Stuck
  <2>3. next \in Calls /\ call[next] = "none"
    BY <2>2 DEF Unasked
  <2>4. outcome' = outcome /\ \E j : Go(w, j) /\ j \in {Idle, Walk(b + 1)}
    <3>1. CASE OverBudget(next)
      BY <1>2, <3>1 DEF WalkBatch, Suspend
    <3>2. CASE ~OverBudget(next)
      <4>1. Visit(next)
        BY <1>2, <3>2 DEF WalkBatch
      <4>2. call'[next] = "reserved"
        BY <2>3, <4>1, Visiting
      <4>3. call'[next] \notin Settled
        BY <4>2 DEF Settled, Failed
      <4>4. MoveOn(w, b)
        BY <1>2, <3>2, <4>3 DEF WalkBatch, Settled
      <4> QED
        BY <4>4 DEF MoveOn
    <3> QED
      BY <3>1, <3>2
  <2> HIDE DEF next
  <2>5. Before(b)' = {}
    <3> SUFFICES ASSUME NEW v \in Workers, NEW i \in 0..b, job'[v] = Walk(i)
                 PROVE  FALSE
      BY DEF Before
    <3>1. CASE v = w
      <4>1. job'[v] \in {Idle, Walk(b + 1)}
        BY <1>0, <2>4, <3>1 DEF Go
      <4>2. i # b + 1
        BY DEF Batches
      <4> QED
        BY <4>1, <4>2, JobsDiffer
    <3>2. CASE v # w
      <4>1. job'[v] = job[v]
        BY <1>0, <2>4, <3>2 DEF Go
      <4>2. v \in Before(b)
        BY <4>1 DEF Before
      <4> QED
        BY <2>2, <3>2, <4>2
    <3> QED
      BY <3>1, <3>2
  <2> QED
    BY <2>4, <2>5 DEF Stuck
<1> QED
  BY <1>1, <1>2

\* Nothing is called while the only process builds the run.
LEMMA BuildingStep ==
  ASSUME GraphInvariant, BuiltFirst, [Next]_vars
  PROVE  BuiltFirst'
<1> SUFFICES ASSUME AtMostOneWorker, NEW w \in Workers, job'[w] = Building
             PROVE  \A c \in Calls : call'[c] = "none"
  BY DEF BuiltFirst
<1>0. job \in [Workers -> Jobs] /\ \A v \in Workers : v = w
  BY DEF GraphInvariant, TypeOK, Jobs, AtMostOneWorker
<1>1. ASSUME NEW j, Go(w, j) PROVE j = Building
  BY <1>0, <1>1 DEF Go
<1>2. CASE \/ WalkRank(w) \/ WalkClose(w) \/ Envelope(w) \/ Finalize(w)
           \/ Crash(w)
           \/ \E b \in Batches : WalkBatch(w, b)
           \/ \E c \in Calls : Answer(w, c) \/ Record(w, c) \/ Start(w, c)
  BY <1>0, <1>1, <1>2, JobsDiffer
     DEF WalkRank, WalkClose, Envelope, Finalize, Crash, WalkBatch, Answer,
         Record, Start, BeginWalk, MoveOn, Decide, Suspend, Idle, Building,
         Walk, Transport, Meter
<1>3. CASE WritePlain(w) \/ FinishBuilding(w)
  BY <1>3 DEF WritePlain, FinishBuilding, BuiltFirst
<1>4. CASE (\E c \in Calls : LeaseExpires(c)) \/ Lose \/ UNCHANGED vars
  BY <1>4 DEF LeaseExpires, Lose, vars, BuiltFirst
<1> QED
  BY <1>0, <1>2, <1>3, <1>4 DEF Next, Step

\* The step that suspends the run leaves a batch that is stuck: with two
\* processes at most one other walk is on its way.
LEMMA Suspending ==
  ASSUME FewWorkers, NoBatchIsEmpty, GraphInvariant, PublicIsDecided,
         NoContentIsPlain, RankIsFirst, BuiltFirst,
         [Next]_vars, status # "suspended", status' = "suspended"
  PROVE  /\ ~closing'
         /\ \E b \in Batches : Stuck(b)' /\ \E k \in Members[b] : outcome'[k] = "none"
<1> USE GraphAssumption, CallsDiffer DEF GraphInvariant
<1>0. job \in [Workers -> Jobs]
  BY DEF TypeOK, Jobs
<1>1. ASSUME NEW w \in Workers, NEW b \in Batches, Suspend(w), Unasked(b),
             UNCHANGED <<call, verdict, outcome, closing>>
      PROVE  /\ ~closing'
             /\ \E d \in Batches :
                  Stuck(d)' /\ \E k \in Members[d] : outcome'[k] = "none"
  <2>1. ~closing'
    BY <1>1 DEF Suspend, PublicIsDecided
  <2>2. PICK k \in Members[b] : TRUE
    BY DEF NoBatchIsEmpty
  <2>3. outcome[k] = "none"
    <3>1. k \in Brand /\ k \notin Plain
      BY DEF Plain, Eligible
    <3>2. outcome[k] \notin {"approved", "held"}
      BY <1>1 DEF Unasked, DecidedByAnswers, Failed
    <3> QED
      BY <3>1, <3>2 DEF NoContentIsPlain, TypeOK
  <2>4. \A u, v \in Before(b)' : u = v
    <3>1. ASSUME NEW u \in Before(b)' PROVE u \in Workers /\ u # w
      <4>1. job'[w] = Idle
        BY <1>0, <1>1 DEF Suspend, Go
      <4> QED
        BY <3>1, <4>1, JobsDiffer DEF Before
    <3> QED
      BY <3>1 DEF FewWorkers, AtMostOneWorker, AtMostTwoWorkers
  <2>5. Stuck(b)'
    BY <1>1, <2>4 DEF Stuck, Unasked
  <2> QED
    BY <1>1, <2>1, <2>2, <2>3, <2>5
<1>2. ASSUME NEW w \in Workers, NEW b \in Batches, WalkBatch(w, b)
      PROVE  Suspend(w) /\ Unasked(b) /\ UNCHANGED <<call, verdict, outcome, closing>>
  BY <1>2 DEF WalkBatch, OverBudget, Unasked
<1>3. ASSUME NEW w \in Workers, WalkRank(w)
      PROVE  /\ Suspend(w) /\ 1 \in Batches /\ Unasked(1)
             /\ UNCHANGED <<call, verdict, outcome, closing>>
  <2>1. /\ OverBudget(Rank) /\ Suspend(w) /\ job[w] = Walk(0)
        /\ UNCHANGED <<call, verdict, outcome, closing>>
    BY <1>3 DEF WalkRank
  <2>2. 1 \in Batches
    BY <2>1 DEF RankIsFirst, Batches
  <2>3. call[Editor(1)] = "none"
    BY <2>1, <2>2 DEF OverBudget, RankIsFirst, Settled, Failed
  <2> QED
    BY <2>1, <2>2, <2>3 DEF Unasked
<1>4. ASSUME NEW w \in Workers, BeginWalk(w) PROVE FALSE
  BY <1>4 DEF BeginWalk
<1>5. ASSUME NEW w \in Workers,
             \/ WritePlain(w) \/ WalkClose(w)
             \/ Envelope(w) \/ Finalize(w) \/ Crash(w)
             \/ \E c \in Calls : Answer(w, c) \/ Record(w, c) \/ Start(w, c)
      PROVE  FALSE
  BY <1>4, <1>5 DEF WritePlain, WalkClose, Envelope, Finalize, Crash, Answer,
                    Record, Start
<1>6. ASSUME NEW w \in Workers, FinishBuilding(w)
      PROVE  /\ Suspend(w) /\ 1 \in Batches /\ Unasked(1)
             /\ UNCHANGED <<call, verdict, outcome, closing>>
  <2>1. /\ 1 + 2 * Planned > CallCap /\ Suspend(w) /\ job[w] = Building
        /\ UNCHANGED <<call, verdict, outcome, closing>>
    BY <1>4, <1>6 DEF FinishBuilding
  <2>2. AtMostOneWorker /\ CallCap > 0
    BY <2>1 DEF FewWorkers, PlanFits
  <2>3. 1 \in Batches
    BY <2>1, <2>2 DEF Batches
  <2>4. call[Editor(1)] = "none"
    BY <2>1, <2>2, <2>3 DEF BuiltFirst
  <2> QED
    BY <2>1, <2>3, <2>4 DEF Unasked
<1>7. ~((\E c \in Calls : LeaseExpires(c)) \/ Lose \/ UNCHANGED vars)
  BY DEF LeaseExpires, Lose, vars
<1>8. \/ \E w \in Workers, b \in Batches : WalkBatch(w, b)
      \/ \E w \in Workers : WalkRank(w) \/ FinishBuilding(w)
  BY <1>5, <1>7 DEF Next, Step
<1> QED
  BY <1>1, <1>2, <1>3, <1>6, <1>8

\* Suspensions stop the run for good.
LEMMA StopStep ==
  ASSUME FewWorkers, NoBatchIsEmpty,
         GraphInvariant, PublicIsDecided, SuspensionInvariant, [Next]_vars
  PROVE  /\ SuspensionInvariant'
         /\ status = "suspended" => status' = "suspended"
<1> USE DEF SuspensionInvariant
<1>1. NoContentIsPlain' /\ RankIsFirst' /\ BuiltFirst'
  BY NoContentStep, RankFirstStep, BuildingStep
<1>2. CASE status = "suspended"
  <2>1. PICK b \in Batches :
            Stuck(b) /\ \E k \in Members[b] : outcome[k] = "none"
    BY <1>2 DEF StopsForGood
  <2>2. PICK k \in Members[b] : outcome[k] = "none"
    BY <2>1
  <2>3. outcome'[k] = "none" /\ Stuck(b)'
    BY <1>2, <2>1, <2>2, StuckStep
  <2>4. ~Complete
    BY <2>2, GraphAssumption DEF Complete
  <2>5. ~closing' /\ status' = "suspended"
    BY <1>2, <2>4, StaysUnclosed DEF StopsForGood
  <2> QED
    BY <1>1, <2>2, <2>3, <2>5 DEF StopsForGood
<1>3. CASE status # "suspended" /\ status' = "suspended"
  BY <1>1, <1>3, Suspending DEF StopsForGood
<1>4. CASE status # "suspended" /\ status' # "suspended"
  BY <1>1, <1>4 DEF StopsForGood
<1> QED
  BY <1>2, <1>3, <1>4

\* A run that its budget suspended (_suspend_run) is not published behind its
\* back, with a single process, or with two and a plan that fits the cap from
\* the start.
THEOREM SuspensionIsFinal ==
  ASSUME FewWorkers, NoBatchIsEmpty
  PROVE  Spec => SuspendedForGood
<1>1. Init => SuspensionInvariant
  <2> SUFFICES ASSUME Init PROVE SuspensionInvariant
    OBVIOUS
  <2>1. \A w \in Workers : \A i : job[w] # Walk(i)
    BY JobsDiffer DEF Init
  <2>2. RankIsFirst
    BY <2>1, CallsDiffer DEF Init, RankIsFirst
  <2> QED
    BY <2>2 DEF Init, SuspensionInvariant, NoContentIsPlain, BuiltFirst,
                StopsForGood
<1>2. GraphInvariant /\ PublicIsDecided /\ SuspensionInvariant /\ [Next]_vars
        => /\ SuspensionInvariant'
           /\ status = "suspended" => status' = "suspended"
  BY StopStep
<1>3. GraphInvariant /\ PublicIsDecided /\ SuspensionInvariant /\ [Next]_vars
        => [status = "suspended" => status' = "suspended"]_vars
  BY <1>2
<1> QED
  BY <1>1, <1>2, <1>3, GraphInvariantHolds, PublicHolds, PTL
     DEF Spec, SuspendedForGood

=============================================================================
