------------------------ MODULE ReconciliationProofs ------------------------
(***************************************************************************)
(* Theorems about Reconciliation, for any confirmations, amounts, rates    *)
(* and number of faults.                                                   *)
(***************************************************************************)
EXTENDS Reconciliation, FiniteSetTheorems, TLAPS

\* What holds while a run is under way: its row says so, it counts what it
\* has matched, and nothing it has fetched has been reconciled.
RunInv ==
    worker \in Active =>
        /\ status = "running"
        /\ matched = Cardinality(work)
        /\ \A c \in pending : reconciled[c] = "no"

\* The inductive invariant.
TruthInv == TypeOK /\ RunInv /\ RunsTellTheTruth

\* The default rate is a fraction.
LEMMA OneIsFraction == One \in Fraction
BY DEF One, Fraction

\* What may be stored are fractions.
LEMMA RatesAreFractions == Rate \subseteq Fraction
BY ReconciliationAssumption DEF Rate

LEMMA InitTruth == Init => TruthInv
<1>1. Init => TypeOK
  BY ReconciliationAssumption, OneIsFraction DEF Init, TypeOK, Active
<1>2. Init => RunInv
  BY DEF Init, RunInv, Active
<1>3. Init => RunsTellTheTruth
  BY DEF Init, RunsTellTheTruth, ByLast
<1> QED BY <1>1, <1>2, <1>3 DEF TruthInv

\* Every step keeps the types.
LEMMA TypeStep == TypeOK /\ [Next]_vars => TypeOK'
<1> SUFFICES ASSUME TypeOK, [Next]_vars PROVE TypeOK'
  OBVIOUS
<1> USE ReconciliationAssumption DEF TypeOK, Active
<1>1. ASSUME NEW c \in Confirmation, Deliver(c) PROVE TypeOK'
  BY <1>1 DEF Deliver, locals
<1>2. ASSUME NEW p \in Pairs, NEW r \in Quotes[p], StoreRate(p, r) PROVE TypeOK'
  BY <1>2 DEF StoreRate, Rate
<1>3. ASSUME NEW a \in BOOLEAN, Begin(a) PROVE TypeOK'
  BY <1>3 DEF Begin, Commit, Age
<1>4. ASSUME Fetch PROVE TypeOK'
  BY <1>4 DEF Fetch, tables
<1>5. ASSUME NEW c \in Confirmation, LookUp(c) PROVE TypeOK'
  <2>1. Pair(c) \in Pairs
    BY DEF Pair, Money, Pairs
  <2>2. rates[Pair(c)] \in Fraction \cup {NoRate}
    BY <2>1, RatesAreFractions
  <2>3. rate' \in Fraction
    BY <1>5, <2>2, OneIsFraction DEF LookUp
  <2> QED BY <1>5, <2>3 DEF LookUp, tables
<1>6. ASSUME LookUpReverse PROVE TypeOK'
  <2>2. rate' \in Fraction
    BY <1>6, OneIsFraction DEF LookUpReverse
  <2> QED BY <1>6, <2>2 DEF LookUpReverse, tables
<1>7. ASSUME Match PROVE TypeOK'
  BY <1>7 DEF Match, tables
<1>8. ASSUME Mismatch PROVE TypeOK'
  BY <1>8 DEF Mismatch, tables
<1>9. ASSUME NEW a \in BOOLEAN, Complete(a) PROVE TypeOK'
  BY <1>9 DEF Complete, Commit, Updated
<1>10. ASSUME NEW a \in BOOLEAN, Fail(a) PROVE TypeOK'
  BY <1>10 DEF Fail, Commit, Updated
<1>11. ASSUME Die PROVE TypeOK'
  BY <1>11 DEF Die, tables
<1>12. ASSUME Restart PROVE TypeOK'
  BY <1>12 DEF Restart, tables
<1>13. ASSUME UNCHANGED vars PROVE TypeOK'
  BY <1>13 DEF vars, tables, locals
<1>14. ASSUME DivideByZero PROVE TypeOK'
  BY <1>14 DEF DivideByZero, tables
<1> QED BY <1>1, <1>2, <1>3, <1>4, <1>5, <1>6, <1>7, <1>8, <1>9, <1>10, <1>11, <1>12, <1>13,
           <1>14
        DEF Next, Run

\* Sets of confirmations are finite.
LEMMA Countable ==
    ASSUME NEW S, S \subseteq Confirmation
    PROVE  IsFiniteSet(S) /\ Cardinality(S) \in Nat
BY ReconciliationAssumption, FS_Subset, FS_CardinalityType

\* Every step keeps the truth of runs and of their rows.
LEMMA TruthStep == TruthInv /\ [Next]_vars => TruthInv'
<1> SUFFICES ASSUME TruthInv, [Next]_vars PROVE RunInv' /\ RunsTellTheTruth'
  BY TypeStep DEF TruthInv
<1> TypeOK /\ RunInv /\ RunsTellTheTruth
  BY DEF TruthInv
<1> USE DEF TypeOK, RunInv, RunsTellTheTruth, ByLast, Active
<1>1. ASSUME NEW c \in Confirmation, Deliver(c) PROVE RunInv' /\ RunsTellTheTruth'
  BY <1>1 DEF Deliver, locals
<1>2. ASSUME NEW p \in Pairs, NEW r \in Quotes[p], StoreRate(p, r)
      PROVE  RunInv' /\ RunsTellTheTruth'
  BY <1>2 DEF StoreRate
<1>3. ASSUME NEW a \in BOOLEAN, Begin(a) PROVE RunInv' /\ RunsTellTheTruth'
  <2>1. Cardinality({}) = 0
    BY FS_EmptySet
  <2>2. \A c \in Confirmation : reconciled'[c] # "last"
    BY <1>3 DEF Begin, Age
  <2> QED BY <1>3, <2>1, <2>2 DEF Begin
<1>4. ASSUME Fetch PROVE RunInv' /\ RunsTellTheTruth'
  BY <1>4 DEF Fetch, tables
<1>5. ASSUME NEW c \in Confirmation, LookUp(c) PROVE RunInv' /\ RunsTellTheTruth'
  BY <1>5 DEF LookUp, tables
<1>6. ASSUME LookUpReverse PROVE RunInv' /\ RunsTellTheTruth'
  BY <1>6 DEF LookUpReverse, tables
<1>7. ASSUME Match PROVE RunInv' /\ RunsTellTheTruth'
  <2>1. IsFiniteSet(work) /\ current \notin work
    BY <1>7, Countable DEF Match
  <2>2. Cardinality(work') = Cardinality(work) + 1
    BY <1>7, <2>1, FS_AddElement DEF Match
  <2> QED BY <1>7, <2>2 DEF Match, tables
<1>8. ASSUME Mismatch PROVE RunInv' /\ RunsTellTheTruth'
  BY <1>8 DEF Mismatch, tables
<1>9. ASSUME NEW a \in BOOLEAN, Complete(a) PROVE RunInv' /\ RunsTellTheTruth'
  <2>1. ByLast' = work
    BY <1>9 DEF Complete, Updated
  <2> QED BY <1>9, <2>1 DEF Complete, Commit
<1>10. ASSUME NEW a \in BOOLEAN, Fail(a) PROVE RunInv' /\ RunsTellTheTruth'
  <2>1. ByLast' = work
    BY <1>10 DEF Fail, Updated
  <2> QED BY <1>10, <2>1 DEF Fail, Commit
<1>11. ASSUME Die PROVE RunInv' /\ RunsTellTheTruth'
  BY <1>11 DEF Die, tables
<1>12. ASSUME Restart PROVE RunInv' /\ RunsTellTheTruth'
  BY <1>12 DEF Restart, tables
<1>13. ASSUME UNCHANGED vars PROVE RunInv' /\ RunsTellTheTruth'
  BY <1>13 DEF vars, tables, locals
<1>14. ASSUME DivideByZero PROVE RunInv' /\ RunsTellTheTruth'
  BY <1>14 DEF DivideByZero, tables
<1> QED BY <1>1, <1>2, <1>3, <1>4, <1>5, <1>6, <1>7, <1>8, <1>9, <1>10, <1>11, <1>12, <1>13,
           <1>14
        DEF Next, Run

\* Every variable keeps its type, and no work is left over from another run.
THEOREM TypeCorrect == Spec => []TypeOK
<1>1. TruthInv => TypeOK
  BY DEF TruthInv
<1> QED BY <1>1, InitTruth, TruthStep, PTL DEF Spec

\* The row of a run tells what became of it.
THEOREM RunsTruthful == Spec => []RunsTellTheTruth
<1>1. TruthInv => RunsTellTheTruth
  BY DEF TruthInv
<1> QED BY <1>1, InitTruth, TruthStep, PTL DEF Spec

\* What has been reconciled stays so, by the run that did it.
THEOREM SettledForGood == Spec => SettledOnce
<1> DEFINE Kept(c) == /\ reconciled[c] = "earlier" => reconciled'[c] = "earlier"
                      /\ reconciled[c] = "last" => reconciled'[c] # "no"
<1>1. TruthInv /\ [Next]_vars => [\A c \in Confirmation : Kept(c)]_vars
  <2> SUFFICES ASSUME TruthInv, Next PROVE \A c \in Confirmation : Kept(c)
    OBVIOUS
  <2> USE DEF TruthInv, TypeOK
  <2>1. ASSUME NEW a \in BOOLEAN, Begin(a) PROVE \A c \in Confirmation : Kept(c)
    BY <2>1 DEF Begin, Age
  <2>2. ASSUME NEW a \in BOOLEAN, Complete(a) \/ Fail(a) PROVE \A c \in Confirmation : Kept(c)
    <3>1. \A c \in work : reconciled[c] = "no"
      BY <2>2 DEF RunInv, Active, Complete, Fail
    <3>2. reconciled' = Updated
      BY <2>2 DEF Complete, Fail
    <3> QED BY <3>1, <3>2 DEF Updated
  <2>3. ASSUME UNCHANGED reconciled PROVE \A c \in Confirmation : Kept(c)
    BY <2>3
  <2> QED BY <2>1, <2>2, <2>3
          DEF Next, Run, Deliver, StoreRate, Fetch, LookUp, LookUpReverse, DivideByZero, Match,
              Mismatch, Die, Restart, tables
<1> QED BY <1>1, InitTruth, TruthStep, PTL DEF Spec, SettledOnce

-----------------------------------------------------------------------------
(* Exchange rates.                                                         *)

\* c agrees at a rate that was on record during the run.
Decided(c) == \E r \in Prescribed(Pair(c)) : Agrees(c, r)

\* Inductive with TruthInv: the history has what is on record, the rate in hand
\* is one prescribed during the run, and everything the run has updated agrees
\* at such a rate.
RateInv ==
    /\ worker \in Active => \A p \in Pairs : rates[p] \in held[p]
    /\ worker = "reversing" => /\ Pair(current)[1] # Pair(current)[2]
                               /\ NoRate \in held[Pair(current)]
    /\ worker = "judging" => rate \in Prescribed(Pair(current))
    /\ worker \in Active => \A c \in work : Decided(c)
    /\ KnownRatesDecide

\* A run's history grows, and what it prescribes with it.
LEMMA PrescribedGrows ==
    ASSUME \A p \in Pairs : held[p] \subseteq held'[p], NEW p \in Pairs
    PROVE  Prescribed(p) \subseteq Prescribed(p)'
<1>1. Reverse(p) \in Pairs
  BY DEF Reverse, Pairs
<1>2. held[p] \subseteq held'[p] /\ held[Reverse(p)] \subseteq held'[Reverse(p)]
  BY <1>1
<1> QED
  BY <1>2 DEF Prescribed

\* A confirmation's currencies form a pair, either way round.
LEMMA PairType == \A c \in Confirmation : Pair(c) \in Pairs /\ Reverse(Pair(c)) \in Pairs
BY ReconciliationAssumption DEF Pair, Money, Pairs, Reverse

\* What has agreed during the run has done so for good.
LEMMA DecidedStays ==
    ASSUME \A p \in Pairs : held[p] \subseteq held'[p], NEW c \in Confirmation, Decided(c)
    PROVE  Decided(c)'
<1>1. Prescribed(Pair(c)) \subseteq Prescribed(Pair(c))'
  BY PairType, PrescribedGrows
<1>2. \A r : Agrees(c, r)' <=> Agrees(c, r)
  BY DEF Agrees
<1>3. PICK r \in Prescribed(Pair(c)) : Agrees(c, r)
  BY DEF Decided
<1> QED
  BY <1>1, <1>2, <1>3 DEF Decided

\* Every step keeps the account of rates.
LEMMA RateStep == TruthInv /\ RateInv /\ [Next]_vars => RateInv'
<1> SUFFICES ASSUME TypeOK, RunInv, RunsTellTheTruth, RateInv, [Next]_vars PROVE RateInv'
  BY DEF TruthInv
<1> USE DEF RateInv, Active, ByLast, KnownRatesDecide
<1>d. \A c \in Confirmation : Decided(c) <=> \E r \in Prescribed(Pair(c)) : Agrees(c, r)
  BY DEF Decided
<1>k. ASSUME UNCHANGED held, NEW c \in Confirmation
      PROVE  Prescribed(Pair(c))' = Prescribed(Pair(c)) /\ (Decided(c) => Decided(c)')
  BY <1>k, DecidedStays DEF Prescribed
<1>1. ASSUME UNCHANGED <<rates, work, held, reconciled, current, rate>>,
             worker' \in {worker, "idle", "dead", "raised"},
             worker' = "raised" => worker \in Active
      PROVE  RateInv'
  <2>1. \A c \in Confirmation : Decided(c) => Decided(c)'
    BY <1>1, <1>k
  <2>2. Prescribed(Pair(current))' = Prescribed(Pair(current))
    BY <1>1 DEF Prescribed
  <2>3. KnownRatesDecide'
    BY <1>1, <1>d, <2>1 DEF Decided
  <2> QED
    BY <1>1, <2>1, <2>2, <2>3 DEF TypeOK
<1>2. ASSUME NEW p \in Pairs, NEW r \in Quotes[p], StoreRate(p, r) PROVE RateInv'
  <2>1. \A q \in Pairs : held[q] \subseteq held'[q]
    BY <1>2 DEF StoreRate, TypeOK
  <2>2. \A c \in Confirmation : Decided(c) => Decided(c)'
    BY <2>1, DecidedStays
  <2>3. worker \in Active => \A q \in Pairs : rates'[q] \in held'[q]
    BY <1>2 DEF StoreRate, TypeOK
  <2>4. UNCHANGED <<worker, work, current, rate, reconciled>>
    BY <1>2 DEF StoreRate
  <2>5. KnownRatesDecide'
    BY <1>d, <2>2, <2>4 DEF Decided
  <2>6. worker \in {"reversing", "judging"} =>
            /\ held[Pair(current)] \subseteq held'[Pair(current)]
            /\ Prescribed(Pair(current)) \subseteq Prescribed(Pair(current))'
    <3>1. worker \in {"reversing", "judging"} => Pair(current) \in Pairs
      BY PairType DEF TypeOK
    <3>2. Pair(current)' = Pair(current)
      BY <2>4 DEF Pair
    <3>3. Reverse(Pair(current))' = Reverse(Pair(current))
      BY <3>2 DEF Reverse
    <3>4. worker \in {"reversing", "judging"} => Reverse(Pair(current)) \in Pairs
      BY PairType DEF TypeOK
    <3> QED
      BY <2>1, <3>1, <3>2, <3>3, <3>4 DEF Prescribed
  <2> QED
    BY <2>2, <2>3, <2>4, <2>5, <2>6 DEF TypeOK
<1>3. ASSUME NEW a \in BOOLEAN, Begin(a) PROVE RateInv'
  <2>1. \A c \in Confirmation : reconciled'[c] # "last"
    BY <1>3 DEF Begin, Age, TypeOK
  <2> QED BY <1>3, <2>1 DEF Begin, Commit, TypeOK
<1>4. ASSUME Fetch PROVE RateInv'
  <2>1. UNCHANGED <<rates, work, held, reconciled>> /\ worker' = "comparing"
        /\ worker = "fetching"
    BY <1>4 DEF Fetch, tables
  <2>2. \A c \in Confirmation : Decided(c) => Decided(c)'
    BY <1>k, <2>1
  <2> QED BY <1>d, <2>1, <2>2 DEF Decided, TypeOK
<1>5. ASSUME NEW c \in Confirmation, LookUp(c) PROVE RateInv'
  <2>1. UNCHANGED <<rates, reconciled, work, held>> /\ current' = c
        /\ worker = "comparing" /\ worker' \in {"judging", "reversing"}
    BY <1>5 DEF LookUp, tables
  <2>2. \A d \in Confirmation : Decided(d) => Decided(d)'
    BY <1>k, <2>1
  <2>3. rates[Pair(c)] \in held[Pair(c)] /\ rates[Pair(c)] \in Rate \cup {NoRate}
    BY <2>1, PairType DEF TypeOK
  <2>4. worker' = "judging" => rate' \in Prescribed(Pair(c))
    BY <1>5, <2>3 DEF LookUp, Prescribed
  <2>5. worker' = "reversing" => Pair(c)[1] # Pair(c)[2] /\ NoRate \in held[Pair(c)]
    BY <1>5, <2>3 DEF LookUp
  <2>6. Prescribed(Pair(c))' = Prescribed(Pair(c)) /\ Pair(c)' = Pair(c)
    BY <1>k, <2>1 DEF Pair
  <2>7. KnownRatesDecide'
    BY <1>d, <2>1, <2>2 DEF Decided
  <2> QED BY <2>1, <2>2, <2>4, <2>5, <2>6, <2>7 DEF TypeOK
<1>6. ASSUME LookUpReverse PROVE RateInv'
  <2>1. UNCHANGED <<rates, reconciled, work, held, current>> /\ worker' = "judging"
        /\ worker = "reversing" /\ current \in Confirmation
    BY <1>6 DEF LookUpReverse, tables, TypeOK
  <2>2. \A d \in Confirmation : Decided(d) => Decided(d)'
    BY <1>k, <2>1
  <2>3. rates[Reverse(Pair(current))] \in held[Reverse(Pair(current))]
    BY <2>1, PairType
  <2>4. NoRate \notin Invertible
    BY ReconciliationAssumption DEF Invertible
  <2>5. rate' \in Prescribed(Pair(current))
    BY <1>6, <2>1, <2>3, <2>4 DEF LookUpReverse, Prescribed
  <2>6. Prescribed(Pair(current))' = Prescribed(Pair(current))
    BY <1>k, <2>1 DEF Prescribed
  <2>7. KnownRatesDecide'
    BY <1>d, <2>1, <2>2 DEF Decided
  <2> QED BY <2>1, <2>2, <2>5, <2>6, <2>7 DEF TypeOK
<1>7. ASSUME Match PROVE RateInv'
  <2>1. /\ UNCHANGED <<rates, reconciled, held, current, rate>> /\ worker' = "comparing"
        /\ work' = work \cup {current} /\ worker = "judging" /\ current \in Confirmation
    BY <1>7 DEF Match, tables, TypeOK
  <2>2. Decided(current)
    BY <1>7, <2>1 DEF Match, Decided
  <2>3. \A d \in Confirmation : Decided(d) => Decided(d)'
    BY <1>k, <2>1
  <2>4. KnownRatesDecide'
    BY <1>d, <2>1, <2>3 DEF Decided
  <2> QED BY <2>1, <2>2, <2>3, <2>4 DEF TypeOK
<1>8. ASSUME NEW a \in BOOLEAN, Complete(a) \/ Fail(a) PROVE RateInv'
  <2>1. ByLast' = work /\ UNCHANGED <<rates, held>> /\ worker' \in {"idle", "dead"}
    BY <1>8 DEF Complete, Fail, Updated, Commit, TypeOK, RunInv, RunsTellTheTruth
  <2>2. \A c \in work : Decided(c)
    BY <1>8 DEF Complete, Fail
  <2>3. \A c \in work : Decided(c)'
    BY <1>k, <2>1, <2>2 DEF TypeOK
  <2> QED BY <2>1, <2>3 DEF Decided
<1>9. Mismatch \/ DivideByZero \/ Die \/ Restart \/ UNCHANGED vars
          => RateInv'
  BY <1>1 DEF Mismatch, DivideByZero, Die, Restart, vars, tables, locals
<1>10. ASSUME NEW c \in Confirmation, Deliver(c) PROVE RateInv'
  BY <1>1, <1>10 DEF Deliver, locals
<1> QED BY <1>2, <1>3, <1>4, <1>5, <1>6, <1>7, <1>8, <1>9, <1>10 DEF Next, Run

\* What a run reconciles agrees at a rate that was on record during the run: the
\* reciprocal or the default of 1.0 never stands in for a row that was there.
THEOREM KnownRatesUsed == Spec => []KnownRatesDecide
<1>1. Init => RateInv
  BY DEF Init, RateInv, Active, KnownRatesDecide, ByLast
<1>2. RateInv => KnownRatesDecide
  BY DEF RateInv
<1> QED BY <1>1, <1>2, InitTruth, TruthStep, RateStep, PTL DEF Spec
=============================================================================
