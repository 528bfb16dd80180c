--------------------------- MODULE RoutingProofs ----------------------------
(***************************************************************************)
(* Theorems about Routing, for any rails, requests, scores and rounds.     *)
(***************************************************************************)
EXTENDS Routing, FiniteSetTheorems, TLAPS

\* What is known of a planner's rails at each place of its loop.
PlannerInv(p) ==
    LET steady == Supports[wants[p]] \cap always[p]
    IN  /\ always[p] \subseteq up /\ never[p] \cap up = {}
        /\ pc[p] # "looking" => weighing[p] = NoRail
        /\ weighing[p] # NoRail => weighing[p] \notin never[p]
        /\ pc[p] = "looking" =>
               /\ steady \subseteq found[p] \cup todo[p] \cup {weighing[p]}
               /\ found[p] \subseteq Supports[wants[p]] \ never[p]

\* The inductive invariant of plans.
PlanInv == TypeOK /\ PlanIsOfItsTime /\ \A p \in Planner : PlannerInv(p)

LEMMA ScoreNat == \A r \in Rail, a \in Nat : Score(r, a) \in Nat
<1> TAKE r \in Rail, a \in Nat
<1>1. \A m, n \in Nat : m * n \in Nat
  OBVIOUS
<1>2. Static[r] + (15 * a) \div 100 \in Nat /\ Modifier[r] \in Nat
  BY RoutingAssumption
<1> QED
  BY <1>1, <1>2 DEF Score

LEMMA FullNat == 0 .. Full \subseteq Nat
BY DEF Full

LEMMA RescoredRange == \A s \in 0 .. Full, h \in BOOLEAN : Rescored(s, h) \in 0 .. Full
<1> TAKE s \in 0 .. Full, h \in BOOLEAN
<1>1. Full \in Nat /\ s \in Nat /\ s <= Full
  BY DEF Full
<1>2. (9 * s + Full) \div 10 \in 0 .. Full
  BY <1>1
<1>3. s \div 2 \in 0 .. Full
  BY <1>1
<1>4. CASE h
  BY <1>2, <1>4, Zenon DEF Rescored
<1>5. CASE ~ h
  BY <1>3, <1>5, Zenon DEF Rescored
<1> QED
  BY <1>4, <1>5

LEMMA InitPlan == Init => PlanInv
<1> SUFFICES ASSUME Init PROVE PlanInv
  OBVIOUS
<1>1. TypeOK
  BY RoutingAssumption DEF Init, TypeOK, Planning, Full
<1>2. PlanIsOfItsTime /\ \A p \in Planner : PlannerInv(p)
  BY DEF Init, PlanIsOfItsTime, PlannerInv
<1> QED
  BY <1>1, <1>2 DEF PlanInv

\* An order of the candidates is a sequence of exactly these rails.
LEMMA Orders ==
    ASSUME NEW S \in SUBSET Rail, NEW order \in Bijection(1 .. Cardinality(S), S)
    PROVE  order \in Seq(Rail) /\ Range(order) = S
<1>1. Cardinality(S) \in Nat
  BY RoutingAssumption, FS_Subset, FS_CardinalityType
<1>2. /\ order \in [1 .. Cardinality(S) -> S]
      /\ \A r \in S : \E i \in 1 .. Cardinality(S) : order[i] = r
  BY DEF Bijection, Injection, Surjection
<1>3. order \in [1 .. Cardinality(S) -> Rail]
  BY <1>2
<1>4. order \in Seq(Rail)
  BY <1>1, <1>3
<1>5. Range(order) = S
  BY <1>2 DEF Range
<1> QED
  BY <1>4, <1>5

\* Every step keeps the types.
LEMMA TypeStep == TypeOK /\ [Next]_vars => TypeOK'
<1> SUFFICES ASSUME TypeOK, [Next]_vars PROVE TypeOK'
  OBVIOUS
<1> USE RoutingAssumption DEF TypeOK, Planning, Goto, registry, history
<1>1. CASE BeginRound
  BY <1>1 DEF BeginRound
<1>2. ASSUME NEW r \in Rail, CheckRail(r) PROVE TypeOK'
  <2>1. Rescored(score[r], r \in up) \in 0 .. Full
    <3>1. score[r] \in 0 .. Full /\ (r \in up) \in BOOLEAN
      OBVIOUS
    <3> QED
      BY <3>1, RescoredRange, Zenon
  <2>2. score' \in [Rail -> 0 .. Full] /\ unchecked' \subseteq Rail
    BY <1>2, <2>1 DEF CheckRail, Left
  <2> QED
    BY <1>2, <2>2 DEF CheckRail
<1>3. ASSUME NEW r \in Rail, BreakerOpens(r) PROVE TypeOK'
  BY <1>3 DEF BreakerOpens
<1>4. ASSUME NEW r \in Rail, BreakerLeavesOpen(r) PROVE TypeOK'
  BY <1>4 DEF BreakerLeavesOpen
<1>5. ASSUME NEW p \in Planner, Ask(p) PROVE TypeOK'
  BY <1>5 DEF Ask
<1>6. ASSUME NEW p \in Planner, ListAdapters(p) PROVE TypeOK'
  BY <1>6 DEF ListAdapters
<1>7. ASSUME NEW p \in Planner, Weigh(p) PROVE TypeOK'
  <2>1. weighing[p] \in Rail
    BY <1>7 DEF Weigh
  <2>2. Score(weighing[p], score[weighing[p]]) \in Nat
    <3>1. score[weighing[p]] \in 0 .. Full
      BY <2>1
    <3>2. score[weighing[p]] \in Nat
      BY <3>1, FullNat, Zenon
    <3> QED
      BY <2>1, <3>2, ScoreNat
  <2>3. found' \in [Planner -> SUBSET Rail]
    <3>1. CASE found' = found
      BY <3>1
    <3>2. CASE found' = [found EXCEPT ![p] = @ \cup {weighing[p]}]
      <4>1. found[p] \cup {weighing[p]} \in SUBSET Rail
        BY <2>1
      <4> QED
        BY <3>2, <4>1
    <3> QED
      BY <1>7, <3>1, <3>2 DEF Weigh
  <2>4. worth' \in [Planner -> [Rail -> Nat]]
    <3>1. CASE worth' = worth
      BY <3>1
    <3>2. CASE worth' = [worth EXCEPT ![p][weighing[p]] =
                                      Score(weighing[p], score[weighing[p]])]
      BY <2>1, <2>2, <3>2
    <3> QED
      BY <1>7, <3>1, <3>2 DEF Weigh
  <2> QED
    BY <1>7, <2>3, <2>4 DEF Weigh
<1>8. ASSUME NEW p \in Planner, NoCandidates(p) PROVE TypeOK'
  BY <1>8 DEF NoCandidates
<1>9. ASSUME NEW p \in Planner, MakePlan(p) PROVE TypeOK'
  <2>1. PICK order \in Bijection(1 .. Cardinality(found[p]), found[p]) :
          plan' = [plan EXCEPT ![p] = order]
    BY <1>9 DEF MakePlan
  <2>2. order \in Seq(Rail)
    BY <2>1, Orders
  <2>3. plan' \in [Planner -> Seq(Rail)]
    BY <2>1, <2>2
  <2> QED
    BY <1>9, <2>3 DEF MakePlan
<1>10. ASSUME NEW p \in Planner, NEW r \in Rail, LookAt(p, r) PROVE TypeOK'
  BY <1>10 DEF LookAt, AfterLook
<1>11. CASE UNCHANGED vars
  BY <1>11 DEF vars
<1> QED
  BY <1>1, <1>2, <1>3, <1>4, <1>5, <1>6, <1>7, <1>8, <1>9, <1>10, <1>11 DEF Next, ComputePlan

\* Every step keeps what is known of plans and of what they are made from.
LEMMA PlanStep == PlanInv /\ [Next]_vars => PlanInv'
<1> SUFFICES ASSUME PlanInv, [Next]_vars PROVE PlanInv'
  OBVIOUS
<1>0. TypeOK'
  BY TypeStep DEF PlanInv
<1>n. NoRail \notin Rail
  BY RoutingAssumption
<1> DEFINE Timely(p) ==
             LET steady == Supports[wants[p]] \cap always[p]
             IN  /\ pc[p] = "planned" =>
                        /\ steady \subseteq Range(plan[p])
                        /\ Range(plan[p]) \subseteq Supports[wants[p]] \ never[p]
                 /\ pc[p] = "refused" => steady = {}
<1> SUFFICES ASSUME NEW q \in Planner PROVE Timely(q)' /\ PlannerInv(q)'
  BY <1>0 DEF PlanInv, PlanIsOfItsTime
<1>a. Timely(q) /\ PlannerInv(q) /\ TypeOK
  BY DEF PlanInv, PlanIsOfItsTime
<1>c. LoopOver(q) => Supports[wants[q]] \cap always[q] \subseteq found[q]
  <2> SUFFICES ASSUME LoopOver(q), NEW r \in Supports[wants[q]] \cap always[q]
               PROVE  r \in found[q]
    OBVIOUS
  <2>1. r \in Rail /\ r # NoRail
    BY <1>a, <1>n DEF TypeOK
  <2> QED
    BY <1>a, <2>1 DEF LoopOver, PlannerInv
<1> USE DEF Planning, Goto, registry, history
<1>b. ASSUME UNCHANGED <<wants[q], always[q], never[q], up, pc[q], weighing[q], found[q],
                         todo[q], plan[q]>>
      PROVE  Timely(q)' /\ PlannerInv(q)'
  BY <1>a, <1>b DEF PlannerInv
<1>1. CASE BeginRound
  BY <1>1, <1>b DEF BeginRound
<1>2. ASSUME NEW r \in Rail, CheckRail(r) PROVE Timely(q)' /\ PlannerInv(q)'
  BY <1>2, <1>b DEF CheckRail
<1>3. ASSUME NEW r \in Rail, BreakerOpens(r) PROVE Timely(q)' /\ PlannerInv(q)'
  BY <1>a, <1>3 DEF BreakerOpens, PlannerInv
<1>4. ASSUME NEW r \in Rail, BreakerLeavesOpen(r) PROVE Timely(q)' /\ PlannerInv(q)'
  BY <1>a, <1>4 DEF BreakerLeavesOpen, PlannerInv
<1>5. ASSUME NEW p \in Planner, Ask(p) PROVE Timely(q)' /\ PlannerInv(q)'
  <2>1. CASE p # q
    BY <1>a, <1>5, <1>b, <2>1 DEF Ask, TypeOK
  <2>2. CASE p = q
    BY <1>a, <1>5, <2>2 DEF Ask, TypeOK, PlannerInv
  <2> QED
    BY <2>1, <2>2
<1>6. ASSUME NEW p \in Planner, ListAdapters(p) PROVE Timely(q)' /\ PlannerInv(q)'
  <2>1. CASE p # q
    BY <1>a, <1>6, <1>b, <2>1 DEF ListAdapters, TypeOK
  <2>2. CASE p = q
    BY <1>a, <1>6, <2>2 DEF ListAdapters, TypeOK, PlannerInv
  <2> QED
    BY <2>1, <2>2
<1>7. ASSUME NEW p \in Planner, Weigh(p) PROVE Timely(q)' /\ PlannerInv(q)'
  <2>1. CASE p # q
    BY <1>a, <1>7, <1>b, <2>1 DEF Weigh, TypeOK
  <2>2. CASE p = q
    BY <1>a, <1>7, <2>2 DEF Weigh, TypeOK, PlannerInv
  <2> QED
    BY <2>1, <2>2
<1>8. ASSUME NEW p \in Planner, NoCandidates(p) PROVE Timely(q)' /\ PlannerInv(q)'
  <2>1. CASE p # q
    BY <1>a, <1>8, <1>b, <2>1 DEF NoCandidates, TypeOK
  <2>2. CASE p = q
    <3>1. Supports[wants[q]] \cap always[q] = {}
      BY <1>n, <1>a, <1>8, <1>c, <2>2 DEF NoCandidates
    <3> QED
      BY <1>a, <1>8, <2>2, <3>1 DEF NoCandidates, LoopOver, TypeOK, PlannerInv
  <2> QED
    BY <2>1, <2>2
<1>9. ASSUME NEW p \in Planner, MakePlan(p) PROVE Timely(q)' /\ PlannerInv(q)'
  <2>1. CASE p # q
    BY <1>a, <1>9, <1>b, <2>1 DEF MakePlan, TypeOK
  <2>2. CASE p = q
    <3>1. PICK order \in Bijection(1 .. Cardinality(found[q]), found[q]) :
            plan' = [plan EXCEPT ![q] = order]
      BY <1>9, <2>2 DEF MakePlan
    <3>2. Range(plan'[q]) = found[q]
      BY <1>a, <3>1, Orders DEF TypeOK
    <3>3. Supports[wants[q]] \cap always[q] \subseteq found[q]
      BY <1>c, <1>9, <2>2 DEF MakePlan
    <3> QED
      BY <1>a, <1>9, <2>2, <3>2, <3>3 DEF MakePlan, LoopOver, TypeOK, PlannerInv
  <2> QED
    BY <2>1, <2>2
<1>10. ASSUME NEW p \in Planner, NEW r \in Rail, LookAt(p, r)
       PROVE  Timely(q)' /\ PlannerInv(q)'
  <2>1. CASE p # q
    BY <1>a, <1>10, <1>b, <2>1 DEF LookAt, TypeOK
  <2>2. CASE p = q
    <3>1. /\ pc[q] = "looking" /\ weighing[q] = NoRail
          /\ todo'[q] = todo[q] \ {r}
          /\ weighing'[q] = IF r \in up THEN r ELSE NoRail
          /\ UNCHANGED <<up, pc, wants, found, plan, always, never>>
          /\ up \subseteq Rail
      BY <1>a, <1>10, <2>2 DEF LookAt, AfterLook, TypeOK
    <3>2. CASE r \in up
      BY <1>a, <1>n, <3>1, <3>2 DEF PlannerInv
    <3>3. CASE r \notin up
      BY <1>a, <1>n, <3>1, <3>3 DEF PlannerInv
    <3> QED
      BY <3>2, <3>3
  <2> QED
    BY <2>1, <2>2
<1>11. CASE UNCHANGED vars
  BY <1>11, <1>b DEF vars
<1> QED
  BY <1>1, <1>2, <1>3, <1>4, <1>5, <1>6, <1>7, <1>8, <1>9, <1>10, <1>11 DEF Next, ComputePlan

\* Every variable keeps its type; scores stay between 0 and Full.
THEOREM TypeCorrect == Spec => []TypeOK
<1>1. PlanInv => TypeOK
  BY DEF PlanInv
<1> QED
  BY <1>1, InitPlan, PlanStep, PTL DEF Spec

\* However breakers, discovery and other requests interleave with it, a plan
\* has every rail that was healthy all the time and none that never was, and
\* a request is refused only without such a rail.
THEOREM PlansAreOfTheirTime == Spec => []PlanIsOfItsTime
<1>1. PlanInv => PlanIsOfItsTime
  BY DEF PlanInv
<1> QED
  BY <1>1, InitPlan, PlanStep, PTL DEF Spec
-----------------------------------------------------------------------------
(* The order of a plan.                                                    *)

\* Rails that never fail keep their score; what a candidate is worth lies
\* between its scores at the lowest and at full availability.
OrderInv ==
    /\ PlanInv
    /\ \A r \in Rail \ Failing : r \in up /\ score[r] = Full
    /\ \A p \in Planner : pc[p] = "looking" => \A r \in found[p] :
           Score(r, Lowest(r)) <= worth[p][r] /\ worth[p][r] <= Score(r, Full)
    /\ OrderIsStatic

LEMMA TimesMonotone == \A m, n, k \in Nat : m <= n => m * k <= n * k
OBVIOUS

LEMMA ScoreMonotone ==
    \A r \in Rail, a, b \in Nat : a <= b => Score(r, a) <= Score(r, b)
<1> TAKE r \in Rail, a, b \in Nat
<1> HAVE a <= b
<1>1. (15 * a) \div 100 <= (15 * b) \div 100
  OBVIOUS
<1>2. Static[r] \in Nat /\ Modifier[r] \in Nat
  BY RoutingAssumption
<1>3. /\ Static[r] + (15 * a) \div 100 \in Nat /\ Static[r] + (15 * b) \div 100 \in Nat
      /\ Static[r] + (15 * a) \div 100 <= Static[r] + (15 * b) \div 100
  BY <1>1, <1>2
<1> QED
  BY <1>2, <1>3, TimesMonotone DEF Score

LEMMA InitOrder == Init => OrderInv
BY InitPlan DEF Init, OrderInv, OrderIsStatic

\* Sorted candidates whose worth lies in these bounds are in static order.
LEMMA SortedIsStatic ==
    ASSUME Spread, NEW c \in Currency,
           NEW q \in Supports[c], NEW r \in Supports[c],
           NEW v \in Nat, NEW w \in Nat, v >= w,
           v <= Score(q, Full), Score(r, Lowest(r)) <= w
    PROVE  Score(q, Full) >= Score(r, Full)
<1>1. q \in Rail /\ r \in Rail
  BY RoutingAssumption
<1>2. Full \in Nat /\ Lowest(r) \in Nat
  BY DEF Full, Lowest
<1>3. Score(q, Full) \in Nat /\ Score(r, Full) \in Nat /\ Score(r, Lowest(r)) \in Nat
  BY <1>1, <1>2, ScoreNat
<1>4. ~ Score(q, Full) < Score(r, Lowest(r))
  BY <1>3
<1>5. ~ Score(q, Full) < Score(r, Full)
  BY <1>4 DEF Spread
<1> QED
  BY <1>3, <1>5

LEMMA OrderStep == Spread /\ OrderInv /\ [Next]_vars => OrderInv'
<1> SUFFICES ASSUME Spread, OrderInv, [Next]_vars PROVE OrderInv'
  OBVIOUS
<1> DEFINE Steady == \A r \in Rail \ Failing : r \in up /\ score[r] = Full
           Weighed(p) == pc[p] = "looking" => \A r \in found[p] :
               Score(r, Lowest(r)) <= worth[p][r] /\ worth[p][r] <= Score(r, Full)
           InOrder(p) == pc[p] = "planned" => \A i, j \in DOMAIN plan[p] :
               i < j => Score(plan[p][i], Full) >= Score(plan[p][j], Full)
<1>0. PlanInv'
  BY PlanStep DEF OrderInv
<1>a. TypeOK /\ PlanInv /\ Steady /\ \A p \in Planner : Weighed(p) /\ InOrder(p)
  BY DEF OrderInv, PlanInv, OrderIsStatic
<1> SUFFICES Steady' /\ \A q \in Planner : Weighed(q)' /\ InOrder(q)'
  BY <1>0 DEF OrderInv, OrderIsStatic
<1> HIDE DEF Steady, Weighed, InOrder
<1> USE DEF Planning, Goto, registry, history
<1>1. Steady'
  <2>1. CASE UNCHANGED <<up, score>>
    BY <1>a, <2>1 DEF Steady
  <2>2. ASSUME NEW r \in Rail, CheckRail(r) PROVE Steady'
    <3>1. ASSUME NEW s \in Rail \ Failing PROVE s \in up' /\ score'[s] = Full
      <4>1. s \in up /\ score[s] = Full
        BY <1>a DEF Steady
      <4>2. Rescored(Full, TRUE) = Full
        BY DEF Rescored, Full
      <4>3. up' = up /\ score' = [score EXCEPT ![r] = Rescored(score[r], r \in up)]
        BY <2>2 DEF CheckRail
      <4>4. CASE s # r
        BY <1>a, <4>1, <4>3, <4>4 DEF TypeOK
      <4>5. CASE s = r
        <5>1. score'[s] = Rescored(score[s], s \in up)
          BY <1>a, <4>3, <4>5 DEF TypeOK
        <5>2. (s \in up) = TRUE
          BY <4>1
        <5> QED
          BY <4>1, <4>2, <4>3, <5>1, <5>2
      <4> QED
        BY <4>4, <4>5
    <3> QED
      BY <3>1 DEF Steady
  <2>3. ASSUME NEW r \in Rail, BreakerOpens(r) PROVE Steady'
    BY <1>a, <2>3 DEF BreakerOpens, Steady
  <2>4. ASSUME NEW r \in Rail, BreakerLeavesOpen(r) PROVE Steady'
    BY <1>a, <2>4 DEF BreakerLeavesOpen, Steady
  <2>5. CASE BeginRound \/ UNCHANGED vars
    BY <2>1, <2>5 DEF BeginRound, vars
  <2>6. ASSUME NEW p \in Planner, Ask(p) \/ ComputePlan(p) PROVE UNCHANGED <<up, score>>
    BY <2>6 DEF Ask, ComputePlan, ListAdapters, LookAt, Weigh, NoCandidates, MakePlan
  <2> QED
    BY <2>1, <2>2, <2>3, <2>4, <2>5, <2>6 DEF Next
<1>2. ASSUME NEW q \in Planner PROVE Weighed(q)' /\ InOrder(q)'
  <2>0. Weighed(q) /\ InOrder(q)
    BY <1>a
  <2>a. ASSUME pc'[q] = pc[q], found'[q] = found[q], worth'[q] = worth[q], plan'[q] = plan[q]
        PROVE  Weighed(q)' /\ InOrder(q)'
    BY <2>0, <2>a DEF Weighed, InOrder
  <2>1. ASSUME NEW p \in Planner, Ask(p) \/ ComputePlan(p), p # q
        PROVE  Weighed(q)' /\ InOrder(q)'
    BY <1>a, <2>1, <2>a
       DEF Ask, ComputePlan, ListAdapters, LookAt, Weigh, NoCandidates, MakePlan, TypeOK
  <2>2. CASE Ask(q)
    BY <1>a, <2>2 DEF Ask, TypeOK, Weighed, InOrder
  <2>3. CASE ListAdapters(q)
    BY <1>a, <2>3 DEF ListAdapters, TypeOK, Weighed, InOrder
  <2>4. ASSUME NEW r \in Rail, LookAt(q, r) PROVE Weighed(q)' /\ InOrder(q)'
    BY <2>4, <2>a DEF LookAt
  <2>5. CASE Weigh(q)
    <3>1. CASE UNCHANGED <<found, worth>>
      BY <2>5, <2>a, <3>1 DEF Weigh
    <3> DEFINE r == weighing[q]
    <3>2. CASE /\ found' = [found EXCEPT ![q] = @ \cup {r}]
               /\ worth' = [worth EXCEPT ![q][r] = Score(r, score[r])]
      <4>1. r \in Rail /\ score[r] \in 0 .. Full
        BY <1>a, <2>5 DEF Weigh, TypeOK
      <4>2. score[r] \in Nat /\ Full \in Nat /\ Lowest(r) \in Nat
            /\ Lowest(r) <= score[r] /\ score[r] <= Full
        <5>1. 0 .. Full \subseteq Nat /\ Full \in Nat /\ \A a \in 0 .. Full : 0 <= a /\ a <= Full
          BY DEF Full
        <5>2. CASE r \in Failing
          BY <4>1, <5>1, <5>2 DEF Lowest
        <5>3. CASE r \notin Failing
          BY <1>a, <4>1, <5>1, <5>3 DEF Lowest, Steady
        <5> QED
          BY <5>2, <5>3
      <4>3. Score(r, Lowest(r)) <= Score(r, score[r]) /\ Score(r, score[r]) <= Score(r, Full)
        BY <4>1, <4>2, ScoreMonotone
      <4>4. pc[q] = "looking" /\ pc' = pc /\ plan' = plan
        BY <2>5 DEF Weigh
      <4>5. ASSUME NEW s \in found'[q]
            PROVE  Score(s, Lowest(s)) <= worth'[q][s] /\ worth'[q][s] <= Score(s, Full)
        <5>1. s \in Rail /\ (s = r \/ s \in found[q])
          BY <1>a, <3>2, <4>1 DEF TypeOK
        <5>2. CASE s = r
          BY <1>a, <3>2, <4>1, <4>3, <5>2 DEF TypeOK
        <5>3. CASE s # r
          <6>1. s \in found[q] /\ worth'[q][s] = worth[q][s]
            BY <1>a, <3>2, <5>1, <5>3 DEF TypeOK
          <6> QED
            BY <2>0, <4>4, <6>1 DEF Weighed
        <5> QED
          BY <5>2, <5>3
      <4> QED
        BY <4>4, <4>5 DEF Weighed, InOrder
    <3> QED
      BY <2>5, <3>1, <3>2 DEF Weigh
  <2>6. CASE NoCandidates(q)
    BY <1>a, <2>6 DEF NoCandidates, TypeOK, Weighed, InOrder
  <2>7. CASE MakePlan(q)
    <3>1. PICK order \in Bijection(1 .. Cardinality(found[q]), found[q]) :
            /\ \A i, j \in DOMAIN order : i < j => worth[q][order[i]] >= worth[q][order[j]]
            /\ plan' = [plan EXCEPT ![q] = order]
      BY <2>7 DEF MakePlan
    <3>2. /\ plan'[q] = order /\ pc'[q] = "planned" /\ pc[q] = "looking"
          /\ found[q] \in SUBSET Rail
      BY <1>a, <2>7, <3>1 DEF MakePlan, LoopOver, TypeOK
    <3>3. order \in [1 .. Cardinality(found[q]) -> found[q]]
      BY DEF Bijection, Injection
    <3>4. found[q] \subseteq Supports[wants[q]] /\ wants[q] \in Currency
      BY <1>a, <3>2 DEF PlanInv, PlannerInv, TypeOK
    <3>5. ASSUME NEW i \in DOMAIN order, NEW j \in DOMAIN order, i < j
          PROVE  Score(order[i], Full) >= Score(order[j], Full)
      <4>1. order[i] \in found[q] /\ order[j] \in found[q]
        BY <3>3
      <4>2. /\ worth[q][order[i]] \in Nat /\ worth[q][order[j]] \in Nat
            /\ worth[q][order[i]] >= worth[q][order[j]]
        BY <1>a, <3>1, <3>2, <3>5, <4>1 DEF TypeOK
      <4>3. /\ worth[q][order[i]] <= Score(order[i], Full)
            /\ Score(order[j], Lowest(order[j])) <= worth[q][order[j]]
        BY <2>0, <3>2, <4>1 DEF Weighed
      <4> QED
        BY <3>4, <4>1, <4>2, <4>3, SortedIsStatic
    <3> QED
      BY <3>2, <3>5 DEF Weighed, InOrder
  <2>8. ASSUME NEW r \in Rail, CheckRail(r) \/ BreakerOpens(r) \/ BreakerLeavesOpen(r)
        PROVE  Weighed(q)' /\ InOrder(q)'
    BY <2>8, <2>a DEF CheckRail, BreakerOpens, BreakerLeavesOpen
  <2>9. CASE BeginRound \/ UNCHANGED vars
    BY <2>9, <2>a DEF BeginRound, vars
  <2> QED
    BY <2>1, <2>2, <2>3, <2>4, <2>5, <2>6, <2>7, <2>8, <2>9 DEF Next, ComputePlan
<1> QED
  BY <1>1, <1>2

\* If the rails that share a currency lie far enough apart, rails are tried in
\* the order of their scores at full availability, whatever discovery has seen.
THEOREM OrderKept == Spread => (Spec => []OrderIsStatic)
<1>1. OrderInv => OrderIsStatic
  BY DEF OrderInv
<1> SUFFICES ASSUME Spread PROVE Spec => []OrderIsStatic
  OBVIOUS
<1>2. OrderInv /\ [Next]_vars => OrderInv'
  BY OrderStep
<1> QED
  BY <1>1, <1>2, InitOrder, PTL DEF Spec
=============================================================================
