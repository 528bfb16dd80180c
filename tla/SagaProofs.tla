----------------------------- MODULE SagaProofs -----------------------------
(***************************************************************************)
(* Theorems about Saga, for every set of transactions and rails, every     *)
(* behaviour of the rails, every number of attempts and any number of      *)
(* crashes.                                                                *)
(***************************************************************************)
EXTENDS Saga, FiniteSetTheorems, TLAPS

-----------------------------------------------------------------------------
(* Type correctness.  A goroutine that tries rails is always at a rail of  *)
(* its plan, which no type says and every access to plan needs.            *)

Planning == {"idle", "policy", "routing"}
Trying == {"enter", "attempt", "inflight", "answered", "backoff"}

AtARail(t) ==
    /\ pc[t] \in Planning => leg[t] = 1
    /\ pc[t] \in Trying => leg[t] \in DOMAIN plan[t]

TypeInv == TypeOK /\ \A t \in Tx : AtARail(t)

\* A breaker's operations keep it a breaker.
LEMMA BreakerType ==
    ASSUME NEW b \in Breakers, NEW ok \in BOOLEAN, NEW s \in {"closed", "open", "halfopen"}
    PROVE  /\ NewGeneration(s) \in Breakers
           /\ Admitted(b) \in Breakers
           /\ AfterRequest(b, ok) \in Breakers
<1>1. NewGeneration(s) \in Breakers
  BY DEF NewGeneration, Breakers
<1>2. Admitted(b) \in Breakers
  BY DEF Admitted, Breakers
<1>3. AfterSuccess(b) \in Breakers
  BY DEF AfterSuccess, NewGeneration, Breakers
<1>4. AfterFailure(b) \in Breakers
  BY DEF AfterFailure, NewGeneration, Breakers
<1> QED
  BY <1>1, <1>2, <1>3, <1>4 DEF AfterRequest

\* The rail a goroutine is at is a rail.
LEMMA CurrentIsRail ==
    ASSUME TypeInv, NEW t \in Tx, pc[t] \in Trying
    PROVE  Current(t) \in Rail
<1>1. plan[t] \in Seq(Rail) /\ leg[t] \in DOMAIN plan[t]
  BY DEF TypeInv, TypeOK, AtARail
<1> QED
  BY <1>1 DEF Current

\* What is written are some of the rows.
LEMMA LogKeeps ==
    ASSUME NEW t \in Tx, NEW rows, Log(t, rows)
    PROVE  \E kept \in SUBSET rows : audit' = [audit EXCEPT ![t] = @ \cup kept]
<1> DEFINE Kept(row) == <<row.step, row.status>> \in Audited
           some == {row \in rows : Kept(row)}
<1>1. \E kept \in SUBSET some : audit' = [audit EXCEPT ![t] = @ \cup kept]
  BY Zenon DEF Log
<1> HIDE DEF Kept
<1>2. some \subseteq rows
  OBVIOUS
<1> HIDE DEF some
<1> QED
  BY <1>1, <1>2

\* Writing rows, some of which get lost, keeps the audit trail well-typed.
LEMMA LogType ==
    ASSUME TypeInv, NEW t \in Tx, NEW rows \in SUBSET AuditRows, Log(t, rows)
    PROVE  audit' \in [Tx -> SUBSET AuditRows]
<1>1. PICK kept \in SUBSET rows : audit' = [audit EXCEPT ![t] = @ \cup kept]
  BY LogKeeps
<1> QED
  BY <1>1 DEF TypeInv, TypeOK

LEMMA RowType ==
    ASSUME NEW r \in Rail \cup {NoRail} \cup ProviderIDs,
           NEW step \in {"start", "policy_check", "routing", "execution_attempt",
                         "fallback_attempt", "metering_update", "final_status"},
           NEW status \in {"pending", "success", "failure", "retry"}
    PROVE  Row(step, r, status) \in AuditRows
BY DEF Row, AuditRows

\* Giving a rail up moves the goroutine to the next rail or to its end.
LEMMA LegFailsType ==
    ASSUME TypeInv, NEW t \in Tx, pc[t] \in Trying,
           NEW rows \in SUBSET AuditRows, LegFails(t, rows)
    PROVE  /\ leg' \in [Tx -> Nat]
           /\ audit' \in [Tx -> SUBSET AuditRows]
           /\ \/ pc' = [pc EXCEPT ![t] = "failed"] /\ UNCHANGED leg
              \/ /\ pc' = [pc EXCEPT ![t] = "enter"]
                 /\ leg' = [leg EXCEPT ![t] = @ + 1]
                 /\ leg[t] + 1 \in DOMAIN plan[t]
<1>1. Current(t) \in Rail
  BY CurrentIsRail
<1>2. IfFallback(t, "failure") \in SUBSET AuditRows
  BY <1>1, RowType DEF IfFallback
<1>3. Row("final_status", NoRail, "failure") \in AuditRows
  BY RowType
<1>4. CASE leg[t] + 1 \in DOMAIN plan[t]
  <2>1. Log(t, rows \cup IfFallback(t, "failure"))
    BY <1>4 DEF LegFails
  <2>2. audit' \in [Tx -> SUBSET AuditRows]
    BY <2>1, <1>2, LogType
  <2>3. leg' = [leg EXCEPT ![t] = @ + 1] /\ pc' = [pc EXCEPT ![t] = "enter"]
    BY <1>4 DEF LegFails, Goto
  <2> QED
    BY <1>4, <2>2, <2>3 DEF TypeInv, TypeOK
<1>5. CASE leg[t] + 1 \notin DOMAIN plan[t]
  <2>1. Log(t, rows \cup IfFallback(t, "failure") \cup {Row("final_status", NoRail, "failure")})
    BY <1>5 DEF LegFails
  <2>2. audit' \in [Tx -> SUBSET AuditRows]
    BY <2>1, <1>2, <1>3, LogType
  <2>3. leg' = leg /\ pc' = [pc EXCEPT ![t] = "failed"]
    BY <1>5 DEF LegFails, Goto
  <2> QED
    BY <2>2, <2>3 DEF TypeInv, TypeOK
<1> QED
  BY <1>4, <1>5

\* A failed attempt: the same rail again, the next one, or the end.
LEMMA AttemptFailsType ==
    ASSUME TypeInv, NEW t \in Tx, pc[t] \in Trying, NEW used \in Nat, AttemptFails(t, used)
    PROVE  /\ leg' \in [Tx -> Nat]
           /\ audit' \in [Tx -> SUBSET AuditRows]
           /\ \/ pc' = [pc EXCEPT ![t] = "backoff"] /\ UNCHANGED leg
              \/ pc' = [pc EXCEPT ![t] = "failed"] /\ UNCHANGED leg
              \/ /\ pc' = [pc EXCEPT ![t] = "enter"]
                 /\ leg' = [leg EXCEPT ![t] = @ + 1]
                 /\ leg[t] + 1 \in DOMAIN plan[t]
<1> DEFINE rows == {Row("execution_attempt", Current(t), "retry")}
<1>1. rows \in SUBSET AuditRows
  BY CurrentIsRail, RowType
<1>2. CASE used < Attempts[Current(t)]
  <2>1. Log(t, rows) /\ Goto(t, "backoff") /\ UNCHANGED leg
    BY <1>2 DEF AttemptFails
  <2>2. audit' \in [Tx -> SUBSET AuditRows]
    BY <2>1, <1>1, LogType
  <2> QED
    BY <2>1, <2>2 DEF Goto, TypeInv, TypeOK
<1>3. CASE ~ (used < Attempts[Current(t)])
  <2>1. LegFails(t, rows)
    BY <1>3 DEF AttemptFails
  <2> QED
    BY <2>1, <1>1, LegFailsType
<1> QED
  BY <1>2, <1>3

LEMMA CountAttemptType ==
    ASSUME TypeInv, NEW t \in Tx, Current(t) \in Rail, CountAttempt(t)
    PROVE  tries' \in [Tx -> [Rail -> Nat]] /\ late' \in [Tx -> Nat]
<1> USE DEF CountAttempt, TypeInv, TypeOK
<1>1. tries' \in [Tx -> [Rail -> Nat]]
  OBVIOUS
<1>2. late' \in [Tx -> Nat]
  OBVIOUS
<1> QED
  BY <1>1, <1>2

LEMMA TypeInit == Init => TypeInv
<1>1. NewGeneration("closed") \in Breakers
  BY DEF NewGeneration, Breakers
<1>2. <<>> \in Seq(Rail)
  OBVIOUS
<1> QED
  BY <1>1, <1>2, SagaAssumption DEF Init, TypeInv, TypeOK, AtARail, Locations, Planning, Trying

\* The plan is a sequence of rails that starts with some rail.
LEMMA PlanType ==
    ASSUME TypeInv, NEW t \in Tx, candidates[t] # {},
           NEW order \in Bijection(1 .. Cardinality(candidates[t]), candidates[t])
    PROVE  /\ order \in Seq(Rail)
           /\ 1 \in DOMAIN order
           /\ order[1] \in Rail
<1>1. candidates[t] \subseteq Rail
  BY DEF TypeInv, TypeOK
<1>2. IsFiniteSet(candidates[t])
  BY <1>1, SagaAssumption, FS_Subset
<1>3. Cardinality(candidates[t]) \in Nat /\ Cardinality(candidates[t]) # 0
  BY <1>2, FS_CardinalityType, FS_EmptySet
<1>4. order \in [1 .. Cardinality(candidates[t]) -> Rail]
  BY <1>1 DEF Bijection, Injection
<1> QED
  BY <1>3, <1>4

\* Whether it goes on with its rail, takes the next one, or ends.
LEMMA MoveType ==
    ASSUME TypeInv, NEW t \in Tx, pc[t] \in Trying, UNCHANGED plan,
           \/ /\ \E l \in Trying \cup Over : pc' = [pc EXCEPT ![t] = l]
              /\ UNCHANGED leg
           \/ /\ pc' = [pc EXCEPT ![t] = "enter"]
              /\ leg' = [leg EXCEPT ![t] = @ + 1]
              /\ leg[t] + 1 \in DOMAIN plan[t]
    PROVE  /\ pc' \in [Tx -> Locations]
           /\ leg' \in [Tx -> Nat]
           /\ \A u \in Tx : AtARail(u)'
<1> USE DEF Locations, Planning, Trying, Over, TypeInv, TypeOK, AtARail
<1>1. CASE \E l \in Trying \cup Over : pc' = [pc EXCEPT ![t] = l] /\ UNCHANGED leg
  BY <1>1
<1>2. CASE /\ pc' = [pc EXCEPT ![t] = "enter"]
           /\ leg' = [leg EXCEPT ![t] = @ + 1]
           /\ leg[t] + 1 \in DOMAIN plan[t]
  <2>1. pc' \in [Tx -> Locations] /\ leg' \in [Tx -> Nat]
    BY <1>2
  <2>2. ASSUME NEW u \in Tx, u # t PROVE AtARail(u)'
    BY <1>2, <2>2
  <2>3. AtARail(t)'
    BY <1>2
  <2> QED
    BY <2>1, <2>2, <2>3
<1> QED
  BY <1>1, <1>2

LEMMA TypeStep == TypeInv /\ [Next]_vars => TypeInv'
<1> USE DEF Locations, Planning, Trying
<1> SUFFICES ASSUME TypeInv, [Next]_vars
             PROVE  TypeInv'
  OBVIOUS
<1>1. ASSUME NEW t \in Tx, Start(t)
      PROVE  TypeInv'
  <2>1. {Row("start", NoRail, "success"), Row("policy_check", NoRail, "pending")}
            \in SUBSET AuditRows
    BY RowType
  <2>2. audit' \in [Tx -> SUBSET AuditRows]
    BY <1>1, <2>1, LogType DEF Start
  <2> QED
    BY <1>1, <2>2 DEF Start, Goto, saga, money, TypeInv, TypeOK, AtARail
<1>2. ASSUME NEW t \in Tx, PolicyRejects(t)
      PROVE  TypeInv'
  <2>1. {Row("policy_check", NoRail, "failure")} \in SUBSET AuditRows
    BY RowType
  <2>2. audit' \in [Tx -> SUBSET AuditRows]
    BY <1>2, <2>1, LogType DEF PolicyRejects
  <2> QED
    BY <1>2, <2>2 DEF PolicyRejects, Goto, saga, money, TypeInv, TypeOK, AtARail
<1>3. ASSUME NEW t \in Tx, PolicyApproves(t)
      PROVE  TypeInv'
  <2>1. {Row("policy_check", NoRail, "success"), Row("routing", NoRail, "pending")}
            \in SUBSET AuditRows
    BY RowType
  <2>2. audit' \in [Tx -> SUBSET AuditRows]
    BY <1>3, <2>1, LogType DEF PolicyApproves
  <2> QED
    BY <1>3, <2>2 DEF PolicyApproves, Goto, money, TypeInv, TypeOK, AtARail
<1>4. ASSUME NEW t \in Tx, NEW r \in Rail, LookAt(t, r)
      PROVE  TypeInv'
  BY <1>4 DEF LookAt, money, TypeInv, TypeOK, AtARail
<1>5. ASSUME NEW t \in Tx, NoCandidates(t)
      PROVE  TypeInv'
  <2>1. {Row("routing", NoRail, "failure")} \in SUBSET AuditRows
    BY RowType
  <2>2. audit' \in [Tx -> SUBSET AuditRows]
    BY <1>5, <2>1, LogType DEF NoCandidates
  <2> QED
    BY <1>5, <2>2 DEF NoCandidates, Goto, saga, money, TypeInv, TypeOK, AtARail
<1>6. ASSUME NEW t \in Tx, MakePlan(t)
      PROVE  TypeInv'
  <2>1. PICK order \in Bijection(1 .. Cardinality(candidates[t]), candidates[t]) :
            /\ plan' = [plan EXCEPT ![t] = order]
            /\ Log(t, {Row("routing", order[1], "success")})
    BY <1>6 DEF MakePlan
  <2>2. order \in Seq(Rail) /\ 1 \in DOMAIN order /\ order[1] \in Rail
    BY <1>6, PlanType DEF MakePlan
  <2>3. {Row("routing", order[1], "success")} \in SUBSET AuditRows
    BY <2>2, RowType
  <2>4. audit' \in [Tx -> SUBSET AuditRows]
    BY <2>1, <2>3, LogType
  <2>5. /\ pc[t] = "routing"
        /\ pc' = [pc EXCEPT ![t] = "enter"]
        /\ UNCHANGED <<ctx, todo, candidates, leg, tries, answer, fresh, late, breaker,
                       money, crashes>>
    BY <1>6 DEF MakePlan, Goto
  <2>6. plan' \in [Tx -> Seq(Rail)] /\ plan'[t] = order
    BY <2>1, <2>2 DEF TypeInv, TypeOK
  <2> QED
    BY <2>1, <2>2, <2>4, <2>5, <2>6 DEF money, TypeInv, TypeOK, AtARail
<1>7. ASSUME NEW t \in Tx, EnterLeg(t)
      PROVE  TypeInv'
  <2>1. pc[t] \in Trying
    BY <1>7 DEF EnterLeg
  <2>2. IfFallback(t, "pending") \in SUBSET AuditRows
    BY <2>1, CurrentIsRail, RowType DEF IfFallback
  <2>3. CASE ctx[t] = "live"
    <3>1. audit' \in [Tx -> SUBSET AuditRows]
      BY <1>7, <2>3, <2>2, LogType DEF EnterLeg
    <3>2. pc' = [pc EXCEPT ![t] = "attempt"] /\ UNCHANGED leg /\ UNCHANGED plan
      BY <1>7, <2>3 DEF EnterLeg, Goto
    <3>3. pc' \in [Tx -> Locations] /\ leg' \in [Tx -> Nat] /\ \A u \in Tx : AtARail(u)'
      BY <2>1, <3>2, MoveType
    <3> QED
      BY <1>7, <3>1, <3>3 DEF EnterLeg, money, TypeInv, TypeOK
  <2>4. CASE ctx[t] # "live"
    <3>1. LegFails(t, IfFallback(t, "pending"))
      BY <1>7, <2>4 DEF EnterLeg
    <3>2. pc' \in [Tx -> Locations] /\ leg' \in [Tx -> Nat] /\ \A u \in Tx : AtARail(u)'
      BY <1>7, <2>1, <2>2, <3>1, LegFailsType, MoveType DEF EnterLeg, Over
    <3>3. audit' \in [Tx -> SUBSET AuditRows]
      BY <2>1, <2>2, <3>1, LegFailsType
    <3> QED
      BY <1>7, <3>2, <3>3 DEF EnterLeg, money, TypeInv, TypeOK
  <2> QED
    BY <2>3, <2>4
<1>8. ASSUME NEW t \in Tx, BackoffEnds(t)
      PROVE  TypeInv'
  <2>1. CASE ctx[t] = "live"
    BY <1>8, <2>1 DEF BackoffEnds, Goto, money, TypeInv, TypeOK, AtARail
  <2>2. CASE ctx[t] # "live"
    <3>1. LegFails(t, {}) /\ pc[t] \in Trying
      BY <1>8, <2>2 DEF BackoffEnds
    <3>2. /\ pc' \in [Tx -> Locations] /\ leg' \in [Tx -> Nat] /\ \A u \in Tx : AtARail(u)'
          /\ audit' \in [Tx -> SUBSET AuditRows]
      BY <1>8, <3>1, LegFailsType, MoveType DEF BackoffEnds, Over
    <3> QED
      BY <1>8, <3>2 DEF BackoffEnds, money, TypeInv, TypeOK
  <2> QED
    BY <2>1, <2>2
<1>9. ASSUME NEW t \in Tx, BeginAttempt(t)
      PROVE  TypeInv'
  <2>1. Current(t) \in Rail
    BY <1>9, CurrentIsRail DEF BeginAttempt
  <2>2. {Row("execution_attempt", Current(t), "pending")} \in SUBSET AuditRows
    BY <2>1, RowType
  <2>3. audit' \in [Tx -> SUBSET AuditRows]
    BY <1>9, <2>2, LogType DEF BeginAttempt
  <2>4. Admitted(breaker[Current(t)]) \in Breakers
    BY <2>1, BreakerType DEF TypeInv, TypeOK
  <2>5. pc' \in [Tx -> Locations] /\ leg' \in [Tx -> Nat] /\ \A u \in Tx : AtARail(u)'
    BY <1>9, MoveType DEF BeginAttempt, Goto, saga
  <2>6. tries' \in [Tx -> [Rail -> Nat]] /\ late' \in [Tx -> Nat]
    BY <1>9, <2>1, CountAttemptType DEF BeginAttempt
  <2> QED
    BY <1>9, <2>1, <2>3, <2>4, <2>5, <2>6 DEF BeginAttempt, saga, money, TypeInv, TypeOK
<1>10. ASSUME NEW t \in Tx, RefuseAttempt(t)
       PROVE  TypeInv'
  <2>1. Current(t) \in Rail /\ pc[t] \in Trying
    BY <1>10, CurrentIsRail DEF RefuseAttempt
  <2>2. tries[t][Current(t)] + 1 \in Nat
    BY <2>1 DEF TypeInv, TypeOK
  <2>3. AttemptFails(t, tries[t][Current(t)] + 1)
    BY <1>10 DEF RefuseAttempt
  <2>4. /\ pc' \in [Tx -> Locations] /\ leg' \in [Tx -> Nat] /\ \A u \in Tx : AtARail(u)'
        /\ audit' \in [Tx -> SUBSET AuditRows]
    BY <1>10, <2>1, <2>2, <2>3, AttemptFailsType, MoveType DEF RefuseAttempt, Over
  <2>5. tries' \in [Tx -> [Rail -> Nat]] /\ late' \in [Tx -> Nat]
    BY <1>10, <2>1, CountAttemptType DEF RefuseAttempt
  <2> QED
    BY <1>10, <2>4, <2>5 DEF RefuseAttempt, money, TypeInv, TypeOK
<1>11. ASSUME NEW t \in Tx, NEW o \in Outcome, RailActs(t, o)
       PROVE  TypeInv'
  <2>1. Current(t) \in Rail
    BY <1>11, CurrentIsRail DEF RailActs
  <2>2. pc' \in [Tx -> Locations] /\ leg' \in [Tx -> Nat] /\ \A u \in Tx : AtARail(u)'
    BY <1>11, MoveType DEF RailActs, Goto, saga
  <2>3. charges' \in [Tx -> [Rail -> Nat]]
    BY <1>11, <2>1 DEF RailActs, TypeInv, TypeOK
  <2> QED
    BY <1>11, <2>2, <2>3 DEF RailActs, saga, TypeInv, TypeOK
<1>12. ASSUME NEW t \in Tx, pc[t] = "answered", Settle(t)
       PROVE  /\ breaker' \in [Rail -> Breakers]
              /\ fresh' \in [Tx -> BOOLEAN]
              /\ answer' \in [Tx -> Outcome \cup {"none"}]
  <2>1. Current(t) \in Rail
    BY <1>12, CurrentIsRail
  <2>2. AfterRequest(breaker[Current(t)], answer[t] \in Succeeds) \in Breakers
    <3>1. (answer[t] \in Succeeds) \in BOOLEAN /\ breaker[Current(t)] \in Breakers
      BY <2>1 DEF TypeInv, TypeOK
    <3> QED
      BY <3>1, BreakerType
  <2>3. breaker' \in [Rail -> Breakers]
    BY <1>12, <2>1, <2>2 DEF Settle, TypeInv, TypeOK
  <2>4. fresh' \in [Tx -> BOOLEAN]
    BY <1>12 DEF Settle, TypeInv, TypeOK
  <2> QED
    BY <1>12, <2>3, <2>4 DEF Settle, TypeInv, TypeOK
<1>13. ASSUME NEW t \in Tx, ReturnResult(t)
       PROVE  TypeInv'
  <2>1. Current(t) \in Rail /\ pc[t] = "answered" /\ Settle(t)
    BY <1>13, CurrentIsRail DEF ReturnResult
  <2> DEFINE id == ProviderID[Current(t)][answer[t]]
             rows == {Row("execution_attempt", Current(t), "success"),
               Row("metering_update", id, "pending"),
               Row("metering_update", id, "success"),
               Row("final_status", id, "success")} \cup IfFallback(t, "success")
  <2>2. rows \in SUBSET AuditRows
    <3>1. id \in ProviderIDs
      BY <1>13, <2>1, SagaAssumption DEF ReturnResult
    <3> QED
      BY <2>1, <3>1, RowType DEF IfFallback
  <2>3. Log(t, rows)
    BY <1>13 DEF ReturnResult
  <2>4. audit' \in [Tx -> SUBSET AuditRows]
    BY <2>2, <2>3, LogType
  <2> QED
    BY <1>13, <2>1, <1>12, <2>4 DEF ReturnResult, Goto, saga, TypeInv, TypeOK, AtARail
<1>14. ASSUME NEW t \in Tx, ReturnError(t)
       PROVE  TypeInv'
  <2>1. /\ Current(t) \in Rail /\ pc[t] = "answered" /\ Settle(t)
        /\ AttemptFails(t, tries[t][Current(t)])
    BY <1>14, CurrentIsRail DEF ReturnError
  <2>2. tries[t][Current(t)] \in Nat
    BY <2>1 DEF TypeInv, TypeOK
  <2>3. /\ pc' \in [Tx -> Locations] /\ leg' \in [Tx -> Nat] /\ \A u \in Tx : AtARail(u)'
        /\ audit' \in [Tx -> SUBSET AuditRows]
    BY <1>14, <2>1, <2>2, AttemptFailsType, MoveType DEF ReturnError, Over
  <2> QED
    BY <1>14, <2>1, <1>12, <2>3 DEF ReturnError, money, TypeInv, TypeOK
<1>15. ASSUME NEW t \in Tx, ReturnPanic(t)
       PROVE  TypeInv'
  BY <1>15, <1>12 DEF ReturnPanic, Goto, saga, money, TypeInv, TypeOK, AtARail
<1>16. ASSUME NEW t \in Tx, ContextEnds(t)
       PROVE  TypeInv'
  BY <1>16 DEF ContextEnds, saga, money, TypeInv, TypeOK, AtARail
<1>17. ASSUME NEW t \in Tx, NEW outcome \in {"published", "dropped"}, PublishEvent(t, outcome)
       PROVE  TypeInv'
  BY <1>17 DEF PublishEvent, saga, TypeInv, TypeOK, AtARail
<1>18. ASSUME NEW r \in Rail, IntervalElapses(r) \/ TimeoutElapses(r)
       PROVE  TypeInv'
  <2>1. NewGeneration("closed") \in Breakers /\ NewGeneration("halfopen") \in Breakers
    BY DEF NewGeneration, Breakers
  <2>2. CASE IntervalElapses(r)
    BY <2>1, <2>2 DEF IntervalElapses, saga, money, TypeInv, TypeOK, AtARail
  <2>3. CASE TimeoutElapses(r)
    BY <2>1, <2>3 DEF TimeoutElapses, saga, money, TypeInv, TypeOK, AtARail
  <2> QED
    BY <1>18, <2>2, <2>3
<1>19. CASE Crash
  <2>1. NewGeneration("closed") \in Breakers
    BY DEF NewGeneration, Breakers
  <2> QED
    BY <1>19, <2>1 DEF Crash, Running, Over, saga, TypeInv, TypeOK, AtARail
<1>20. CASE UNCHANGED vars
  BY <1>20 DEF vars, saga, money, TypeInv, TypeOK, AtARail
<1> QED
  BY <1>1, <1>2, <1>3, <1>4, <1>5, <1>6, <1>7, <1>8, <1>9, <1>10, <1>11, <1>13, <1>14,
     <1>15, <1>16, <1>17, <1>18, <1>19, <1>20 DEF Next, Step

\* Every variable keeps its type, whatever the rails, breakers and clients do.
THEOREM TypeCorrect == Spec => []TypeOK
<1>1. TypeInv => TypeOK
  BY DEF TypeInv
<1> QED
  BY <1>1, TypeInit, TypeStep, PTL DEF Spec
-----------------------------------------------------------------------------
(* What is charged.  ChargedOnce speaks of a rail that has been charged;   *)
(* the invariant that is inductive says, location by location, what can    *)
(* have been charged so far, and what the answer under way stands for.     *)

NothingCertain(t) == \A r \in Certain(t) : charges[t][r] = 0
OnlyOn(t, r) == \A q \in Certain(t) : charges[t][q] = 0 \/ (q = r /\ charges[t][q] = 1)
PaidAnswer(t) == pc[t] = "answered" /\ answer[t] = "paid"

Money(t) ==
    /\ pc[t] = "answered" => answer[t] \in Outcomes[t][Current(t)]
    /\ pc[t] = "answered" /\ answer[t] \in Charging => charges[t][Current(t)] > 0
    /\ pc[t] \notin {"done", "abandoned"} /\ ~ PaidAnswer(t) => NothingCertain(t)
    /\ PaidAnswer(t) => OnlyOn(t, Current(t))
    /\ pc[t] = "done" => OnlyOn(t, provider[t])
    /\ pc[t] = "abandoned" => \E r \in Rail \cup {NoRail} : OnlyOn(t, r)
    /\ billing[t] # "none" => pc[t] = "done"

MoneyInv == \A t \in Tx : Money(t)

\* What Money(t) looks at.
Same(t) ==
    /\ pc'[t] = pc[t] /\ answer'[t] = answer[t]
    /\ plan'[t] = plan[t] /\ leg'[t] = leg[t]
    /\ charges'[t] = charges[t] /\ provider'[t] = provider[t] /\ billing'[t] = billing[t]

LEMMA MoneySame == ASSUME NEW t \in Tx, Money(t), Same(t) PROVE Money(t)'
BY DEF Same, Money, PaidAnswer, NothingCertain, OnlyOn, Current, Certain, Unsure

\* A step inside a saga that neither starts nor ends with a rail's answer.
LEMMA MoneyQuiet ==
    ASSUME NEW t \in Tx, Money(t), ~ PaidAnswer(t),
           pc[t] \notin {"done", "abandoned"},
           pc'[t] \notin {"answered", "done", "abandoned"},
           charges' = charges, billing' = billing
    PROVE  Money(t)'
BY DEF Money, PaidAnswer, NothingCertain, OnlyOn, Certain, Unsure

\* The goroutine of one transaction leaves the others' alone.
LEMMA StepFrame ==
    ASSUME TypeInv, NEW t \in Tx, NEW u \in Tx, u # t, Step(t)
    PROVE  Same(u)
<1> USE DEF Same, TypeInv, TypeOK, saga, money
<1>1. ASSUME Start(t) \/ PolicyRejects(t) \/ PolicyApproves(t) \/ NoCandidates(t) PROVE Same(u)
  BY <1>1 DEF Start, PolicyRejects, PolicyApproves, NoCandidates, Goto
<1>2. ASSUME NEW r \in Rail, LookAt(t, r) PROVE Same(u)
  BY <1>2 DEF LookAt
<1>3. ASSUME MakePlan(t) PROVE Same(u)
  BY <1>3 DEF MakePlan, Goto
<1>4. ASSUME NEW rows, LegFails(t, rows) PROVE pc'[u] = pc[u] /\ leg'[u] = leg[u]
  BY <1>4 DEF LegFails, Goto
<1>5. ASSUME NEW used, AttemptFails(t, used) PROVE pc'[u] = pc[u] /\ leg'[u] = leg[u]
  BY <1>5, <1>4 DEF AttemptFails, Goto
<1>6. ASSUME EnterLeg(t) PROVE Same(u)
  BY <1>6, <1>4 DEF EnterLeg, Goto
<1>7. ASSUME BackoffEnds(t) PROVE Same(u)
  BY <1>7, <1>4 DEF BackoffEnds, Goto
<1>8. ASSUME BeginAttempt(t) PROVE Same(u)
  BY <1>8 DEF BeginAttempt, Goto
<1>9. ASSUME RefuseAttempt(t) PROVE Same(u)
  BY <1>9, <1>5 DEF RefuseAttempt
<1>10. ASSUME NEW o \in Outcome, RailActs(t, o) PROVE Same(u)
  BY <1>10 DEF RailActs, Goto
<1>11. ASSUME Settle(t) PROVE answer'[u] = answer[u]
  BY <1>11 DEF Settle
<1>12. ASSUME ReturnResult(t) PROVE Same(u)
  BY <1>12, <1>11 DEF ReturnResult, Goto
<1>13. ASSUME ReturnError(t) PROVE Same(u)
  BY <1>13, <1>5, <1>11 DEF ReturnError
<1>14. ASSUME ReturnPanic(t) PROVE Same(u)
  BY <1>14, <1>11 DEF ReturnPanic, Goto
<1> QED
  BY <1>1, <1>2, <1>3, <1>6, <1>7, <1>8, <1>9, <1>10, <1>12, <1>13, <1>14 DEF Step

\* Before the rail is asked, a step of the saga leaves the money alone.
LEMMA QuietSteps ==
    ASSUME TypeInv, MoneyInv, NEW t \in Tx,
           \/ Start(t) \/ PolicyRejects(t) \/ PolicyApproves(t) \/ (\E r \in Rail : LookAt(t, r))
           \/ NoCandidates(t) \/ MakePlan(t) \/ EnterLeg(t) \/ BackoffEnds(t)
           \/ BeginAttempt(t) \/ RefuseAttempt(t) \/ ReturnError(t)
    PROVE  /\ Money(t)'
           /\ charges' = charges /\ billing' = billing /\ provider' = provider
           /\ pc[t] \notin Over
           /\ pc'[t] \notin {"answered", "done", "abandoned"}
           /\ ~ PaidAnswer(t)
           /\ pc[t] = "idle" <=> Start(t)
           /\ pc'[t] # "idle"
<1> USE DEF money, Over, PaidAnswer
<1>1. pc \in [Tx -> Locations]
  BY DEF TypeInv, TypeOK
<1>2. ASSUME NEW rows, LegFails(t, rows) PROVE pc'[t] \in {"enter", "failed"}
  BY <1>1, <1>2 DEF LegFails, Goto
<1>3. ASSUME NEW used, AttemptFails(t, used) PROVE pc'[t] \in {"enter", "failed", "backoff"}
  BY <1>1, <1>2, <1>3 DEF AttemptFails, Goto
<1> DEFINE Calm == /\ charges' = charges /\ billing' = billing /\ provider' = provider
                   /\ pc[t] \notin Over /\ ~ PaidAnswer(t)
                   /\ pc'[t] \notin {"answered", "done", "abandoned", "idle"}
                   /\ (pc[t] = "idle" <=> Start(t))
<1>4. CASE Start(t) \/ PolicyRejects(t) \/ PolicyApproves(t) \/ NoCandidates(t)
  <2>1. Calm
    BY <1>1, <1>4 DEF Start, PolicyRejects, PolicyApproves, NoCandidates, Goto
  <2> QED BY <2>1, MoneyQuiet DEF MoneyInv
<1>5. CASE (\E r \in Rail : LookAt(t, r)) \/ MakePlan(t) \/ BeginAttempt(t)
  <2>1. Calm
    BY <1>1, <1>5 DEF LookAt, MakePlan, BeginAttempt, Goto, Start
  <2> QED BY <2>1, MoneyQuiet DEF MoneyInv
<1>6. CASE EnterLeg(t) \/ BackoffEnds(t)
  <2>1. Calm
    BY <1>1, <1>2, <1>6 DEF EnterLeg, BackoffEnds, Goto, Start
  <2> QED BY <2>1, MoneyQuiet DEF MoneyInv
<1>7. CASE RefuseAttempt(t) \/ ReturnError(t)
  <2>1. Calm
    BY <1>1, <1>3, <1>7 DEF RefuseAttempt, ReturnError, Start
  <2> QED BY <2>1, MoneyQuiet DEF MoneyInv
<1> QED
  BY <1>4, <1>5, <1>6, <1>7

\* The rail acts: nothing certain had been charged, now at most this rail is.
LEMMA RailActsMoney ==
    ASSUME TypeInv, MoneyInv, NEW t \in Tx, NEW o \in Outcome, RailActs(t, o)
    PROVE  Money(t)'
<1> DEFINE r == Current(t)
<1>1. /\ pc[t] = "inflight" /\ pc'[t] = "answered"
      /\ answer'[t] = o /\ o \in Outcomes[t][r] /\ r \in Rail
      /\ Current(t)' = r
      /\ billing' = billing /\ provider' = provider
  BY CurrentIsRail DEF RailActs, Goto, TypeInv, TypeOK, Trying, Current, saga
<1>2. /\ charges \in [Tx -> [Rail -> Nat]]
      /\ o \in Charging => charges'[t] = [charges[t] EXCEPT ![r] = @ + 1]
      /\ o \notin Charging => charges'[t] = charges[t]
  BY <1>1 DEF RailActs, TypeInv, TypeOK
<1>3. NothingCertain(t) /\ billing[t] = "none"
  BY <1>1 DEF MoneyInv, Money, PaidAnswer
<1>4. o \in Charging => charges'[t][r] > 0
  BY <1>1, <1>2
<1>5. CASE o = "paid"
  <2>1. OnlyOn(t, Current(t))'
    BY <1>1, <1>2, <1>3, <1>5 DEF OnlyOn, NothingCertain, Certain, Unsure, Charging
  <2> QED
    BY <1>1, <1>3, <1>4, <1>5, <2>1 DEF Money, PaidAnswer
<1>6. CASE o # "paid"
  <2>1. o \in Charging => r \in Unsure(t)
    BY <1>1, <1>6 DEF Charging, Unsure
  <2>2. NothingCertain(t)'
    BY <1>1, <1>2, <1>3, <2>1 DEF NothingCertain, Certain, Unsure
  <2> QED
    BY <1>1, <1>3, <1>4, <1>6, <2>2 DEF Money, PaidAnswer
<1> QED
  BY <1>5, <1>6

\* The result is returned: if a certain rail was charged, it is the one named.
LEMMA ReturnResultMoney ==
    ASSUME TypeInv, MoneyInv, NEW t \in Tx, ReturnResult(t)
    PROVE  Money(t)'
<1>1. /\ pc[t] = "answered" /\ answer[t] \in Succeeds
      /\ pc'[t] = "done" /\ provider'[t] = Current(t) /\ charges' = charges
  BY DEF ReturnResult, Goto, TypeInv, TypeOK
<1>2. OnlyOn(t, Current(t))
  BY <1>1 DEF MoneyInv, Money, PaidAnswer, OnlyOn, NothingCertain
<1>3. OnlyOn(t, provider[t])'
  BY <1>1, <1>2 DEF OnlyOn, Certain, Unsure
<1> QED
  BY <1>1, <1>3 DEF Money, PaidAnswer

\* A saga given up by a panic or a crash keeps what it had charged.
LEMMA AbandonMoney ==
    ASSUME NEW t \in Tx, Money(t), pc[t] \notin {"done", "abandoned"},
           pc'[t] = "abandoned", charges' = charges, billing'[t] = billing[t]
    PROVE  Money(t)'
<1>1. \E r \in Rail \cup {NoRail} : OnlyOn(t, r)
  <2>1. CASE PaidAnswer(t)
    <3>1. OnlyOn(t, Current(t))
      BY <2>1 DEF Money
    <3>2. CASE Current(t) \in Rail
      BY <3>1, <3>2
    <3>3. CASE Current(t) \notin Rail
      BY <3>1, <3>3 DEF OnlyOn, Certain
    <3> QED BY <3>2, <3>3
  <2>2. CASE ~ PaidAnswer(t)
    BY <2>2 DEF Money, NothingCertain, OnlyOn
  <2> QED
    BY <2>1, <2>2
<1>2. \E r \in Rail \cup {NoRail} : OnlyOn(t, r)'
  BY <1>1 DEF OnlyOn, Certain, Unsure
<1> QED
  BY <1>2 DEF Money, PaidAnswer

LEMMA MoneyInit == Init => MoneyInv
BY DEF Init, MoneyInv, Money, PaidAnswer, NothingCertain, Certain, Unsure

LEMMA MoneyStep == TypeInv /\ MoneyInv /\ [Next]_vars => MoneyInv'
<1> SUFFICES ASSUME TypeInv, MoneyInv, [Next]_vars
             PROVE  MoneyInv'
  OBVIOUS
<1>1. ASSUME NEW t \in Tx, Step(t)
      PROVE  MoneyInv'
  <2>1. Money(t)'
    <3>1. ASSUME ReturnPanic(t) PROVE Money(t)'
      <4>1. /\ pc[t] = "answered" /\ pc'[t] = "abandoned"
            /\ charges' = charges /\ billing'[t] = billing[t]
        BY <3>1 DEF ReturnPanic, Goto, money, TypeInv, TypeOK
      <4> QED
        BY <4>1, AbandonMoney DEF MoneyInv
    <3> QED
      BY <1>1, <3>1, QuietSteps, RailActsMoney, ReturnResultMoney DEF Step
  <2>2. ASSUME NEW u \in Tx, u # t
        PROVE  Money(u)'
    BY <1>1, <2>2, StepFrame, MoneySame DEF MoneyInv
  <2> QED
    BY <2>1, <2>2 DEF MoneyInv
<1>2. ASSUME NEW t \in Tx, ContextEnds(t)
      PROVE  MoneyInv'
  <2>1. \A u \in Tx : Same(u)
    BY <1>2 DEF ContextEnds, Same, saga, money
  <2> QED
    BY <2>1, MoneySame DEF MoneyInv
<1>3. ASSUME NEW t \in Tx, NEW outcome \in {"published", "dropped"}, PublishEvent(t, outcome)
      PROVE  MoneyInv'
  <2>1. /\ pc' = pc /\ answer' = answer /\ charges' = charges /\ provider' = provider
        /\ \A u \in Tx : Current(u)' = Current(u)
        /\ \A u \in Tx : billing'[u] # "none" => billing[u] # "none"
    BY <1>3 DEF PublishEvent, Current, saga, TypeInv, TypeOK
  <2> QED
    BY <2>1 DEF MoneyInv, Money, PaidAnswer, NothingCertain, OnlyOn, Certain, Unsure
<1>4. ASSUME NEW r \in Rail, IntervalElapses(r) \/ TimeoutElapses(r)
      PROVE  MoneyInv'
  <2>1. \A u \in Tx : Same(u)
    BY <1>4 DEF IntervalElapses, TimeoutElapses, Same, saga, money
  <2> QED
    BY <2>1, MoneySame DEF MoneyInv
<1>5. CASE Crash
  <2> SUFFICES ASSUME NEW t \in Tx
               PROVE  Money(t)'
    BY DEF MoneyInv
  <2>1. Money(t) /\ billing[t] \in {"none", "sent", "published", "dropped"}
    BY DEF MoneyInv, TypeInv, TypeOK
  <2>2. CASE Running(t)
    <3>1. /\ pc[t] \notin {"done", "abandoned"} /\ pc'[t] = "abandoned"
          /\ charges' = charges
      BY <1>5, <2>2 DEF Crash, Running, Over
    <3>2. billing'[t] = billing[t]
      BY <1>5, <2>1, <3>1 DEF Crash, Money
    <3> QED
      BY <2>1, <3>1, <3>2, AbandonMoney
  <2>3. CASE ~ Running(t)
    <3>1. /\ pc[t] \in Over \cup {"idle"} /\ pc'[t] = pc[t]
          /\ charges' = charges /\ provider' = provider
          /\ billing'[t] # "none" => billing[t] # "none"
      BY <1>5, <2>1, <2>3 DEF Crash, Running
    <3> QED
      BY <2>1, <3>1 DEF Over, Money, PaidAnswer, NothingCertain, OnlyOn, Certain, Unsure
  <2> QED
    BY <2>2, <2>3
<1>6. CASE UNCHANGED vars
  <2>1. \A u \in Tx : Same(u)
    BY <1>6 DEF vars, Same, saga, money
  <2> QED
    BY <2>1, MoneySame DEF MoneyInv
<1> QED
  BY <1>1, <1>2, <1>3, <1>4, <1>5, <1>6 DEF Next

\* Retries, fallbacks, shared breakers, timeouts and crashes never make a
\* rail that reports what it did charge twice, nor two of them charge.
THEOREM NeverChargedTwice == Spec => []ChargedOnce
<1>1. TypeInv /\ MoneyInv => ChargedOnce
  <2> SUFFICES ASSUME TypeInv, MoneyInv, NEW t \in Tx, NEW r \in Certain(t), charges[t][r] > 0
               PROVE  /\ charges[t][r] = 1
                      /\ \A q \in Certain(t) \ {r} : charges[t][q] = 0
                      /\ \/ pc[t] = "answered" /\ Current(t) = r /\ answer[t] = "paid"
                         \/ pc[t] = "done" /\ provider[t] = r
                         \/ pc[t] = "abandoned"
    BY DEF ChargedOnce
  <2>1. charges[t][r] # 0
    BY DEF TypeInv, TypeOK, Certain
  <2>2. \A q : OnlyOn(t, q) => /\ q = r /\ charges[t][r] = 1
                               /\ \A p \in Certain(t) \ {r} : charges[t][p] = 0
    BY <2>1 DEF OnlyOn
  <2>3. ~ NothingCertain(t)
    BY <2>1 DEF NothingCertain
  <2> QED
    BY <2>2, <2>3 DEF MoneyInv, Money, PaidAnswer
<1>2. Init => TypeInv /\ MoneyInv
  BY TypeInit, MoneyInit
<1>3. TypeInv /\ MoneyInv /\ [Next]_vars => TypeInv' /\ MoneyInv'
  BY TypeStep, MoneyStep
<1> QED
  BY <1>1, <1>2, <1>3, PTL DEF Spec
-----------------------------------------------------------------------------
(* The saga implements PaymentContract.                                    *)

Statuses == [t \in Tx |-> Status(t)]

LEMMA StatusMoves ==
    ASSUME TypeInv, NEW t \in Tx, \A u \in Tx : u # t => pc'[u] = pc[u]
    PROVE  Statuses' = [Statuses EXCEPT ![t] = Status(t)']
BY DEF Statuses, Status

LEMMA StatusStays ==
    ASSUME \A u \in Tx : Status(u)' = Status(u)
    PROVE  Statuses' = Statuses
BY DEF Statuses

LEMMA ContractInit == Init => Contract!CInit
BY DEF Init, Contract!CInit, Status

\* Nothing but the status of t changes.
LEMMA StatusOnly ==
    ASSUME TypeInv, TypeInv', MoneyInv, NEW t \in Tx,
           \A u \in Tx : u # t => pc'[u] = pc[u],
           charges' = charges, billing' = billing, provider' = provider,
           pc[t] \notin Over, ~ PaidAnswer(t), pc'[t] \notin {"done", "abandoned", "idle"},
           pc[t] = "idle" => pc'[t] \notin Over
    PROVE  [Contract!CNext]_Contract!contractVars
<1> USE DEF Over
<1>1. Statuses' = [Statuses EXCEPT ![t] = Status(t)']
  BY StatusMoves
<1>2. pc[t] \in Locations /\ pc'[t] \in Locations
  BY DEF TypeInv, TypeOK
<1>3. CASE pc[t] = "idle"
  <2>1. Status(t) = "new" /\ Status(t)' = "open"
    BY <1>2, <1>3 DEF Status, Locations
  <2>2. Contract!Open(t)
    BY <1>1, <2>1 DEF Contract!Open, Statuses
  <2> QED
    BY <2>2 DEF Contract!CNext
<1>4. CASE pc[t] # "idle" /\ pc'[t] = "failed"
  <2>1. Status(t) = "open" /\ Status(t)' = "failed"
    BY <1>2, <1>4 DEF Status, Locations
  <2>2. NothingCertain(t)
    BY DEF MoneyInv, Money
  <2>3. Contract!NothingCertain(t)
    BY <2>2 DEF NothingCertain, Contract!NothingCertain, Certain
  <2>4. Contract!Fail(t)
    BY <1>1, <2>1, <2>3 DEF Contract!Fail, Statuses
  <2> QED
    BY <2>4 DEF Contract!CNext
<1>5. CASE pc[t] # "idle" /\ pc'[t] # "failed"
  <2>1. Status(t) = "open" /\ Status(t)' = "open"
    BY <1>2, <1>5 DEF Status, Locations
  <2>2. Statuses' = Statuses
    BY <1>1, <2>1 DEF Statuses
  <2> QED
    BY <2>2 DEF Contract!contractVars, Statuses
<1> QED
  BY <1>3, <1>4, <1>5

LEMMA ContractStep ==
    ASSUME TypeInv, TypeInv', MoneyInv, [Next]_vars
    PROVE  [Contract!CNext]_Contract!contractVars
<1>1. ASSUME NEW t \in Tx, Step(t)
      PROVE  [Contract!CNext]_Contract!contractVars
  <2>1. \A u \in Tx : u # t => Same(u)
    BY <1>1, StepFrame
  <2>2. Statuses' = [Statuses EXCEPT ![t] = Status(t)']
    BY <2>1, StatusMoves DEF Same
  <2>3. CASE \E o \in Outcome : RailActs(t, o)
    <3>1. PICK o \in Outcome : RailActs(t, o)
      BY <2>3
    <3>2. pc[t] = "inflight" /\ pc'[t] = "answered" /\ Current(t) \in Rail
      BY <3>1, CurrentIsRail DEF RailActs, Goto, TypeInv, TypeOK, Trying
    <3>3. Status(t) = "open" /\ Status(t)' = "open"
      BY <3>2 DEF Status
    <3>4. Statuses' = Statuses
      BY <2>2, <3>3 DEF Statuses
    <3>5. Contract!NothingCertain(t)
      BY <3>2 DEF MoneyInv, Money, PaidAnswer, NothingCertain, Contract!NothingCertain, Certain
    <3>6. CASE o \in Charging
      <4>1. Contract!Charge(t, Current(t))
        BY <3>1, <3>3, <3>4, <3>5, <3>6 DEF RailActs, Contract!Charge, Statuses
      <4> QED
        BY <4>1, <3>2 DEF Contract!CNext
    <3>7. CASE o \notin Charging
      BY <3>1, <3>4, <3>7 DEF RailActs, Contract!contractVars, Statuses
    <3> QED
      BY <3>6, <3>7
  <2>4. CASE ReturnResult(t)
    <3>1. /\ pc[t] = "answered" /\ answer[t] \in Succeeds /\ pc'[t] = "done"
          /\ Current(t) \in Rail
          /\ provider' = [provider EXCEPT ![t] = Current(t)]
          /\ billing' = [billing EXCEPT ![t] = "sent"]
          /\ charges' = charges
      BY <2>4, CurrentIsRail DEF ReturnResult, Goto, TypeInv, TypeOK, Trying
    <3>2. Status(t) = "open" /\ Status(t)' = "executed"
      BY <3>1 DEF Status
    <3>3. /\ answer[t] = "unpaid" => "unpaid" \in Outcomes[t][Current(t)]
          /\ answer[t] = "paid" => charges[t][Current(t)] > 0
      BY <3>1 DEF MoneyInv, Money, Charging
    <3>4. OnlyOn(t, Current(t))
      BY <3>1 DEF MoneyInv, Money, PaidAnswer, NothingCertain, OnlyOn
    <3>5. \A q \in Rail \ (Unsure(t) \cup {Current(t)}) : charges[t][q] = 0
      BY <3>4 DEF OnlyOn, Certain
    <3>6. Contract!Execute(t, Current(t))
      BY <2>2, <3>1, <3>2, <3>3, <3>5 DEF Contract!Execute, Statuses, Succeeds
    <3> QED
      BY <3>1, <3>6 DEF Contract!CNext
  <2>5. CASE ReturnPanic(t)
    <3>1. /\ pc[t] = "answered" /\ pc'[t] = "abandoned"
          /\ charges' = charges /\ provider' = provider /\ billing' = billing
      BY <2>5 DEF ReturnPanic, Goto, money, TypeInv, TypeOK
    <3>2. Status(t) = "open" /\ Status(t)' = "abandoned"
      BY <3>1 DEF Status
    <3>3. Contract!NothingCertain(t)
      BY <2>5, <3>1 DEF ReturnPanic, MoneyInv, Money, PaidAnswer, NothingCertain,
                        Contract!NothingCertain, Certain
    <3>4. Contract!Abandon(t)
      BY <2>2, <3>1, <3>2, <3>3 DEF Contract!Abandon, Statuses
    <3> QED
      BY <3>4 DEF Contract!CNext
  <2>6. CASE \/ Start(t) \/ PolicyRejects(t) \/ PolicyApproves(t) \/ (\E r \in Rail : LookAt(t, r))
             \/ NoCandidates(t) \/ MakePlan(t) \/ EnterLeg(t) \/ BackoffEnds(t)
             \/ BeginAttempt(t) \/ RefuseAttempt(t) \/ ReturnError(t)
    <3>1. /\ charges' = charges /\ billing' = billing /\ provider' = provider
          /\ pc[t] \notin Over /\ pc'[t] \notin {"answered", "done", "abandoned"}
          /\ ~ PaidAnswer(t) /\ (pc[t] = "idle" <=> Start(t)) /\ pc'[t] # "idle"
      BY <2>6, QuietSteps
    <3>2. pc[t] = "idle" => pc'[t] \notin Over
      BY <3>1 DEF Start, Goto, Over, TypeInv, TypeOK
    <3> QED
      BY <2>1, <3>1, <3>2, StatusOnly DEF Same
  <2> QED
    BY <1>1, <2>3, <2>4, <2>5, <2>6 DEF Step
<1>2. ASSUME NEW t \in Tx, ContextEnds(t)
      PROVE  [Contract!CNext]_Contract!contractVars
  BY <1>2, StatusStays DEF ContextEnds, Status, Statuses, money, Contract!contractVars
<1>3. ASSUME NEW t \in Tx, NEW outcome \in {"published", "dropped"}, PublishEvent(t, outcome)
      PROVE  [Contract!CNext]_Contract!contractVars
  <2>1. Statuses' = Statuses
    BY <1>3, StatusStays DEF PublishEvent, Status
  <2>2. Status(t) = "executed"
    BY <1>3 DEF PublishEvent, MoneyInv, Money, Status
  <2>3. Contract!Bill(t, outcome)
    BY <1>3, <2>1, <2>2 DEF PublishEvent, Contract!Bill, Statuses
  <2> QED
    BY <2>3 DEF Contract!CNext
<1>4. ASSUME NEW r \in Rail, IntervalElapses(r) \/ TimeoutElapses(r)
      PROVE  [Contract!CNext]_Contract!contractVars
  BY <1>4, StatusStays
     DEF IntervalElapses, TimeoutElapses, Status, Statuses, money, Contract!contractVars
<1>5. CASE Crash
  <2>1. ASSUME NEW t \in Tx
        PROVE  Status(t)' = IF Status(t) = "open" THEN "abandoned" ELSE Status(t)
    <3>1. /\ pc[t] \in Locations
          /\ pc'[t] = IF Running(t) THEN "abandoned" ELSE pc[t]
      BY <1>5 DEF Crash, TypeInv, TypeOK
    <3> QED
      BY <3>1 DEF Running, Over, Status, Locations
  <2>2. Statuses' = [t \in Tx |-> IF Statuses[t] = "open" THEN "abandoned" ELSE Statuses[t]]
    BY <2>1 DEF Statuses
  <2>3. Contract!Stop
    BY <1>5, <2>2 DEF Crash, Contract!Stop, Statuses
  <2> QED
    BY <2>3 DEF Contract!CNext
<1>6. CASE UNCHANGED vars
  BY <1>6, StatusStays DEF vars, Status, Statuses, money, Contract!contractVars
<1> QED
  BY <1>1, <1>2, <1>3, <1>4, <1>5, <1>6 DEF Next

\* Whatever the rails answer and whenever contexts end, breakers trip or the
\* process dies, each transaction keeps PaymentContract's promise.
THEOREM ContractKept == Spec => KeepsContract
<1>1. Init => TypeInv /\ MoneyInv
  BY TypeInit, MoneyInit
<1>2. TypeInv /\ MoneyInv /\ [Next]_vars => TypeInv' /\ MoneyInv'
  BY TypeStep, MoneyStep
<1>3. TypeInv /\ TypeInv' /\ MoneyInv /\ [Next]_vars => [Contract!CNext]_Contract!contractVars
  BY ContractStep
<1> QED
  BY <1>1, <1>2, <1>3, ContractInit, PTL DEF Spec, KeepsContract, Contract!CSpec
-----------------------------------------------------------------------------
(* The way of one transaction along its plan.                              *)

UsedUp(t, r) == tries[t][r] = Attempts[r]

Journey(t) ==
    /\ pc[t] \in Planning => plan[t] = <<>> /\ \A r \in Rail : tries[t][r] = 0
    /\ \A i, j \in DOMAIN plan[t] : plan[t][i] = plan[t][j] => i = j
    /\ \A i \in DOMAIN plan[t] : i > leg[t] => tries[t][plan[t][i]] = 0
    /\ ctx[t] = "live" => \A i \in DOMAIN plan[t] : i < leg[t] => UsedUp(t, plan[t][i])
    /\ ctx[t] = "live" /\ pc[t] = "failed" => \A i \in DOMAIN plan[t] : UsedUp(t, plan[t][i])
    /\ pc[t] = "enter" => tries[t][Current(t)] = 0
    /\ pc[t] \in {"attempt", "backoff"} => tries[t][Current(t)] < Attempts[Current(t)]
    /\ pc[t] \in {"inflight", "answered"} => tries[t][Current(t)] \in 1 .. Attempts[Current(t)]
    /\ late[t] <= 1
    /\ ctx[t] = "live" \/ pc[t] = "attempt" => late[t] = 0

\* What a row says is so, for a goroutine at l whose result names p, after
\* the attempts counted in n.
RowTrue(row, l, p, n) ==
    /\ row.step = "final_status" /\ row.status = "success" => l = "done"
    /\ row.step = "final_status" /\ row.status = "failure" => l = "failed"
    /\ row.step = "execution_attempt" /\ row.status = "success" => l = "done" /\ row.adapter = p
    /\ row.step = "execution_attempt" => row.adapter \in Rail /\ n[row.adapter] > 0

RowsTrue(t) == \A row \in audit[t] : RowTrue(row, pc[t], provider[t], tries[t])

TripInv == \A t \in Tx : Journey(t) /\ RowsTrue(t)

\* What they look at.
SameTrip(t) ==
    /\ pc'[t] = pc[t] /\ ctx'[t] = ctx[t] /\ plan'[t] = plan[t] /\ leg'[t] = leg[t]
    /\ tries'[t] = tries[t] /\ late'[t] = late[t]
    /\ provider'[t] = provider[t] /\ audit'[t] = audit[t]

LEMMA TripSame == ASSUME NEW t \in Tx, Journey(t), RowsTrue(t), SameTrip(t) PROVE Journey(t)' /\ RowsTrue(t)'
BY DEF SameTrip, Journey, RowsTrue, UsedUp, Current

LEMMA TripFrame ==
    ASSUME TypeInv, NEW t \in Tx, NEW u \in Tx, u # t, Step(t)
    PROVE  SameTrip(u)
<1> USE DEF SameTrip, TypeInv, TypeOK, saga, money
<1>0. ASSUME NEW rows, Log(t, rows) PROVE audit'[u] = audit[u]
  BY <1>0 DEF Log
<1>1. ASSUME Start(t) \/ PolicyRejects(t) \/ PolicyApproves(t) \/ NoCandidates(t) PROVE SameTrip(u)
  BY <1>0, <1>1 DEF Start, PolicyRejects, PolicyApproves, NoCandidates, Goto
<1>2. ASSUME NEW r \in Rail, LookAt(t, r) PROVE SameTrip(u)
  BY <1>2 DEF LookAt
<1>3. ASSUME MakePlan(t) PROVE SameTrip(u)
  BY <1>0, <1>3 DEF MakePlan, Goto
<1>4. ASSUME NEW rows, LegFails(t, rows)
      PROVE  pc'[u] = pc[u] /\ leg'[u] = leg[u] /\ audit'[u] = audit[u]
  BY <1>0, <1>4 DEF LegFails, Goto
<1>5. ASSUME NEW used, AttemptFails(t, used)
      PROVE  pc'[u] = pc[u] /\ leg'[u] = leg[u] /\ audit'[u] = audit[u]
  BY <1>0, <1>5, <1>4 DEF AttemptFails, Goto
<1>6. ASSUME EnterLeg(t) PROVE SameTrip(u)
  BY <1>0, <1>6, <1>4 DEF EnterLeg, Goto
<1>7. ASSUME BackoffEnds(t) PROVE SameTrip(u)
  BY <1>7, <1>4 DEF BackoffEnds, Goto
<1>8. ASSUME CountAttempt(t) PROVE tries'[u] = tries[u] /\ late'[u] = late[u]
  BY <1>8 DEF CountAttempt
<1>9. ASSUME BeginAttempt(t) PROVE SameTrip(u)
  BY <1>0, <1>8, <1>9 DEF BeginAttempt, Goto
<1>10. ASSUME RefuseAttempt(t) PROVE SameTrip(u)
  BY <1>10, <1>5, <1>8 DEF RefuseAttempt
<1>11. ASSUME NEW o \in Outcome, RailActs(t, o) PROVE SameTrip(u)
  BY <1>11 DEF RailActs, Goto
<1>12. ASSUME ReturnResult(t) PROVE SameTrip(u)
  BY <1>0, <1>12 DEF ReturnResult, Goto
<1>13. ASSUME ReturnError(t) PROVE SameTrip(u)
  BY <1>13, <1>5 DEF ReturnError
<1>14. ASSUME ReturnPanic(t) PROVE SameTrip(u)
  BY <1>14 DEF ReturnPanic, Goto
<1> QED
  BY <1>1, <1>2, <1>3, <1>6, <1>7, <1>9, <1>10, <1>11, <1>12, <1>13, <1>14 DEF Step

\* What the goroutine writes into the audit trail is all that is new in it.
LEMMA LogAdds ==
    ASSUME TypeInv, NEW t \in Tx, NEW rows, Log(t, rows)
    PROVE  audit'[t] \subseteq audit[t] \cup rows
<1>1. PICK kept \in SUBSET rows : audit' = [audit EXCEPT ![t] = @ \cup kept]
  BY LogKeeps
<1> QED
  BY <1>1 DEF TypeInv, TypeOK

\* Rows stay true while the goroutine goes on and counts its attempts.
LEMMA RowsGrow ==
    ASSUME NEW t \in Tx, RowsTrue(t), pc[t] \notin {"done", "failed"},
           \A r \in Rail : tries[t][r] > 0 => tries'[t][r] > 0,
           NEW rows, audit'[t] \subseteq audit[t] \cup rows,
           \A row \in rows : RowTrue(row, pc'[t], provider'[t], tries'[t])
    PROVE  RowsTrue(t)'
BY DEF RowsTrue, RowTrue

\* The goroutine gives up its rail.
LEMMA LegFailsTrip ==
    ASSUME TypeInv, NEW t \in Tx, pc[t] \in Trying, Journey(t), RowsTrue(t),
           NEW rows, LegFails(t, rows), plan' = plan, ctx' = ctx,
           \A row \in rows : RowTrue(row, "enter", provider'[t], tries'[t]),
           \A r \in Rail : tries[t][r] > 0 => tries'[t][r] > 0,
           \A r \in Rail \ {Current(t)} : tries'[t][r] = tries[t][r],
           ctx[t] = "live" => tries'[t][Current(t)] = Attempts[Current(t)] /\ late'[t] = 0,
           late'[t] <= 1
    PROVE  Journey(t)' /\ RowsTrue(t)'
<1>0. /\ plan[t] \in Seq(Rail) /\ leg \in [Tx -> Nat] /\ leg[t] \in DOMAIN plan[t]
      /\ pc \in [Tx -> Locations] /\ Current(t) \in Rail /\ Current(t) = plan[t][leg[t]]
  BY CurrentIsRail DEF TypeInv, TypeOK, AtARail, Current
<1>1. \A i \in DOMAIN plan[t] : i # leg[t] => plan[t][i] \in Rail \ {Current(t)}
  BY <1>0 DEF Journey
<1>2. \A i \in DOMAIN plan[t] : i > leg[t] => tries'[t][plan[t][i]] = 0
  BY <1>0, <1>1 DEF Journey
<1>3. ctx[t] = "live" => \A i \in DOMAIN plan[t] : i <= leg[t] => tries'[t][plan[t][i]] = Attempts[plan[t][i]]
  BY <1>0, <1>1 DEF Journey, UsedUp
<1>4. CASE leg[t] + 1 \in DOMAIN plan[t]
  <2>1. /\ leg'[t] = leg[t] + 1 /\ pc'[t] = "enter"
        /\ Log(t, rows \cup IfFallback(t, "failure"))
    BY <1>0, <1>4 DEF LegFails, Goto
  <2>2. tries'[t][plan[t][leg[t] + 1]] = 0
    BY <1>0, <1>2, <1>4
  <2>3. \A i \in DOMAIN plan[t] : i < leg[t] + 1 => i <= leg[t]
    BY <1>0
  <2>4. \A i \in DOMAIN plan[t] : i > leg[t] + 1 => i > leg[t]
    BY <1>0
  <2>5. Journey(t)'
    BY <1>2, <1>3, <2>1, <2>2, <2>3, <2>4 DEF Journey, Planning, UsedUp, Current
  <2>6. \A row \in rows \cup IfFallback(t, "failure") : RowTrue(row, "enter", provider'[t], tries'[t])
    BY DEF IfFallback, Row, RowTrue
  <2>7. audit'[t] \subseteq audit[t] \cup (rows \cup IfFallback(t, "failure"))
    BY <2>1, LogAdds
  <2> QED
    BY <2>1, <2>5, <2>6, <2>7, RowsGrow DEF Trying
<1>5. CASE leg[t] + 1 \notin DOMAIN plan[t]
  <2> DEFINE last == {Row("final_status", NoRail, "failure")}
  <2>1. /\ leg'[t] = leg[t] /\ pc'[t] = "failed"
        /\ Log(t, rows \cup IfFallback(t, "failure") \cup last)
    BY <1>0, <1>5 DEF LegFails, Goto
  <2>2. \A i \in DOMAIN plan[t] : i <= leg[t]
    BY <1>0, <1>5
  <2>3. \A i \in DOMAIN plan[t] : i < leg[t] => i <= leg[t]
    BY <1>0
  <2>5. Journey(t)'
    BY <1>2, <1>3, <2>1, <2>2, <2>3 DEF Journey, Planning, UsedUp, Current
  <2>6. \A row \in rows \cup IfFallback(t, "failure") \cup last :
            RowTrue(row, "failed", provider'[t], tries'[t])
    BY DEF IfFallback, Row, RowTrue
  <2>7. audit'[t] \subseteq audit[t] \cup (rows \cup IfFallback(t, "failure") \cup last)
    BY <2>1, LogAdds
  <2> HIDE DEF last
  <2> QED
    BY <2>1, <2>5, <2>6, <2>7, RowsGrow DEF Trying
<1> QED
  BY <1>4, <1>5

\* An attempt has failed, the used-th on its rail.
LEMMA AttemptFailsTrip ==
    ASSUME TypeInv, NEW t \in Tx, pc[t] \in Trying, Journey(t), RowsTrue(t),
           NEW used \in 1 .. Attempts[Current(t)], AttemptFails(t, used),
           plan' = plan, ctx' = ctx, tries'[t][Current(t)] = used,
           \A r \in Rail : tries[t][r] > 0 => tries'[t][r] > 0,
           \A r \in Rail \ {Current(t)} : tries'[t][r] = tries[t][r],
           ctx[t] = "live" => late'[t] = 0, late'[t] <= 1
    PROVE  Journey(t)' /\ RowsTrue(t)'
<1> DEFINE rows == {Row("execution_attempt", Current(t), "retry")}
<1>0. /\ plan[t] \in Seq(Rail) /\ leg \in [Tx -> Nat] /\ leg[t] \in DOMAIN plan[t]
      /\ pc \in [Tx -> Locations] /\ Current(t) \in Rail /\ Current(t) = plan[t][leg[t]]
      /\ Attempts[Current(t)] \in Nat
  BY CurrentIsRail, SagaAssumption DEF TypeInv, TypeOK, AtARail, Current
<1>1. \A row \in rows : \A l : l # "done" => RowTrue(row, l, provider'[t], tries'[t])
  BY <1>0 DEF Row, RowTrue
<1>2. CASE used < Attempts[Current(t)]
  <2>1. Log(t, rows) /\ pc'[t] = "backoff" /\ leg'[t] = leg[t]
    BY <1>0, <1>2 DEF AttemptFails, Goto
  <2>2. \A i \in DOMAIN plan[t] : i # leg[t] => plan[t][i] \in Rail \ {Current(t)}
    BY <1>0 DEF Journey
  <2>3. \A i \in DOMAIN plan[t] : i > leg[t] => tries'[t][plan[t][i]] = 0
    BY <1>0, <2>2 DEF Journey
  <2>4. ctx[t] = "live" => \A i \in DOMAIN plan[t] : i < leg[t] => tries'[t][plan[t][i]] = Attempts[plan[t][i]]
    BY <1>0, <2>2 DEF Journey, UsedUp
  <2>5. Journey(t)'
    BY <1>2, <2>1, <2>3, <2>4 DEF Journey, Planning, UsedUp, Current
  <2> HIDE DEF rows
  <2>6. RowsTrue(t)'
    BY <1>1, <2>1, LogAdds, RowsGrow DEF Trying
  <2> QED
    BY <2>5, <2>6
<1>3. CASE ~ (used < Attempts[Current(t)])
  <2>1. LegFails(t, rows)
    BY <1>3 DEF AttemptFails
  <2>2. tries'[t][Current(t)] = Attempts[Current(t)]
    BY <1>0, <1>3
  <2> HIDE DEF rows
  <2> QED
    BY <1>1, <2>1, <2>2, LegFailsTrip
<1> QED
  BY <1>2, <1>3

\* The goroutine's own steps.
LEMMA TripOwn ==
    ASSUME TypeInv, NEW t \in Tx, Journey(t), RowsTrue(t), Step(t)
    PROVE  Journey(t)' /\ RowsTrue(t)'
<1> USE DEF Planning
<1>0. /\ pc \in [Tx -> Locations] /\ plan \in [Tx -> Seq(Rail)] /\ leg \in [Tx -> Nat]
      /\ tries \in [Tx -> [Rail -> Nat]] /\ late \in [Tx -> Nat]
      /\ ctx \in [Tx -> {"live", "done"}] /\ provider \in [Tx -> Rail \cup {NoRail}]
      /\ audit \in [Tx -> SUBSET AuditRows] /\ Attempts \in [Rail -> Nat \ {0}]
  BY SagaAssumption DEF TypeInv, TypeOK
<1>1. ASSUME UNCHANGED <<plan, leg, tries, ctx, late, provider>>,
             pc[t] \in Planning, pc'[t] \in {"policy", "routing", "failed"},
             NEW rows, audit'[t] \subseteq audit[t] \cup rows,
             \A row \in rows : row.step \in {"start", "policy_check", "routing"}
      PROVE  Journey(t)' /\ RowsTrue(t)'
  <2>1. Journey(t)'
    BY <1>0, <1>1 DEF Journey, UsedUp, Current
  <2>2. \A row \in rows : RowTrue(row, pc'[t], provider'[t], tries'[t])
    BY <1>1 DEF RowTrue
  <2>3. RowsTrue(t)'
    BY <1>1, <2>2, RowsGrow
  <2> QED
    BY <2>1, <2>3
<1>2. CASE Start(t) \/ PolicyRejects(t) \/ PolicyApproves(t) \/ NoCandidates(t)
  <2> DEFINE rows == {Row(step, NoRail, status) :
                 step \in {"start", "policy_check", "routing"},
                 status \in {"success", "pending", "failure"}}
  <2>1. \A row \in rows : row.step \in {"start", "policy_check", "routing"}
    BY DEF Row
  <2>2. audit'[t] \subseteq audit[t] \cup rows
    <3>1. \E some \in SUBSET rows : Log(t, some)
      BY <1>2 DEF Start, PolicyRejects, PolicyApproves, NoCandidates
    <3> HIDE DEF rows
    <3> QED
      BY <3>1, LogAdds
  <2>3. /\ UNCHANGED <<plan, leg, tries, ctx, late, provider>>
        /\ pc[t] \in Planning /\ pc'[t] \in {"policy", "routing", "failed"}
    BY <1>0, <1>2 DEF Start, PolicyRejects, PolicyApproves, NoCandidates, Goto, saga, money
  <2> HIDE DEF rows
  <2> QED
    BY <1>1, <2>1, <2>2, <2>3
<1>3. CASE \E r \in Rail : LookAt(t, r)
  <2>1. SameTrip(t)
    BY <1>3 DEF LookAt, SameTrip, money
  <2> QED
    BY <2>1, TripSame
<1>4. CASE MakePlan(t)
  <2>1. PICK order \in Bijection(1 .. Cardinality(candidates[t]), candidates[t]) :
            /\ plan' = [plan EXCEPT ![t] = order]
            /\ Log(t, {Row("routing", order[1], "success")})
    BY <1>4 DEF MakePlan
  <2>2. /\ pc[t] = "routing" /\ pc'[t] = "enter" /\ candidates[t] # {}
        /\ UNCHANGED <<leg, tries, ctx, late, provider>>
    BY <1>0, <1>4 DEF MakePlan, Goto, money
  <2>3. order \in Seq(Rail) /\ 1 \in DOMAIN order /\ order[1] \in Rail
    BY <2>2, PlanType
  <2>4. \A i, j \in DOMAIN order : order[i] = order[j] => i = j
    BY <2>1 DEF Bijection, Injection, IsInjective
  <2>5. plan'[t] = order /\ leg[t] = 1 /\ \A r \in Rail : tries[t][r] = 0
    BY <1>0, <2>1, <2>2 DEF Journey, TypeInv, AtARail
  <2>6. \A i \in DOMAIN order : order[i] \in Rail /\ ~ (i < 1)
    BY <2>3
  <2>7. Journey(t)'
    BY <2>2, <2>3, <2>4, <2>5, <2>6 DEF Journey, UsedUp, Current
  <2>8. \A row \in {Row("routing", order[1], "success")} : RowTrue(row, pc'[t], provider'[t], tries'[t])
    BY DEF Row, RowTrue
  <2>9. RowsTrue(t)'
    BY <2>1, <2>2, <2>8, LogAdds, RowsGrow
  <2> QED
    BY <2>7, <2>9
<1>5. CASE EnterLeg(t)
  <2>1. /\ pc[t] = "enter" /\ pc[t] \in Trying
        /\ UNCHANGED <<ctx, plan, tries, late, provider>>
    BY <1>5 DEF EnterLeg, Trying, money
  <2>2. \A row \in IfFallback(t, "pending") : \A l : RowTrue(row, l, provider'[t], tries'[t])
    BY DEF IfFallback, Row, RowTrue
  <2>3. CASE ctx[t] = "live"
    <3>1. pc'[t] = "attempt" /\ leg' = leg /\ Log(t, IfFallback(t, "pending"))
      BY <1>0, <1>5, <2>3 DEF EnterLeg, Goto
    <3>2. 0 < Attempts[Current(t)]
      BY <1>0, <2>1, CurrentIsRail
    <3>3. Journey(t)'
      BY <2>1, <2>3, <3>1, <3>2 DEF Journey, UsedUp, Current
    <3>4. RowsTrue(t)'
      BY <2>1, <2>2, <3>1, LogAdds, RowsGrow
    <3> QED
      BY <3>3, <3>4
  <2>4. CASE ctx[t] # "live"
    <3>1. LegFails(t, IfFallback(t, "pending"))
      BY <1>5, <2>4 DEF EnterLeg
    <3>2. late'[t] <= 1
      BY <2>1 DEF Journey
    <3> QED
      BY <2>1, <2>2, <2>4, <3>1, <3>2, LegFailsTrip
  <2> QED
    BY <2>3, <2>4
<1>6. CASE BackoffEnds(t)
  <2>1. /\ pc[t] = "backoff" /\ pc[t] \in Trying
        /\ UNCHANGED <<ctx, plan, tries, late, provider>>
    BY <1>6 DEF BackoffEnds, Trying, money
  <2>2. CASE ctx[t] = "live"
    <3>1. pc'[t] = "attempt" /\ leg' = leg /\ audit' = audit
      BY <1>0, <1>6, <2>2 DEF BackoffEnds, Goto
    <3> QED
      BY <2>1, <2>2, <3>1, RowsGrow DEF Journey, RowsTrue, RowTrue, UsedUp, Current
  <2>3. CASE ctx[t] # "live"
    <3>1. LegFails(t, {})
      BY <1>6, <2>3 DEF BackoffEnds
    <3>2. late'[t] <= 1
      BY <2>1 DEF Journey
    <3> QED
      BY <2>1, <2>3, <3>1, <3>2, LegFailsTrip
  <2> QED
    BY <2>2, <2>3
\* An attempt is counted, and if the context is done it is the late one.
<1>7. ASSUME pc[t] = "attempt", CountAttempt(t)
      PROVE  /\ Current(t) \in Rail
             /\ tries[t][Current(t)] + 1 \in 1 .. Attempts[Current(t)]
             /\ tries'[t][Current(t)] = tries[t][Current(t)] + 1
             /\ \A r \in Rail \ {Current(t)} : tries'[t][r] = tries[t][r]
             /\ \A r \in Rail : tries[t][r] > 0 => tries'[t][r] > 0
             /\ ctx[t] = "live" => late'[t] = 0
             /\ late'[t] <= 1
  <2>1. Current(t) \in Rail
    BY <1>7, CurrentIsRail DEF Trying
  <2>2. tries' = [tries EXCEPT ![t][Current(t)] = @ + 1] /\ tries[t][Current(t)] < Attempts[Current(t)]
    BY <1>7 DEF CountAttempt, Journey
  <2>3. tries[t] \in [Rail -> Nat] /\ Attempts[Current(t)] \in Nat
    BY <1>0, <2>1
  <2>4. /\ tries'[t][Current(t)] = tries[t][Current(t)] + 1
        /\ \A r \in Rail \ {Current(t)} : tries'[t][r] = tries[t][r]
    BY <1>0, <2>1, <2>2
  <2>5. late'[t] <= 1 /\ (ctx[t] = "live" => late'[t] = 0)
    BY <1>0, <1>7 DEF CountAttempt, Journey
  <2> QED
    BY <2>1, <2>2, <2>3, <2>4, <2>5
<1>8. CASE BeginAttempt(t)
  <2>1. /\ pc[t] = "attempt" /\ pc'[t] = "inflight" /\ CountAttempt(t)
        /\ UNCHANGED <<ctx, plan, leg, provider>>
        /\ Log(t, {Row("execution_attempt", Current(t), "pending")})
    BY <1>0, <1>8 DEF BeginAttempt, Goto, saga, money
  <2>2. /\ leg[t] \in DOMAIN plan[t] /\ Current(t) = plan[t][leg[t]]
        /\ \A i \in DOMAIN plan[t] : plan[t][i] \in Rail
    BY <1>0, <2>1 DEF TypeInv, AtARail, Trying, Current
  <2>3. \A i \in DOMAIN plan[t] : i # leg[t] => tries'[t][plan[t][i]] = tries[t][plan[t][i]]
    BY <1>7, <2>1, <2>2 DEF Journey
  <2>4. \A i \in DOMAIN plan[t] : (i > leg[t] \/ i < leg[t]) => i # leg[t]
    BY <1>0
  <2>5. Journey(t)'
    BY <1>7, <2>1, <2>3, <2>4 DEF Journey, UsedUp, Current
  <2>6. \A row \in {Row("execution_attempt", Current(t), "pending")} :
            RowTrue(row, pc'[t], provider'[t], tries'[t])
    BY <1>7, <2>1 DEF Row, RowTrue
  <2>7. RowsTrue(t)'
    BY <1>7, <2>1, <2>6, LogAdds, RowsGrow
  <2> QED
    BY <2>5, <2>7
<1>9. CASE RefuseAttempt(t)
  <2>1. /\ pc[t] = "attempt" /\ CountAttempt(t) /\ UNCHANGED <<ctx, plan>>
        /\ AttemptFails(t, tries[t][Current(t)] + 1)
    BY <1>9 DEF RefuseAttempt
  <2> QED
    BY <1>7, <2>1, AttemptFailsTrip DEF Trying
<1>10. CASE \E o \in Outcome : RailActs(t, o)
  <2>1. /\ pc[t] = "inflight" /\ pc'[t] = "answered" /\ audit' = audit
        /\ UNCHANGED <<ctx, plan, leg, tries, late, provider>>
    BY <1>0, <1>10 DEF RailActs, Goto, saga
  <2> QED
    BY <2>1 DEF Journey, RowsTrue, RowTrue, UsedUp, Current
<1>11. CASE ReturnResult(t)
  <2>1. /\ pc[t] = "answered" /\ pc'[t] = "done" /\ provider'[t] = Current(t)
        /\ UNCHANGED <<ctx, plan, leg, tries, late>>
    BY <1>0, <1>11 DEF ReturnResult, Goto, saga
  <2>2. Current(t) \in Rail /\ tries[t][Current(t)] > 0
    BY <1>0, <2>1, CurrentIsRail DEF Journey, Trying
  <2> DEFINE id == ProviderID[Current(t)][answer[t]]
             rows == {Row("execution_attempt", Current(t), "success"),
               Row("metering_update", id, "pending"),
               Row("metering_update", id, "success"),
               Row("final_status", id, "success")} \cup IfFallback(t, "success")
  <2>3. \A row \in rows : RowTrue(row, "done", Current(t), tries[t])
    BY <2>2 DEF IfFallback, Row, RowTrue
  <2>4. Log(t, rows)
    BY <1>11 DEF ReturnResult
  <2> HIDE DEF rows
  <2>5. RowsTrue(t)'
    BY <2>1, <2>3, <2>4, LogAdds, RowsGrow
  <2>6. Journey(t)'
    BY <2>1 DEF Journey, UsedUp, Current
  <2> QED
    BY <2>5, <2>6
<1>12. CASE ReturnError(t)
  <2>1. /\ pc[t] = "answered" /\ UNCHANGED <<ctx, plan, tries, late>>
        /\ AttemptFails(t, tries[t][Current(t)])
    BY <1>12 DEF ReturnError
  <2>2. /\ tries[t][Current(t)] \in 1 .. Attempts[Current(t)] /\ late'[t] <= 1
        /\ ctx[t] = "live" => late'[t] = 0
    BY <2>1 DEF Journey
  <2> QED
    BY <2>1, <2>2, AttemptFailsTrip DEF Trying
<1>13. CASE ReturnPanic(t)
  <2>1. /\ pc[t] = "answered" /\ pc'[t] = "abandoned" /\ audit' = audit
        /\ UNCHANGED <<ctx, plan, leg, tries, late, provider>>
    BY <1>0, <1>13 DEF ReturnPanic, Goto, saga, money
  <2> QED
    BY <2>1 DEF Journey, RowsTrue, RowTrue, UsedUp, Current
<1> QED
  BY <1>2, <1>3, <1>4, <1>5, <1>6, <1>8, <1>9, <1>10, <1>11, <1>12, <1>13 DEF Step

LEMMA TripStep == TypeInv /\ TripInv /\ [Next]_vars => TripInv'
<1> SUFFICES ASSUME TypeInv, TripInv, [Next]_vars, NEW t \in Tx
             PROVE  Journey(t)' /\ RowsTrue(t)'
  BY DEF TripInv
<1>0. Journey(t) /\ RowsTrue(t)
  BY DEF TripInv
<1>1. ASSUME NEW u \in Tx, Step(u) PROVE Journey(t)' /\ RowsTrue(t)'
  BY <1>0, <1>1, TripOwn, TripFrame, TripSame
<1>2. ASSUME NEW u \in Tx, ContextEnds(u) PROVE Journey(t)' /\ RowsTrue(t)'
  <2>1. /\ UNCHANGED <<pc, plan, leg, tries, late, provider, audit>>
        /\ ctx'[t] = ctx[t] \/ (ctx'[t] = "done" /\ ctx[t] = "live")
    BY <1>2 DEF ContextEnds, saga, money, TypeInv, TypeOK
  <2> QED
    BY <1>0, <2>1 DEF Journey, RowsTrue, UsedUp, Current
<1>3. CASE \/ \E u \in Tx, outcome \in {"published", "dropped"} : PublishEvent(u, outcome)
           \/ \E r \in Rail : IntervalElapses(r) \/ TimeoutElapses(r)
           \/ UNCHANGED vars
  <2>1. SameTrip(t)
    BY <1>3 DEF PublishEvent, IntervalElapses, TimeoutElapses, vars, saga, money, SameTrip
  <2> QED
    BY <1>0, <2>1, TripSame
<1>4. CASE Crash
  <2>1. /\ UNCHANGED <<ctx, plan, leg, tries, late, provider, audit>>
        /\ pc'[t] = pc[t] \/ (pc'[t] = "abandoned" /\ pc[t] \notin {"done", "failed"})
    BY <1>4 DEF Crash, Running, Over, saga
  <2> QED
    BY <1>0, <2>1 DEF Journey, Planning, RowsTrue, RowTrue, UsedUp, Current
<1> QED
  BY <1>1, <1>2, <1>3, <1>4 DEF Next

LEMMA TripInit == Init => TripInv
BY SagaAssumption DEF Init, TripInv, Journey, RowsTrue, Planning

\* No rail of the plan is skipped or given up early while the context lives.
THEOREM FallbacksInOrder == Spec => []FallbackInOrder
<1>1. ASSUME TripInv PROVE FallbackInOrder
  BY <1>1 DEF TripInv, Journey, UsedUp, FallbackInOrder
<1> QED
  BY <1>1, TypeInit, TypeStep, TripInit, TripStep, PTL DEF Spec

\* Once the context is done, at most one more call is made to any rail.
THEOREM LateOnce == Spec => []OneLateCall
<1>1. ASSUME TripInv PROVE OneLateCall
  BY <1>1 DEF TripInv, Journey, OneLateCall
<1> QED
  BY <1>1, TypeInit, TypeStep, TripInit, TripStep, PTL DEF Spec

\* The provider's id in a row of success is one of the rail's that is
\* returned, and one of a payment only if that rail has been charged.
IdsTrue ==
    \A t \in Tx : \A row \in audit[t] :
        row.step = "final_status" /\ row.status = "success" => row.adapter \in ResultIds(t)

LEMMA IdsStep == TypeInv /\ MoneyInv /\ TripInv /\ IdsTrue /\ [Next]_vars => IdsTrue'
<1> SUFFICES ASSUME TypeInv, MoneyInv, TripInv, IdsTrue, [Next]_vars, NEW t \in Tx,
                    NEW row \in audit'[t], row.step = "final_status", row.status = "success"
             PROVE  row.adapter \in ResultIds(t)'
  BY DEF IdsTrue
<1>1. pc'[t] = "done"
  BY TripStep DEF TripInv, RowsTrue, RowTrue
<1>2. CASE ReturnResult(t)
  <2>1. /\ pc[t] = "answered" /\ answer[t] \in Succeeds
        /\ provider'[t] = Current(t) /\ charges' = charges
    BY <1>2 DEF ReturnResult, TypeInv, TypeOK
  <2> DEFINE id == ProviderID[Current(t)][answer[t]]
             rows == {Row("execution_attempt", Current(t), "success"),
               Row("metering_update", id, "pending"),
               Row("metering_update", id, "success"),
               Row("final_status", id, "success")} \cup IfFallback(t, "success")
  <2>2. Log(t, rows)
    BY <1>2 DEF ReturnResult
  <2>3. row \notin audit[t]
    BY <2>1 DEF TripInv, RowsTrue, RowTrue
  <2>4. row \in rows
    <3> HIDE DEF rows
    <3> QED
      BY <2>2, <2>3, LogAdds
  <2>5. row.adapter = id
    BY <2>4 DEF Row, IfFallback
  <2>6. answer[t] = "paid" => charges[t][Current(t)] > 0
    BY <2>1 DEF MoneyInv, Money, Charging
  <2> QED
    BY <2>1, <2>5, <2>6 DEF ResultIds, Succeeds
<1>3. CASE SameTrip(t) /\ charges'[t] = charges[t]
  BY <1>3 DEF SameTrip, ResultIds, IdsTrue
<1>4. ASSUME NEW u \in Tx, u # t, Step(u) PROVE SameTrip(t) /\ charges'[t] = charges[t]
  BY <1>4, TripFrame, StepFrame DEF Same
<1>5. ASSUME Step(t), ~ ReturnResult(t) PROVE FALSE
  <2>1. pc[t] \notin Over
    BY <1>5, QuietSteps DEF Step, RailActs, ReturnPanic, Over
  <2>2. ASSUME NEW o \in Outcome, RailActs(t, o) PROVE FALSE
    BY <1>1, <2>2 DEF RailActs, Goto, TypeInv, TypeOK
  <2>3. CASE ReturnPanic(t)
    BY <1>1, <2>3 DEF ReturnPanic, Goto, TypeInv, TypeOK
  <2> QED
    BY <1>1, <1>5, <2>2, <2>3, QuietSteps DEF Step
<1>6. CASE \/ \E u \in Tx : ContextEnds(u)
           \/ \E u \in Tx, outcome \in {"published", "dropped"} : PublishEvent(u, outcome)
           \/ \E r \in Rail : IntervalElapses(r) \/ TimeoutElapses(r)
           \/ Crash
           \/ UNCHANGED vars
  <2>1. UNCHANGED <<audit, provider, charges>>
    BY <1>6 DEF ContextEnds, PublishEvent, IntervalElapses, TimeoutElapses, Crash, vars, saga, money
  <2> QED
    BY <2>1 DEF ResultIds, IdsTrue
<1> QED
  BY <1>2, <1>3, <1>4, <1>5, <1>6 DEF Next

\* No row of the audit trail is wrong, whichever rows are missing: an end in
\* success carries an id of the rail that is returned, and a payment's id only
\* if that rail was charged.
THEOREM AuditRight == Spec => []AuditTruthful
<1>1. ASSUME TripInv, IdsTrue PROVE AuditTruthful
  BY <1>1 DEF TripInv, RowsTrue, RowTrue, IdsTrue, AuditTruthful
<1>2. Init => TypeInv /\ MoneyInv /\ TripInv /\ IdsTrue
  BY TypeInit, MoneyInit, TripInit DEF Init, IdsTrue
<1>3. TypeInv /\ MoneyInv /\ TripInv /\ IdsTrue /\ [Next]_vars
          => TypeInv' /\ MoneyInv' /\ TripInv' /\ IdsTrue'
  BY TypeStep, MoneyStep, TripStep, IdsStep
<1> QED
  BY <1>1, <1>2, <1>3, PTL DEF Spec
-----------------------------------------------------------------------------
(* The breakers' counts and the calls of all transactions that are out.    *)

Out == {"inflight", "answered"}
Counted(r) == {t \in OutOn(r) : fresh[t]}

\* A breaker's counts fit n calls that are out.
Balanced(b, n) ==
    /\ b.state = "open" => n = 0
    /\ b.state = "halfopen" => b.req = b.won + n /\ b.req <= Probes
    /\ b.state = "closed" => b.fail + n <= b.req

BalanceInv == \A r \in Rail : Balanced(breaker[r], Cardinality(Counted(r)))

LEMMA CountedFinite == \A r \in Rail : IsFiniteSet(Counted(r)) /\ Cardinality(Counted(r)) \in Nat
<1> SUFFICES ASSUME NEW r \in Rail PROVE IsFiniteSet(Counted(r)) /\ Cardinality(Counted(r)) \in Nat
  OBVIOUS
<1>1. Counted(r) \subseteq Tx
  BY DEF Counted, OutOn
<1> QED
  BY <1>1, SagaAssumption, FS_Subset, FS_CardinalityType

LEMMA CountedRemove ==
    ASSUME NEW r \in Rail, NEW t \in Counted(r)
    PROVE  /\ Cardinality(Counted(r) \ {t}) \in Nat
           /\ Cardinality(Counted(r)) = Cardinality(Counted(r) \ {t}) + 1
<1>1. IsFiniteSet(Counted(r)) /\ Cardinality(Counted(r)) \in Nat
  BY CountedFinite
<1>2. /\ IsFiniteSet(Counted(r) \ {t})
      /\ Cardinality(Counted(r) \ {t}) = Cardinality(Counted(r)) - 1
  BY <1>1, FS_RemoveElement
<1>3. Cardinality(Counted(r) \ {t}) \in Nat
  BY <1>2, FS_CardinalityType
<1> QED
  BY <1>1, <1>2, <1>3

LEMMA AdmitBalanced ==
    ASSUME NEW b \in Breakers, NEW n \in Nat, Balanced(b, n), Admits(b)
    PROVE  Balanced(Admitted(b), n + 1)
BY BreakerAssumption DEF Balanced, Admits, Admitted, Breakers

\* A counted result is taken off the calls that are out, unless it moves the
\* breaker: then none of them counts.
LEMMA ResultBalanced ==
    ASSUME NEW b \in Breakers, NEW n \in Nat, Balanced(b, n + 1), NEW ok \in BOOLEAN
    PROVE  IF AfterRequest(b, ok).state = b.state
           THEN Balanced(AfterRequest(b, ok), n) ELSE Balanced(AfterRequest(b, ok), 0)
<1>0. \A s \in {"closed", "halfopen", "open"} : Balanced(NewGeneration(s), 0) /\ NewGeneration(s).state = s
  BY BreakerAssumption DEF Balanced, NewGeneration
<1>1. b.state \in {"closed", "halfopen"}
  BY DEF Balanced, Breakers
<1>2. CASE ok /\ b.state = "halfopen"
  BY <1>0, <1>2, BreakerAssumption DEF Balanced, AfterRequest, AfterSuccess, Breakers
<1>3. CASE ok /\ b.state = "closed"
  BY <1>3 DEF Balanced, AfterRequest, AfterSuccess, Breakers
<1>4. CASE ~ ok
  <2>1. CASE AfterRequest(b, ok) = NewGeneration("open")
    BY <1>0, <1>1, <2>1
  <2>2. CASE AfterRequest(b, ok) # NewGeneration("open")
    <3>1. b.state = "closed" /\ AfterRequest(b, ok) = [b EXCEPT !.fail = @ + 1]
      BY <1>1, <1>4, <2>2 DEF AfterRequest, AfterFailure
    <3> QED
      BY <3>1 DEF Balanced, Breakers
  <2> QED
    BY <2>1, <2>2
<1> QED
  BY <1>1, <1>2, <1>3, <1>4

\* What a goroutine's step is to the breakers.
LEMMA StepKinds ==
    ASSUME TypeInv, NEW t \in Tx, Step(t)
    PROVE  \/ UNCHANGED <<breaker, fresh>> /\ pc[t] \notin Out /\ pc'[t] \notin Out
           \/ UNCHANGED <<breaker, fresh, plan, leg>> /\ pc[t] \in Out /\ pc'[t] \in Out
           \/ BeginAttempt(t)
           \/ pc[t] = "answered" /\ Settle(t) /\ pc'[t] \notin Out
<1>0. pc \in [Tx -> Locations]
  BY DEF TypeInv, TypeOK
<1>1. ASSUME Start(t) \/ PolicyRejects(t) \/ PolicyApproves(t) \/ NoCandidates(t) \/ MakePlan(t)
      PROVE  UNCHANGED <<breaker, fresh>> /\ pc[t] \notin Out /\ pc'[t] \notin Out
  BY <1>0, <1>1 DEF Start, PolicyRejects, PolicyApproves, NoCandidates, MakePlan, Goto, Out
<1>2. ASSUME NEW r \in Rail, LookAt(t, r)
      PROVE  UNCHANGED <<breaker, fresh>> /\ pc[t] \notin Out /\ pc'[t] \notin Out
  BY <1>2 DEF LookAt, Out
<1>3. ASSUME NEW rows, LegFails(t, rows) PROVE pc'[t] \notin Out
  BY <1>0, <1>3 DEF LegFails, Goto, Out
<1>4. ASSUME NEW used, AttemptFails(t, used) PROVE pc'[t] \notin Out
  BY <1>0, <1>3, <1>4 DEF AttemptFails, Goto, Out
<1>5. ASSUME EnterLeg(t) \/ BackoffEnds(t) \/ RefuseAttempt(t)
      PROVE  UNCHANGED <<breaker, fresh>> /\ pc[t] \notin Out /\ pc'[t] \notin Out
  BY <1>0, <1>3, <1>4, <1>5 DEF EnterLeg, BackoffEnds, RefuseAttempt, Goto, Out
<1>6. ASSUME NEW o \in Outcome, RailActs(t, o)
      PROVE  UNCHANGED <<breaker, fresh, plan, leg>> /\ pc[t] \in Out /\ pc'[t] \in Out
  BY <1>0, <1>6 DEF RailActs, Goto, saga, Out
<1>7. ASSUME ReturnResult(t) \/ ReturnError(t) \/ ReturnPanic(t)
      PROVE  pc[t] = "answered" /\ Settle(t) /\ pc'[t] \notin Out
  BY <1>0, <1>4, <1>7 DEF ReturnResult, ReturnError, ReturnPanic, Goto, Out
<1> QED
  BY <1>1, <1>2, <1>5, <1>6, <1>7 DEF Step

LEMMA BalanceStep == TypeInv /\ BalanceInv /\ [Next]_vars => BalanceInv'
<1> SUFFICES ASSUME TypeInv, BalanceInv, [Next]_vars
             PROVE  BalanceInv'
  OBVIOUS
<1>0. /\ pc \in [Tx -> Locations] /\ fresh \in [Tx -> BOOLEAN] /\ breaker \in [Rail -> Breakers]
  BY DEF TypeInv, TypeOK
\* Who is out on r, and whether his call counts, is all that matters.
<1>1. ASSUME breaker' = breaker,
             \A u \in Tx : /\ pc'[u] \in Out /\ fresh'[u] <=> pc[u] \in Out /\ fresh[u]
                           /\ pc[u] \in Out => plan'[u] = plan[u] /\ leg'[u] = leg[u]
      PROVE  BalanceInv'
  <2>1. \A r \in Rail : Counted(r)' = Counted(r)
    BY <1>1 DEF Counted, OutOn, Out, Current
  <2> QED
    BY <1>1, <2>1 DEF BalanceInv
<1>2. ASSUME NEW t \in Tx, Step(t) PROVE BalanceInv'
  <2>0. \A u \in Tx \ {t} : pc'[u] = pc[u] /\ plan'[u] = plan[u] /\ leg'[u] = leg[u]
    BY <1>2, StepFrame DEF Same
  <2>1. CASE UNCHANGED <<breaker, fresh>> /\ pc[t] \notin Out /\ pc'[t] \notin Out
    BY <1>1, <2>0, <2>1
  <2>2. CASE UNCHANGED <<breaker, fresh, plan, leg>> /\ pc[t] \in Out /\ pc'[t] \in Out
    BY <1>1, <2>0, <2>2
  <2>3. CASE BeginAttempt(t)
    <3>0. Current(t) \in Rail
      BY <2>3, CurrentIsRail DEF BeginAttempt, Trying
    <3> PICK r \in Rail : r = Current(t)
      BY <3>0
    <3>1. /\ pc[t] = "attempt" /\ pc'[t] = "inflight" /\ UNCHANGED <<plan, leg>>
          /\ Admits(breaker[r]) /\ breaker' = [breaker EXCEPT ![r] = Admitted(@)]
          /\ fresh' = [fresh EXCEPT ![t] = TRUE]
      BY <1>0, <2>3 DEF BeginAttempt, Goto, saga
    <3>2. Current(t)' = r
      BY <3>1 DEF Current
    <3>3. \A u \in Tx \ {t} : Current(u)' = Current(u) /\ fresh'[u] = fresh[u]
      BY <1>0, <2>0, <3>1 DEF Current
    <3>4. Counted(r)' = Counted(r) \cup {t} /\ t \notin Counted(r)
      BY <1>0, <2>0, <3>1, <3>2, <3>3 DEF Counted, OutOn
    <3>5. \A q \in Rail \ {r} : Counted(q)' = Counted(q)
      BY <1>0, <2>0, <3>1, <3>2, <3>3 DEF Counted, OutOn
    <3>6. Cardinality(Counted(r)') = Cardinality(Counted(r)) + 1
      BY <3>1, <3>4, CountedFinite, FS_AddElement
    <3>7. Balanced(Admitted(breaker[r]), Cardinality(Counted(r)) + 1)
      BY <1>0, <3>1, CountedFinite, AdmitBalanced DEF BalanceInv
    <3>8. breaker'[r] = Admitted(breaker[r]) /\ \A q \in Rail \ {r} : breaker'[q] = breaker[q]
      BY <1>0, <3>1
    <3> QED
      BY <3>5, <3>6, <3>7, <3>8 DEF BalanceInv
  <2>4. CASE pc[t] = "answered" /\ Settle(t) /\ pc'[t] \notin Out
    <3>0. Current(t) \in Rail
      BY <2>4, CurrentIsRail DEF Trying
    <3> PICK r \in Rail : r = Current(t)
      BY <3>0
    <3> DEFINE ok == answer[t] \in Succeeds
               settled == IF fresh[t] THEN AfterRequest(breaker[r], ok) ELSE breaker[r]
               old == IF settled.state # breaker[r].state THEN OutOn(r) ELSE {t}
    <3>1. /\ breaker' = [breaker EXCEPT ![r] = settled]
          /\ fresh' = [u \in Tx |-> fresh[u] /\ u \notin old]
      BY <2>4 DEF Settle
    <3>2. ok \in BOOLEAN
      OBVIOUS
    <3>3. \A u \in Tx \ {t} : Current(u)' = Current(u)
      BY <2>0 DEF Current
    <3>4. old = OutOn(r) \/ old = {t}
      OBVIOUS
    <3>5. settled.state # breaker[r].state => old = OutOn(r)
      OBVIOUS
    <3>6. settled.state = breaker[r].state => old = {t}
      OBVIOUS
    <3>7. (fresh[t] => settled = AfterRequest(breaker[r], ok)) /\ (~ fresh[t] => settled = breaker[r])
      OBVIOUS
    <3>8. t \in OutOn(r)
      BY <2>4 DEF OutOn
    <3> HIDE DEF ok, settled, old
    <3>9. \A u \in Tx : u \in old => Current(u) = r
      BY <3>4, <3>8 DEF OutOn
    <3>10. \A q \in Rail \ {r} : Counted(q)' = Counted(q)
      BY <1>0, <2>0, <2>4, <3>1, <3>3, <3>8, <3>9 DEF Counted, OutOn, Out
    <3>11. Counted(r)' = Counted(r) \ (old \cup {t})
      BY <1>0, <2>0, <2>4, <3>1, <3>3 DEF Counted, OutOn, Out
    <3>12. Balanced(settled, Cardinality(Counted(r)'))
      <4>1. CASE settled.state # breaker[r].state
        <5>1. Counted(r)' = {} /\ fresh[t]
          BY <3>5, <3>7, <3>11, <4>1 DEF Counted
        <5>2. t \in Counted(r)
          BY <3>8, <5>1 DEF Counted
        <5>3. /\ Cardinality(Counted(r) \ {t}) \in Nat
              /\ Cardinality(Counted(r)) = Cardinality(Counted(r) \ {t}) + 1
          BY <5>2, CountedRemove
        <5>4. Balanced(settled, 0)
          BY <1>0, <3>1, <3>2, <3>7, <4>1, <5>1, <5>3, ResultBalanced DEF BalanceInv
        <5> QED
          BY <5>1, <5>4, FS_EmptySet
      <4>2. CASE settled.state = breaker[r].state /\ fresh[t]
        <5>1. Counted(r)' = Counted(r) \ {t} /\ t \in Counted(r)
          BY <3>6, <3>8, <3>11, <4>2 DEF Counted
        <5>2. /\ Cardinality(Counted(r) \ {t}) \in Nat
              /\ Cardinality(Counted(r)) = Cardinality(Counted(r) \ {t}) + 1
          BY <5>1, CountedRemove
        <5> QED
          BY <1>0, <3>1, <3>2, <3>7, <4>2, <5>1, <5>2, ResultBalanced DEF BalanceInv
      <4>3. CASE ~ fresh[t]
        <5>1. settled = breaker[r] /\ Counted(r)' = Counted(r)
          BY <3>6, <3>7, <3>11, <4>3 DEF Counted
        <5> QED
          BY <3>1, <5>1 DEF BalanceInv
      <4> QED
        BY <1>0, <4>1, <4>2, <4>3
    <3>13. breaker'[r] = settled /\ \A q \in Rail \ {r} : breaker'[q] = breaker[q]
      BY <1>0, <3>1
    <3> QED
      BY <3>10, <3>12, <3>13 DEF BalanceInv
  <2> QED
    BY <1>2, <2>1, <2>2, <2>3, <2>4, StepKinds
<1>3. ASSUME NEW u \in Tx, ContextEnds(u) \/ \E outcome \in {"published", "dropped"} : PublishEvent(u, outcome)
      PROVE  BalanceInv'
  <2>1. UNCHANGED <<pc, plan, leg, fresh, breaker>>
    BY <1>3 DEF ContextEnds, PublishEvent, saga
  <2> QED
    BY <1>1, <2>1
<1>4. ASSUME NEW r \in Rail, IntervalElapses(r) \/ TimeoutElapses(r) PROVE BalanceInv'
  <2>1. UNCHANGED <<pc, plan, leg>>
    BY <1>4 DEF IntervalElapses, TimeoutElapses, saga
  <2>2. \A q \in Rail : OutOn(q)' = OutOn(q)
    BY <2>1 DEF OutOn, Current
  <2>3. \A s \in {"closed", "halfopen", "open"} : Balanced(NewGeneration(s), 0)
    BY BreakerAssumption DEF Balanced, NewGeneration
  <2>4. CASE IntervalElapses(r)
    <3>1. /\ breaker' = [breaker EXCEPT ![r] = NewGeneration("closed")]
          /\ fresh' = [t \in Tx |-> fresh[t] /\ t \notin OutOn(r)]
      BY <2>4 DEF IntervalElapses
    <3>2. Counted(r)' = {}
      BY <2>2, <3>1 DEF Counted, OutOn
    <3>3. \A q \in Rail \ {r} : Counted(q)' = Counted(q)
      BY <2>2, <3>1 DEF Counted, OutOn
    <3>4. Cardinality({}) = 0
      BY FS_EmptySet
    <3>5. breaker'[r] = NewGeneration("closed") /\ \A q \in Rail \ {r} : breaker'[q] = breaker[q]
      BY <1>0, <3>1
    <3> QED
      BY <2>3, <3>2, <3>3, <3>4, <3>5 DEF BalanceInv
  <2>5. CASE TimeoutElapses(r)
    <3>1. /\ breaker[r].state = "open" /\ fresh' = fresh
          /\ breaker' = [breaker EXCEPT ![r] = NewGeneration("halfopen")]
      BY <2>5 DEF TimeoutElapses
    <3>2. \A q \in Rail : Counted(q)' = Counted(q)
      BY <2>2, <3>1 DEF Counted
    <3>3. Cardinality(Counted(r)) = 0
      BY <3>1 DEF BalanceInv, Balanced
    <3>5. breaker'[r] = NewGeneration("halfopen") /\ \A q \in Rail \ {r} : breaker'[q] = breaker[q]
      BY <1>0, <3>1
    <3> QED
      BY <2>3, <3>2, <3>3, <3>5 DEF BalanceInv
  <2> QED
    BY <1>4, <2>4, <2>5
<1>5. CASE Crash
  <2>1. /\ breaker' = [r \in Rail |-> NewGeneration("closed")]
        /\ fresh' = [t \in Tx |-> FALSE]
    BY <1>5 DEF Crash
  <2>2. \A r \in Rail : Counted(r)' = {}
    BY <2>1 DEF Counted, OutOn
  <2>3. Balanced(NewGeneration("closed"), 0) /\ Cardinality({}) = 0
    BY FS_EmptySet DEF Balanced, NewGeneration
  <2> QED
    BY <2>1, <2>2, <2>3 DEF BalanceInv
<1>6. CASE UNCHANGED vars
  BY <1>1, <1>6 DEF vars, saga
<1> QED
  BY <1>2, <1>3, <1>4, <1>5, <1>6 DEF Next

LEMMA BalanceInit == Init => BalanceInv
<1> SUFFICES ASSUME Init PROVE BalanceInv
  OBVIOUS
<1>1. \A r \in Rail : Counted(r) = {} /\ breaker[r] = NewGeneration("closed")
  BY DEF Init, Counted, OutOn
<1>2. Balanced(NewGeneration("closed"), 0) /\ Cardinality({}) = 0
  BY FS_EmptySet DEF Balanced, NewGeneration
<1> QED
  BY <1>1, <1>2 DEF BalanceInv

\* Each rail's counts agree with the calls that are out on it, of whatever
\* sagas, through every change of generation.
THEOREM BreakersBalance == Spec => []BreakersAddUp
<1>1. ASSUME BalanceInv PROVE BreakersAddUp
  BY <1>1 DEF BalanceInv, Balanced, Counted, BreakersAddUp
<1> QED
  BY <1>1, TypeInit, TypeStep, BalanceInit, BalanceStep, PTL DEF Spec
-----------------------------------------------------------------------------
(* No goroutine goes back: what SagasEnd needs besides fairness.           *)

\* The parts of Orchestrate, in their order.
Part(l) ==
    CASE l = "idle" -> 0
      [] l = "policy" -> 1
      [] l = "routing" -> 2
      [] l \in {"enter", "inflight", "answered", "backoff", "attempt"} -> 3
      [] OTHER -> 4

\* The places in executeWithRetry between two attempts, in their order.
Place(l) ==
    CASE l = "enter" -> 0
      [] l = "inflight" -> 1
      [] l = "answered" -> 2
      [] l = "backoff" -> 3
      [] OTHER -> 4

\* A goroutine goes on to a later part, to one adapter less to look at, to a
\* later rail of its plan, to another of the rail's attempts, or to a later
\* place: each of them finitely many, and never back.
Forward(t) ==
    \/ Part(pc[t]) < Part(pc'[t])
    \/ /\ pc[t] = "routing" /\ pc'[t] = "routing"
       /\ todo'[t] \subseteq todo[t] /\ todo'[t] # todo[t]
    \/ /\ Part(pc[t]) = 3 /\ Part(pc'[t]) = 3
       /\ plan'[t] = plan[t] /\ leg[t] < leg'[t] /\ leg'[t] \in DOMAIN plan[t]
    \/ /\ Part(pc[t]) = 3 /\ Part(pc'[t]) = 3
       /\ plan'[t] = plan[t] /\ leg'[t] = leg[t]
       /\ tries[t][Current(t)] < tries'[t][Current(t)]
       /\ tries'[t][Current(t)] <= Attempts[Current(t)]
    \/ /\ Part(pc[t]) = 3 /\ Part(pc'[t]) = 3
       /\ plan'[t] = plan[t] /\ leg'[t] = leg[t] /\ tries'[t] = tries[t]
       /\ Place(pc[t]) < Place(pc'[t])

Stays(t) ==
    /\ pc'[t] = pc[t] /\ todo'[t] = todo[t] /\ plan'[t] = plan[t] /\ leg'[t] = leg[t]
    /\ tries'[t] = tries[t]

\* Every step of a goroutine takes it forward; others do not set it back.
NeverBack ==
    [][ \A t \in Tx : (Step(t) => Forward(t)) /\ (Forward(t) \/ Stays(t)) ]_vars

LEMMA StaysFrame ==
    ASSUME TypeInv, NEW t \in Tx, NEW u \in Tx, u # t, Step(t)
    PROVE  Stays(u)
<1>1. SameTrip(u)
  BY TripFrame
<1>2. \/ todo' = todo
      \/ \E some : todo' = [todo EXCEPT ![t] = some]
  <2>1. CASE \E r \in Rail : LookAt(t, r)
    BY <2>1 DEF LookAt
  <2>2. CASE PolicyApproves(t)
    BY <2>2 DEF PolicyApproves
  <2>3. CASE \/ Start(t) \/ PolicyRejects(t) \/ NoCandidates(t) \/ MakePlan(t)
             \/ EnterLeg(t) \/ BackoffEnds(t) \/ BeginAttempt(t) \/ RefuseAttempt(t)
             \/ \E o \in Outcome : RailActs(t, o)
             \/ ReturnResult(t) \/ ReturnError(t) \/ ReturnPanic(t)
    BY <2>3 DEF Start, PolicyRejects, NoCandidates, MakePlan, EnterLeg, BackoffEnds, BeginAttempt,
                RefuseAttempt, RailActs, ReturnResult, ReturnError, ReturnPanic, saga
  <2> QED
    BY <2>1, <2>2, <2>3 DEF Step
<1>3. todo'[u] = todo[u]
  BY <1>2 DEF TypeInv, TypeOK
<1> QED
  BY <1>1, <1>3 DEF Stays, SameTrip

\* An attempt that fails, the last or another, leaves its place for good.
LEMMA FailForward ==
    ASSUME TypeInv, NEW t \in Tx, pc[t] \in {"enter", "backoff", "attempt", "answered"},
           plan' = plan,
           \/ \E rows : LegFails(t, rows)
           \/ \E used : AttemptFails(t, used) /\ pc[t] # "backoff"
                        /\ (tries' = tries => Place(pc[t]) < 3)
                        /\ (tries' = tries
                            \/ /\ tries[t][Current(t)] < tries'[t][Current(t)]
                               /\ tries'[t][Current(t)] <= Attempts[Current(t)])
    PROVE  Forward(t)
<1>0. /\ pc \in [Tx -> Locations] /\ plan[t] \in Seq(Rail) /\ leg \in [Tx -> Nat]
      /\ leg[t] \in DOMAIN plan[t] /\ Part(pc[t]) = 3
  BY CurrentIsRail DEF TypeInv, TypeOK, AtARail, Trying, Part
<1>1. ASSUME NEW rows, LegFails(t, rows) PROVE Forward(t)
  <2>1. \/ leg'[t] = leg[t] + 1 /\ leg[t] + 1 \in DOMAIN plan[t] /\ pc'[t] = "enter"
        \/ pc'[t] = "failed"
    BY <1>0, <1>1 DEF LegFails, Goto
  <2> QED
    BY <1>0, <2>1 DEF Forward, Part
<1>2. ASSUME NEW used, AttemptFails(t, used), pc[t] # "backoff",
             tries' = tries => Place(pc[t]) < 3,
             \/ tries' = tries
             \/ /\ tries[t][Current(t)] < tries'[t][Current(t)]
                /\ tries'[t][Current(t)] <= Attempts[Current(t)]
      PROVE  Forward(t)
  <2>1. \/ pc'[t] = "backoff" /\ leg' = leg
        \/ \E rows : LegFails(t, rows)
    BY <1>0, <1>2 DEF AttemptFails, Goto
  <2>2. CASE pc'[t] = "backoff" /\ leg' = leg
    BY <1>0, <1>2, <2>2 DEF Forward, Part, Place
  <2> QED
    BY <1>1, <2>1, <2>2
<1> QED
  BY <1>1, <1>2

LEMMA ForwardOwn ==
    ASSUME TypeInv, NEW t \in Tx, Journey(t), Step(t)
    PROVE  Forward(t)
<1>0. /\ pc \in [Tx -> Locations] /\ plan \in [Tx -> Seq(Rail)] /\ leg \in [Tx -> Nat]
      /\ tries \in [Tx -> [Rail -> Nat]] /\ todo \in [Tx -> SUBSET Rail]
      /\ Attempts \in [Rail -> Nat \ {0}]
  BY SagaAssumption DEF TypeInv, TypeOK
<1>1. CASE Start(t) \/ PolicyRejects(t) \/ PolicyApproves(t) \/ NoCandidates(t) \/ MakePlan(t)
           \/ ReturnResult(t) \/ ReturnPanic(t)
  <2>1. \/ pc[t] = "idle" /\ pc'[t] = "policy"
        \/ pc[t] = "policy" /\ pc'[t] \in {"failed", "routing"}
        \/ pc[t] = "routing" /\ pc'[t] \in {"failed", "enter"}
        \/ pc[t] = "answered" /\ pc'[t] \in {"done", "abandoned"}
    BY <1>0, <1>1 DEF Start, PolicyRejects, PolicyApproves, NoCandidates, MakePlan, ReturnResult,
                      ReturnPanic, Goto
  <2> QED
    BY <2>1 DEF Forward, Part
<1>2. CASE \E r \in Rail : LookAt(t, r)
  BY <1>0, <1>2 DEF LookAt, Forward
<1>3. CASE EnterLeg(t)
  <2>1. pc[t] = "enter" /\ UNCHANGED <<plan, tries>>
    BY <1>3 DEF EnterLeg
  <2>2. (pc'[t] = "attempt" /\ leg' = leg) \/ \E rows : LegFails(t, rows)
    BY <1>0, <1>3 DEF EnterLeg, Goto
  <2>3. CASE pc'[t] = "attempt" /\ leg' = leg
    BY <2>1, <2>3 DEF Forward, Part, Place
  <2> QED
    BY <2>1, <2>2, <2>3, FailForward
<1>4. CASE BackoffEnds(t)
  <2>1. pc[t] = "backoff" /\ UNCHANGED <<plan, tries>>
    BY <1>4 DEF BackoffEnds
  <2>2. (pc'[t] = "attempt" /\ leg' = leg) \/ \E rows : LegFails(t, rows)
    BY <1>0, <1>4 DEF BackoffEnds, Goto
  <2>3. CASE pc'[t] = "attempt" /\ leg' = leg
    BY <2>1, <2>3 DEF Forward, Part, Place
  <2> QED
    BY <2>1, <2>2, <2>3, FailForward
<1>5. CASE BeginAttempt(t) \/ RefuseAttempt(t)
  <2>1. /\ pc[t] = "attempt" /\ plan' = plan
        /\ tries' = [tries EXCEPT ![t][Current(t)] = @ + 1]
    BY <1>5 DEF BeginAttempt, RefuseAttempt, CountAttempt, saga
  <2>2. Current(t) \in Rail /\ tries[t][Current(t)] < Attempts[Current(t)]
    BY <2>1, CurrentIsRail DEF Journey, Trying
  <2>3. /\ tries[t][Current(t)] < tries'[t][Current(t)]
        /\ tries'[t][Current(t)] <= Attempts[Current(t)]
    BY <1>0, <2>1, <2>2
  <2>4. CASE BeginAttempt(t)
    <3>1. pc'[t] = "inflight" /\ leg' = leg
      BY <1>0, <2>4 DEF BeginAttempt, Goto, saga
    <3> QED
      BY <2>1, <2>3, <3>1 DEF Forward, Part
  <2>5. CASE RefuseAttempt(t)
    <3>1. AttemptFails(t, tries[t][Current(t)] + 1)
      BY <2>5 DEF RefuseAttempt
    <3>2. tries'[t][Current(t)] # tries[t][Current(t)]
      BY <1>0, <2>2, <2>3
    <3>3. tries' # tries
      BY <3>2
    <3> QED
      BY <2>1, <2>3, <3>1, <3>3, FailForward
  <2> QED
    BY <1>5, <2>4, <2>5
<1>6. CASE \E o \in Outcome : RailActs(t, o)
  <2>1. pc[t] = "inflight" /\ pc'[t] = "answered" /\ UNCHANGED <<plan, leg, tries>>
    BY <1>0, <1>6 DEF RailActs, Goto, saga
  <2> QED
    BY <2>1 DEF Forward, Part, Place
<1>7. CASE ReturnError(t)
  <2>1. /\ pc[t] = "answered" /\ UNCHANGED <<plan, tries>>
        /\ AttemptFails(t, tries[t][Current(t)])
    BY <1>7 DEF ReturnError
  <2>2. Place(pc[t]) < 3
    BY <2>1 DEF Place
  <2> QED
    BY <2>1, <2>2, FailForward
<1> QED
  BY <1>1, <1>2, <1>3, <1>4, <1>5, <1>6, <1>7 DEF Step

\* For any plans, attempts, breakers and crashes: no step of a goroutine is
\* in vain, and none of what it has behind it comes again.
THEOREM NoWayBack == Spec => NeverBack
<1> DEFINE Moves == \A t \in Tx : (Step(t) => Forward(t)) /\ (Forward(t) \/ Stays(t))
<1>1. ASSUME TypeInv, TripInv, [Next]_vars PROVE [Moves]_vars
  <2>1. \A t \in Tx : Step(t) => Forward(t)
    BY <1>1, ForwardOwn DEF TripInv
  <2>2. CASE \E t \in Tx : Step(t)
    BY <1>1, <2>1, <2>2, StaysFrame
  <2>3. CASE Crash
    <3>1. /\ \A t \in Tx : pc'[t] = IF Running(t) THEN "abandoned" ELSE pc[t]
          /\ UNCHANGED <<todo, plan, leg, tries>>
      BY <2>3 DEF Crash, saga
    <3>2. \A t \in Tx : Running(t) => Part(pc[t]) < Part("abandoned")
      BY <1>1 DEF Running, Over, Part, TypeInv, TypeOK, Locations
    <3> QED
      BY <2>1, <3>1, <3>2 DEF Forward, Stays
  <2>4. CASE \/ \E t \in Tx : ContextEnds(t)
             \/ \E t \in Tx, outcome \in {"published", "dropped"} : PublishEvent(t, outcome)
             \/ \E r \in Rail : IntervalElapses(r) \/ TimeoutElapses(r)
    BY <2>1, <2>4 DEF ContextEnds, PublishEvent, IntervalElapses, TimeoutElapses, Stays, saga
  <2> QED
    BY <1>1, <2>2, <2>3, <2>4 DEF Next
<1>2. Init => TypeInv /\ TripInv
  BY TypeInit, TripInit
<1>3. TypeInv /\ TripInv /\ [Next]_vars => TypeInv' /\ TripInv'
  BY TypeStep, TripStep
<1> QED
  BY <1>1, <1>2, <1>3, PTL DEF Spec, NeverBack

-----------------------------------------------------------------------------
(* What moves a breaker that all sagas share.                              *)

\* A rail is switched off, or found well again, by a call of some saga to this
\* very rail, admitted since the counts were last cleared, whose result comes
\* in; time only lets an open breaker try, and a crash forgets everything.
OwnCallsDecide ==
    [][ \A r \in Rail : breaker[r].state # "open" /\ breaker'[r].state # breaker[r].state =>
            \/ \E t \in Counted(r) : pc[t] = "answered" /\ pc'[t] # "answered"
            \/ crashes' # crashes ]_vars

\* A result that changes a breaker's state counts for that breaker.
LEMMA SettleDecides ==
    ASSUME TypeInv, NEW t \in Tx, Settle(t), pc[t] = "answered", NEW r \in Rail,
           breaker'[r].state # breaker[r].state
    PROVE  t \in Counted(r)
<1>1. Current(t) \in Rail /\ breaker \in [Rail -> Breakers]
  BY CurrentIsRail DEF Trying, TypeInv, TypeOK
<1>2. ~ fresh[t] => breaker' = breaker
  BY <1>1 DEF Settle
<1>3. r # Current(t) => breaker'[r] = breaker[r]
  BY <1>1 DEF Settle
<1> QED
  BY <1>2, <1>3 DEF Counted, OutOn

\* Whatever the rails, plans, breakers and crashes: no saga's call to one rail
\* moves the breaker of another, and no call of an earlier generation its own.
THEOREM NoOtherRailDecides == Spec => OwnCallsDecide
<1> DEFINE Own(r) == breaker[r].state # "open" /\ breaker'[r].state # breaker[r].state =>
                         \/ \E t \in Counted(r) : pc[t] = "answered" /\ pc'[t] # "answered"
                         \/ crashes' # crashes
<1>1. ASSUME TypeInv, [Next]_vars, NEW r \in Rail PROVE Own(r) \/ UNCHANGED vars
  <2>0. /\ breaker \in [Rail -> Breakers] /\ pc \in [Tx -> Locations] /\ crashes \in Nat
        /\ \A t \in Tx : pc[t] \in Trying => Current(t) \in Rail
    BY <1>1, CurrentIsRail DEF TypeInv, TypeOK
  <2>1. ASSUME NEW t \in Tx, ReturnResult(t) \/ ReturnError(t) \/ ReturnPanic(t) PROVE Own(r)
    <3>1. Settle(t) /\ pc[t] = "answered"
      BY <2>1 DEF ReturnResult, ReturnError, ReturnPanic
    <3>2. pc'[t] # "answered"
      BY <2>0, <2>1 DEF ReturnResult, ReturnError, ReturnPanic, AttemptFails, LegFails, Goto
    <3> QED
      BY <1>1, <3>1, <3>2, SettleDecides
  <2>2. ASSUME NEW t \in Tx, BeginAttempt(t) PROVE Own(r)
    BY <2>0, <2>2 DEF BeginAttempt, Admitted, Trying, Breakers
  <2>3. ASSUME NEW q \in Rail, IntervalElapses(q) \/ TimeoutElapses(q) PROVE Own(r)
    BY <2>0, <2>3 DEF IntervalElapses, TimeoutElapses, NewGeneration
  <2>4. CASE Crash
    BY <2>0, <2>4 DEF Crash
  <2>5. CASE breaker' = breaker
    BY <2>5
  <2>6. ASSUME NEW t \in Tx, Step(t) PROVE Own(r)
    <3>1. \/ ReturnResult(t) \/ ReturnError(t) \/ ReturnPanic(t) \/ BeginAttempt(t)
          \/ breaker' = breaker
      BY <2>6 DEF Step, Start, PolicyRejects, PolicyApproves, LookAt, NoCandidates, MakePlan,
                  EnterLeg, BackoffEnds, RefuseAttempt, RailActs
    <3> QED
      BY <2>1, <2>2, <2>5, <3>1
  <2>7. CASE \/ \E t \in Tx : ContextEnds(t)
             \/ \E t \in Tx, outcome \in {"published", "dropped"} : PublishEvent(t, outcome)
    BY <2>5, <2>7 DEF ContextEnds, PublishEvent
  <2> QED
    BY <1>1, <2>3, <2>4, <2>6, <2>7 DEF Next
<1>2. TypeInv /\ [Next]_vars => [\A r \in Rail : Own(r)]_vars
  BY <1>1
<1>3. TypeInv /\ [Next]_vars => TypeInv'
  BY TypeStep
<1> QED
  BY <1>2, <1>3, TypeInit, PTL DEF Spec, OwnCallsDecide
=============================================================================
