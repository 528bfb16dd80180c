----------------------- MODULE PolicyApprovalsProofs ------------------------
(***************************************************************************)
(* Theorems about PolicyApprovals, for any policies, approvals, decisions  *)
(* and changes.                                                            *)
(***************************************************************************)
EXTENDS PolicyApprovals, FiniteSetTheorems, TLAPS

\* A handler on its way to change its policy's attributes.
Changing(d) == pc[d] \in {"changing", "changed"}

\* What a handler's location says of its approval.
HandlerInv ==
    \A d \in Decision :
        /\ pc[d] \in InTransaction => status[ApprovalOf[d]] = "pending"
        /\ Changing(d) => Verdict[d] = "approved" /\ Change[ApprovalOf[d]] = "attributes"
        /\ pc[d] = "committing" =>
               Verdict[d] # "approved" \/ Change[ApprovalOf[d]] # "attributes"

\* Two handlers are never in a transaction for one approval.
LockInv ==
    \A d, e \in Decision :
        pc[d] \in InTransaction /\ pc[e] \in InTransaction /\ ApprovalOf[d] = ApprovalOf[e]
            => d = e

\* A version that p may have, or may have had.
Earned(v, p) == FirstVersion[p] <= v /\ v <= FirstVersion[p] + Cardinality(Applied(p))

\* Versions, those read by handlers too, have been earned by approvals.
VersionInv ==
    /\ \A p \in Policy : Earned(version[p], p)
    /\ \A d \in Decision : Changing(d) => Earned(seen[d], Target(d))

\* The inductive invariant.
ApprovalInv ==
    /\ TypeOK /\ HandlerInv /\ LockInv /\ OneDecider
    /\ InForceApproved /\ VersionInv /\ NoVersionWithoutApproval

LEMMA Targets == \A d \in Decision : ApprovalOf[d] \in Approval /\ Target(d) \in Policy
BY PolicyAssumption DEF Target

LEMMA AppliedFinite ==
    \A p \in Policy : IsFiniteSet(Applied(p)) /\ Cardinality(Applied(p)) \in Nat
<1> TAKE p \in Policy
<1>1. Applied(p) \subseteq Approval
  BY DEF Applied
<1> QED BY <1>1, PolicyAssumption, FS_Subset, FS_CardinalityType

\* Initially nothing has been proposed.
LEMMA InitApproval == Init => ApprovalInv
<1> SUFFICES ASSUME Init PROVE ApprovalInv
  OBVIOUS
<1> USE PolicyAssumption DEF Init
<1>1. \A p \in Policy : Applied(p) = {}
  BY DEF Applied
<1>2. TypeOK
  BY DEF TypeOK, Locations
<1>3. HandlerInv /\ LockInv /\ OneDecider
  BY DEF HandlerInv, LockInv, OneDecider, Decided, InTransaction, Changing
<1>4. InForceApproved
  BY <1>1 DEF InForceApproved
<1>5. \A p \in Policy : Cardinality(Applied(p)) = 0 /\ FirstVersion[p] \in Int
  BY <1>1, FS_EmptySet
<1>6. VersionInv /\ NoVersionWithoutApproval
  BY <1>5 DEF VersionInv, NoVersionWithoutApproval, Earned, Changing
<1> QED BY <1>2, <1>3, <1>4, <1>6 DEF ApprovalInv

\* Every step keeps the types.
LEMMA TypeStep == TypeOK /\ [Next]_vars => TypeOK'
<1> SUFFICES ASSUME TypeOK, [Next]_vars PROVE TypeOK'
  OBVIOUS
<1> USE PolicyAssumption, Targets DEF TypeOK, Locations, InTransaction, Goto, rows
<1>1. ASSUME NEW p \in Policy, CreatePolicy(p) PROVE TypeOK'
  BY <1>1 DEF CreatePolicy
<1>2. ASSUME NEW a \in Approval, ProposePolicyChange(a) PROVE TypeOK'
  BY <1>2 DEF ProposePolicyChange, Verdicts
<1>3. ASSUME NEW d \in Decision, UpdateApproval(d) PROVE TypeOK'
  BY <1>3 DEF UpdateApproval
<1>4. ASSUME NEW d \in Decision, NotApproved(d) PROVE TypeOK'
  BY <1>4 DEF NotApproved
<1>5. ASSUME NEW d \in Decision, SelectVersion(d) PROVE TypeOK'
  BY <1>5 DEF SelectVersion, Changes
<1>6. ASSUME NEW d \in Decision, UpdatePolicy(d) PROVE TypeOK'
  BY <1>6 DEF UpdatePolicy
<1>7. ASSUME NEW d \in Decision, NEW b \in BOOLEAN, Commit(d, b) PROVE TypeOK'
  BY <1>7 DEF Commit
<1>8. ASSUME NEW d \in Decision, Rollback(d) PROVE TypeOK'
  BY <1>8 DEF Rollback
<1>9. ASSUME UNCHANGED vars PROVE TypeOK'
  BY <1>9 DEF vars
<1> QED BY <1>1, <1>2, <1>3, <1>4, <1>5, <1>6, <1>7, <1>8, <1>9 DEF Next, Decide
-----------------------------------------------------------------------------
(* Handlers, their locks and what they tell their callers.                 *)

LEMMA HandlerStep ==
    TypeOK /\ HandlerInv /\ LockInv /\ OneDecider /\ [Next]_vars
        => HandlerInv' /\ LockInv' /\ OneDecider'
<1> SUFFICES ASSUME TypeOK, HandlerInv, LockInv, OneDecider, [Next]_vars
             PROVE  HandlerInv' /\ LockInv' /\ OneDecider'
  OBVIOUS
<1> USE PolicyAssumption, Targets
        DEF TypeOK, HandlerInv, LockInv, OneDecider, Decided, FinalVerdicts, InTransaction,
            Changing, Goto, rows
<1>1. ASSUME NEW p \in Policy, CreatePolicy(p) PROVE HandlerInv' /\ LockInv' /\ OneDecider'
  BY <1>1 DEF CreatePolicy
<1>2. ASSUME NEW a \in Approval, ProposePolicyChange(a)
      PROVE  HandlerInv' /\ LockInv' /\ OneDecider'
  BY <1>2 DEF ProposePolicyChange, Verdicts
<1>3. ASSUME NEW d \in Decision, UpdateApproval(d)
      PROVE  HandlerInv' /\ LockInv' /\ OneDecider'
  BY <1>3 DEF UpdateApproval, Locks
<1>4. ASSUME NEW d \in Decision, NotApproved(d)
      PROVE  HandlerInv' /\ LockInv' /\ OneDecider'
  BY <1>4 DEF NotApproved
<1>5. ASSUME NEW d \in Decision, SelectVersion(d)
      PROVE  HandlerInv' /\ LockInv' /\ OneDecider'
  BY <1>5 DEF SelectVersion, Changes
<1>6. ASSUME NEW d \in Decision, UpdatePolicy(d)
      PROVE  HandlerInv' /\ LockInv' /\ OneDecider'
  BY <1>6 DEF UpdatePolicy
<1>7. ASSUME NEW d \in Decision, NEW b \in BOOLEAN, Commit(d, b)
      PROVE  HandlerInv' /\ LockInv' /\ OneDecider'
  <2>1. status[ApprovalOf[d]] = "pending" /\ pc'[d] \in {"done", "refused"}
    BY <1>7 DEF Commit
  <2>2. \A e \in Decision : e # d => pc'[e] = pc[e]
    BY <1>7 DEF Commit
  <2>3. /\ status'[ApprovalOf[d]] = Verdict[d]
        /\ \A a \in Approval : a # ApprovalOf[d] => status'[a] = status[a]
    BY <1>7 DEF Commit
  <2>4. HandlerInv' /\ LockInv'
    BY <1>7, <2>1, <2>2, <2>3 DEF Commit
  <2>5. OneDecider'
    BY <2>1, <2>2, <2>3 DEF Verdicts
  <2> QED BY <2>4, <2>5
<1>8. ASSUME NEW d \in Decision, Rollback(d)
      PROVE  HandlerInv' /\ LockInv' /\ OneDecider'
  BY <1>8 DEF Rollback
<1>9. ASSUME UNCHANGED vars PROVE HandlerInv' /\ LockInv' /\ OneDecider'
  BY <1>9 DEF vars
<1> QED BY <1>1, <1>2, <1>3, <1>4, <1>5, <1>6, <1>7, <1>8, <1>9 DEF Next, Decide
-----------------------------------------------------------------------------
(* Policies: what is in force, and versions.                               *)

\* All steps but COMMIT leave the approved changes as they are.
LEMMA QuietApplied ==
    ASSUME TypeOK,
           UNCHANGED status \/ \E a \in Approval : ProposePolicyChange(a),
           NEW p \in Policy
    PROVE  Applied(p)' = Applied(p)
BY DEF TypeOK, Applied, ProposePolicyChange

\* COMMIT adds the change that it applies, and no other.
LEMMA CommitApplied ==
    ASSUME TypeOK, HandlerInv, NEW d \in Decision, NEW b \in BOOLEAN, Commit(d, b),
           NEW p \in Policy
    PROVE  IF pc[d] = "changed" /\ p = Target(d)
           THEN ApprovalOf[d] \notin Applied(p) /\ Applied(p)' = Applied(p) \cup {ApprovalOf[d]}
           ELSE Applied(p)' = Applied(p)
<1> USE PolicyAssumption, Targets
<1>1. status[ApprovalOf[d]] = "pending"
  BY DEF Commit, HandlerInv, InTransaction
<1>2. status' = [status EXCEPT ![ApprovalOf[d]] = Verdict[d]]
  BY DEF Commit
<1>3. pc[d] = "changed" => Verdict[d] = "approved" /\ Change[ApprovalOf[d]] = "attributes"
  BY DEF HandlerInv, Changing
<1>4. pc[d] = "committing" => Verdict[d] # "approved" \/ Change[ApprovalOf[d]] # "attributes"
  BY DEF HandlerInv
<1>5. pc[d] \in {"changed", "committing"}
  BY DEF Commit
<1> QED BY <1>1, <1>2, <1>3, <1>4, <1>5 DEF TypeOK, Applied, Target

\* What holds of policies and versions.
PolicyInv == InForceApproved /\ VersionInv /\ NoVersionWithoutApproval

\* A step that neither commits nor reads a version keeps it.
LEMMA QuietStep ==
    ASSUME TypeOK, PolicyInv,
           UNCHANGED status \/ \E a \in Approval : ProposePolicyChange(a),
           UNCHANGED <<version, inForce, seen>>,
           \A d \in Decision : Changing(d)' => Changing(d)
    PROVE  PolicyInv'
<1>1. \A p \in Policy : Applied(p)' = Applied(p)
  BY QuietApplied
<1>2. InForceApproved'
  BY <1>1 DEF PolicyInv, InForceApproved
<1>3. NoVersionWithoutApproval'
  BY <1>1 DEF PolicyInv, NoVersionWithoutApproval
<1>4. \A v, p : p \in Policy /\ Earned(v, p) => Earned(v, p)'
  BY <1>1 DEF Earned
<1>5. VersionInv'
  BY <1>4, Targets DEF PolicyInv, VersionInv, Target
<1> QED BY <1>2, <1>3, <1>5 DEF PolicyInv

\* COMMIT keeps it.
LEMMA CommitStep ==
    ASSUME TypeOK, HandlerInv, PolicyInv, NEW d \in Decision, NEW b \in BOOLEAN, Commit(d, b)
    PROVE  PolicyInv'
<1> DEFINE n(p) == Cardinality(Applied(p))
<1>1. \A p \in Policy : FirstVersion[p] \in Int /\ version[p] \in Int /\ seen[d] \in Int
  BY PolicyAssumption DEF TypeOK
<1>2. \A p \in Policy :
         IF pc[d] = "changed" /\ p = Target(d)
         THEN ApprovalOf[d] \notin Applied(p) /\ Applied(p)' = Applied(p) \cup {ApprovalOf[d]}
         ELSE Applied(p)' = Applied(p)
  BY CommitApplied
<1>3. \A p \in Policy : n(p) \in Nat /\ n(p)' \in Nat /\ n(p)' >= n(p)
                        /\ (pc[d] = "changed" /\ p = Target(d) => n(p)' = n(p) + 1)
  <2> SUFFICES ASSUME NEW p \in Policy
               PROVE  /\ n(p) \in Nat /\ n(p)' \in Nat /\ n(p)' >= n(p)
                      /\ pc[d] = "changed" /\ p = Target(d) => n(p)' = n(p) + 1
    OBVIOUS
  <2>1. IsFiniteSet(Applied(p)) /\ n(p) \in Nat
    BY AppliedFinite
  <2>2. CASE pc[d] = "changed" /\ p = Target(d)
    <3>1. n(p)' = n(p) + 1
      BY <1>2, <2>1, <2>2, FS_AddElement
    <3> HIDE DEF n
    <3> QED BY <2>1, <3>1
  <2>3. CASE ~ (pc[d] = "changed" /\ p = Target(d))
    <3>1. n(p)' = n(p)
      BY <1>2, <2>3
    <3> HIDE DEF n
    <3> QED BY <2>1, <2>3, <3>1
  <2> QED BY <2>2, <2>3
<1>4. pc[d] = "changed" => /\ version' = [version EXCEPT ![Target(d)] = seen[d] + 1]
                           /\ inForce' = [inForce EXCEPT ![Target(d)] = ApprovalOf[d]]
                           /\ Earned(seen[d], Target(d))
  BY DEF Commit, PolicyInv, VersionInv, Changing
<1>5. pc[d] # "changed" => UNCHANGED <<version, inForce>>
  BY DEF Commit
<1>6. \A e \in Decision : Changing(e)' => Changing(e) /\ seen'[e] = seen[e] /\ seen[e] \in Int
  BY DEF Commit, Goto, Changing, TypeOK
<1>7. InForceApproved'
  BY <1>2, <1>4, <1>5, Targets, PolicyAssumption DEF PolicyInv, InForceApproved, TypeOK
<1>8. \A p \in Policy : Earned(version[p], p)'
  BY <1>1, <1>3, <1>4, <1>5 DEF PolicyInv, VersionInv, Earned, TypeOK
<1>9. \A e \in Decision : Changing(e)' => Earned(seen[e], Target(e))'
  BY <1>1, <1>3, <1>6, Targets DEF PolicyInv, VersionInv, Earned, Target
<1>10. \A p \in Policy : inForce'[p] # NoApproval => version'[p] > FirstVersion[p]
  BY <1>1, <1>4, <1>5 DEF PolicyInv, NoVersionWithoutApproval, Earned, TypeOK
<1> QED BY <1>7, <1>8, <1>9, <1>10 DEF PolicyInv, VersionInv, NoVersionWithoutApproval, Earned

LEMMA PolicyStep == TypeOK /\ HandlerInv /\ PolicyInv /\ [Next]_vars => PolicyInv'
<1> SUFFICES ASSUME TypeOK, HandlerInv, PolicyInv, [Next]_vars PROVE PolicyInv'
  OBVIOUS
<1> USE DEF Changing, Goto, rows, TypeOK
<1>1. ASSUME NEW p \in Policy, CreatePolicy(p) PROVE PolicyInv'
  BY <1>1, QuietStep DEF CreatePolicy
<1>2. ASSUME NEW a \in Approval, ProposePolicyChange(a) PROVE PolicyInv'
  BY <1>2, QuietStep DEF ProposePolicyChange
<1>3. ASSUME NEW d \in Decision, UpdateApproval(d) PROVE PolicyInv'
  BY <1>3, QuietStep DEF UpdateApproval
<1>4. ASSUME NEW d \in Decision, NotApproved(d) PROVE PolicyInv'
  BY <1>4, QuietStep DEF NotApproved
<1>5. ASSUME NEW d \in Decision, SelectVersion(d) PROVE PolicyInv'
  <2>1. \A p \in Policy : Applied(p)' = Applied(p)
    BY <1>5, QuietApplied DEF SelectVersion
  <2>2. InForceApproved' /\ NoVersionWithoutApproval'
    BY <1>5, <2>1 DEF SelectVersion, PolicyInv, InForceApproved, NoVersionWithoutApproval
  <2>3. \A v, p : p \in Policy /\ Earned(v, p) => Earned(v, p)'
    BY <2>1 DEF Earned
  <2>4. \A e \in Decision : e # d => seen'[e] = seen[e] /\ pc'[e] = pc[e]
    BY <1>5 DEF SelectVersion
  <2>5. Earned(seen'[d], Target(d))
    BY <1>5, Targets DEF SelectVersion, PolicyInv, VersionInv
  <2>6. VersionInv'
    BY <1>5, <2>3, <2>4, <2>5, Targets DEF SelectVersion, PolicyInv, VersionInv, Target
  <2> QED BY <2>2, <2>6 DEF PolicyInv
<1>6. ASSUME NEW d \in Decision, UpdatePolicy(d) PROVE PolicyInv'
  BY <1>6, QuietStep DEF UpdatePolicy
<1>7. ASSUME NEW d \in Decision, NEW b \in BOOLEAN, Commit(d, b) PROVE PolicyInv'
  BY <1>7, CommitStep
<1>8. ASSUME NEW d \in Decision, Rollback(d) PROVE PolicyInv'
  BY <1>8, QuietStep DEF Rollback, InTransaction
<1>9. ASSUME UNCHANGED vars PROVE PolicyInv'
  BY <1>9, QuietStep DEF vars
<1> QED BY <1>1, <1>2, <1>3, <1>4, <1>5, <1>6, <1>7, <1>8, <1>9 DEF Next, Decide
-----------------------------------------------------------------------------
LEMMA Inductive == Spec => []ApprovalInv
<1>1. ApprovalInv /\ [Next]_vars => ApprovalInv'
  BY TypeStep, HandlerStep, PolicyStep DEF ApprovalInv, PolicyInv
<1> QED BY <1>1, InitApproval, PTL DEF Spec

\* Every variable keeps its type.
THEOREM TypeCorrect == Spec => []TypeOK
BY Inductive, PTL DEF ApprovalInv

\* Whatever decisions and changes there are, an approval has one decider, who
\* is told the final verdict that is stored.
THEOREM OneDeciderOnly == Spec => []OneDecider
BY Inductive, PTL DEF ApprovalInv

\* A policy has the attributes that somebody approved for it.
THEOREM AttributesApproved == Spec => []InForceApproved
BY Inductive, PTL DEF ApprovalInv

\* Versions come from approvals.
THEOREM VersionsEarned == Spec => []NoVersionWithoutApproval
BY Inductive, PTL DEF ApprovalInv

\* A verdict is final: only COMMIT writes one, to an approval still pending.
THEOREM VerdictsFinal == Spec => DecidedOnce
<1> DEFINE Final == \A a \in Approval : status[a] \in FinalVerdicts => status'[a] = status[a]
<1>1. ApprovalInv /\ [Next]_vars => [Final]_vars
  <2> SUFFICES ASSUME TypeOK, HandlerInv, Next PROVE Final
    BY DEF ApprovalInv
  <2> USE DEF TypeOK, rows, FinalVerdicts
  <2>1. ASSUME NEW d \in Decision, NEW b \in BOOLEAN, Commit(d, b) PROVE Final
    <3>1. status[ApprovalOf[d]] = "pending"
      BY <2>1 DEF Commit, HandlerInv, InTransaction
    <3> QED BY <2>1, <3>1 DEF Commit, Verdicts
  <2>2. ASSUME NEW a \in Approval, ProposePolicyChange(a) PROVE Final
    BY <2>2 DEF ProposePolicyChange, Verdicts
  <2>3. ASSUME UNCHANGED status PROVE Final
    BY <2>3
  <2> QED BY <2>1, <2>2, <2>3 DEF Next, Decide, CreatePolicy, UpdateApproval, NotApproved,
             SelectVersion, UpdatePolicy, Rollback
<1> QED BY <1>1, Inductive, PTL DEF Spec, DecidedOnce
-----------------------------------------------------------------------------
(* Versions, when the changes of a policy take turns.                      *)

\* No handler is between reading a policy's version and COMMIT while another
\* one is: what the SELECT of the version, which locks nothing, leaves to luck.
OneChanger ==
    \A d, e \in Decision : Changing(d) /\ Changing(e) /\ Target(d) = Target(e) => d = e

\* The version that a handler has read is still that of its policy.
TurnInv ==
    /\ VersionPerChange
    /\ \A d \in Decision : Changing(d) => seen[d] = version[Target(d)]

LEMMA InitTurn == Init => TurnInv
<1> SUFFICES ASSUME Init PROVE TurnInv
  OBVIOUS
<1>1. \A p \in Policy : Applied(p) = {} /\ version[p] = FirstVersion[p]
  BY DEF Init, Applied
<1>2. \A p \in Policy : Cardinality(Applied(p)) = 0 /\ FirstVersion[p] \in Int
  BY <1>1, FS_EmptySet, PolicyAssumption
<1> QED BY <1>1, <1>2 DEF TurnInv, VersionPerChange, Init, Changing

LEMMA TurnStep ==
    TypeOK /\ HandlerInv /\ OneChanger /\ TurnInv /\ [Next]_vars => TurnInv'
<1> SUFFICES ASSUME TypeOK, HandlerInv, OneChanger, TurnInv, [Next]_vars PROVE TurnInv'
  OBVIOUS
<1>0. /\ version \in [Policy -> Int] /\ seen \in [Decision -> Int] /\ pc \in [Decision -> Locations]
      /\ FirstVersion \in [Policy -> Int]
  BY PolicyAssumption DEF TypeOK
\* A step that does not commit.
<1>1. ASSUME UNCHANGED status \/ \E a \in Approval : ProposePolicyChange(a),
             version' = version,
             \A d \in Decision : Changing(d)' =>
                 seen'[d] = version[Target(d)] \/ (Changing(d) /\ seen'[d] = seen[d])
      PROVE  TurnInv'
  <2>1. \A p \in Policy : Applied(p)' = Applied(p)
    BY <1>1, QuietApplied
  <2> QED BY <1>1, <2>1 DEF TurnInv, VersionPerChange, Target
<1>2. ASSUME NEW d \in Decision, NEW b \in BOOLEAN, Commit(d, b) PROVE TurnInv'
  <2> DEFINE n(p) == Cardinality(Applied(p))
  <2>1. \A p \in Policy :
           IF pc[d] = "changed" /\ p = Target(d)
           THEN ApprovalOf[d] \notin Applied(p) /\ Applied(p)' = Applied(p) \cup {ApprovalOf[d]}
           ELSE Applied(p)' = Applied(p)
    BY <1>2, CommitApplied
  <2>2. \A p \in Policy : /\ n(p) \in Nat
                          /\ n(p)' = IF pc[d] = "changed" /\ p = Target(d) THEN n(p) + 1 ELSE n(p)
    <3> TAKE p \in Policy
    <3>1. IsFiniteSet(Applied(p)) /\ n(p) \in Nat
      BY AppliedFinite
    <3>2. pc[d] = "changed" /\ p = Target(d) => n(p)' = n(p) + 1
      BY <2>1, <3>1, FS_AddElement
    <3>3. ~ (pc[d] = "changed" /\ p = Target(d)) => n(p)' = n(p)
      BY <2>1
    <3> HIDE DEF n
    <3> QED BY <3>1, <3>2, <3>3
  <2> HIDE DEF n
  <2>3. \A p \in Policy : version[p] = FirstVersion[p] + n(p)
    BY DEF TurnInv, VersionPerChange, n
  <2>4. /\ seen' = seen /\ \A e \in Decision : Changing(e)' => Changing(e) /\ e # d
        /\ pc[d] = "changed" => version' = [version EXCEPT ![Target(d)] = version[Target(d)] + 1]
        /\ pc[d] # "changed" => version' = version
    BY <1>0, <1>2 DEF Commit, Goto, Changing, TurnInv
  <2>5. \A p \in Policy : version'[p] = FirstVersion[p] + n(p)'
    BY <1>0, <2>2, <2>3, <2>4
  <2>6. \A e \in Decision : Changing(e)' => seen'[e] = version'[Target(e)]
    <3> SUFFICES ASSUME NEW e \in Decision, Changing(e)' PROVE seen'[e] = version'[Target(e)]
      OBVIOUS
    <3>1. seen[e] = version[Target(e)] /\ Changing(e) /\ e # d
      BY <2>4 DEF TurnInv
    <3>2. pc[d] = "changed" => Target(e) # Target(d)
      BY <3>1 DEF OneChanger, Changing
    <3> QED BY <1>0, <2>4, <3>1, <3>2, Targets
  <2> QED BY <2>5, <2>6 DEF TurnInv, VersionPerChange, Target, n
<1>3. ASSUME NEW d \in Decision, SelectVersion(d) PROVE TurnInv'
  <2>1. seen' = [seen EXCEPT ![d] = version[Target(d)]] /\ UNCHANGED <<status, version>>
        /\ \A e \in Decision \ {d} : pc'[e] = pc[e]
    BY <1>0, <1>3 DEF SelectVersion, Goto, rows
  <2> QED BY <1>0, <1>1, <2>1 DEF Changing
<1>4. ASSUME NEW d \in Decision,
             UpdateApproval(d) \/ NotApproved(d) \/ UpdatePolicy(d) \/ Rollback(d)
      PROVE  TurnInv'
  <2>1. UNCHANGED <<status, version, seen>> /\ \A e \in Decision : Changing(e)' => Changing(e)
    BY <1>0, <1>4 DEF UpdateApproval, NotApproved, UpdatePolicy, Rollback, Goto, rows, Changing
  <2> QED BY <1>1, <2>1
<1>5. CASE \/ \E p \in Policy : CreatePolicy(p)
           \/ \E a \in Approval : ProposePolicyChange(a)
           \/ UNCHANGED vars
  <2>1. /\ UNCHANGED <<version, seen, pc>>
        /\ UNCHANGED status \/ \E a \in Approval : ProposePolicyChange(a)
    BY <1>5 DEF CreatePolicy, ProposePolicyChange, vars, rows
  <2> QED BY <1>1, <2>1 DEF Changing
<1> QED BY <1>2, <1>3, <1>4, <1>5 DEF Next, Decide

\* The claim of postgres.go:111 fails for one reason only: while no two
\* handlers change one policy at once, every approved change makes a version.
THEOREM VersionsInTurn == Spec /\ []OneChanger => []VersionPerChange
<1>1. ApprovalInv => TypeOK /\ HandlerInv
  BY DEF ApprovalInv
<1>2. TurnInv => VersionPerChange
  BY DEF TurnInv
<1> QED BY <1>1, <1>2, InitTurn, TurnStep, Inductive, PTL DEF Spec
=============================================================================
