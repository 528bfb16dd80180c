-------------------------- MODULE PolicyApprovals ---------------------------
(***************************************************************************)
(* Policies and the approval of their changes: the auth service's tables   *)
(* policies and policy_approvals, and decisions that arrive at the same    *)
(* time.  Each decision is a handler with one database transaction; the    *)
(* statements of several interleave, as PostgreSQL's READ COMMITTED lets   *)
(* them: an UPDATE waits for the row's other writer and looks at the row   *)
(* again, a SELECT reads what is committed.                                *)
(***************************************************************************)
EXTENDS Integers, FiniteSets

CONSTANTS
    Policy,
    Approval,     \* proposed changes
    NoApproval,
    Decision,     \* calls of POST /admin/approvals/{id}/decide
    PolicyOf,     \* PolicyOf[a]: the policy that a changes
    Change,       \* Change[a]: what proposed_changes is
    ApprovalOf,   \* ApprovalOf[d]: the approval decided
    Verdict,      \* Verdict[d]: the status the caller sends
    FirstVersion  \* FirstVersion[p]: version of a new policy, its creator's choice

\* attributes: an object with attributes; other: one without; broken: no object.
Changes == {"attributes", "other", "broken"}

\* The service takes any status and stores it: "approved" applies the change,
\* "pending" leaves the approval to be decided again, others end it.
Verdicts == {"pending", "approved", "rejected", "postponed"}
FinalVerdicts == Verdicts \ {"pending"}

ASSUME PolicyAssumption ==
    /\ IsFiniteSet(Approval) /\ NoApproval \notin Approval
    /\ PolicyOf \in [Approval -> Policy]
    /\ Change \in [Approval -> Changes]
    /\ ApprovalOf \in [Decision -> Approval]
    /\ Verdict \in [Decision -> Verdicts]
    /\ FirstVersion \in [Policy -> Int]

VARIABLES
    created,     \* policies with a row
    version,     \* version[p]: committed version of p
    inForce,     \* inForce[p]: the change whose attributes p has
    status,      \* status[a]: committed status of a, "none" without a row
    pc,          \* where the handler of a decision is
    seen         \* currentVersion of the handler

rows == <<created, version, inForce, status>>
vars == <<rows, pc, seen>>

\* Handlers inside their transaction; from "changed" on they have locked the
\* policy's row too.
InTransaction == {"decided", "changing", "changed", "committing"}
Locations == {"idle", "refused", "done"} \cup InTransaction

TypeOK ==
    /\ created \subseteq Policy
    /\ version \in [Policy -> Int]
    /\ inForce \in [Policy -> Approval \cup {NoApproval}]
    /\ status \in [Approval -> {"none"} \cup Verdicts]
    /\ pc \in [Decision -> Locations]
    /\ seen \in [Decision -> Int]

Init ==
    /\ created = {}
    /\ version = FirstVersion
    /\ inForce = [p \in Policy |-> NoApproval]
    /\ status = [a \in Approval |-> "none"]
    /\ pc = [d \in Decision |-> "idle"]
    /\ seen = [d \in Decision |-> 0]

Goto(d, l) == pc' = [pc EXCEPT ![d] = l]

\* Who has updated, and so locked, a row.
Locks(d, a) == ApprovalOf[d] = a /\ pc[d] \in InTransaction
Target(d) == PolicyOf[ApprovalOf[d]]
LocksPolicy(d, p) == Target(d) = p /\ pc[d] = "changed"
-----------------------------------------------------------------------------
CreatePolicy(p) ==
    /\ p \notin created
    /\ created' = created \cup {p}
    /\ UNCHANGED <<version, inForce, status, pc, seen>>

\* Bug: no DEFAULT for the status.
ProposeWithoutStatus(a) ==
    /\ status[a] = "none"
    /\ PolicyOf[a] \in created
    /\ status' = [status EXCEPT ![a] = "NULL"]
    /\ UNCHANGED <<created, version, inForce, pc, seen>>

ProposePolicyChange(a) ==
    /\ status[a] = "none"
    /\ PolicyOf[a] \in created
    /\ status' = [status EXCEPT ![a] = "pending"]
    /\ UNCHANGED <<created, version, inForce, pc, seen>>

\* Bug: the UPDATE does not ask for a pending approval.
UpdateAnyApproval(d) ==
    LET a == ApprovalOf[d]
    IN  /\ pc[d] = "idle"
        /\ \A e \in Decision : ~ Locks(e, a)
        /\ Goto(d, IF status[a] # "none" THEN "decided" ELSE "refused")
        /\ UNCHANGED <<rows, seen>>

\* UPDATE policy_approvals: when it is its turn, a row that is still pending,
\* or none, which is an error.
UpdateApproval(d) ==
    LET a == ApprovalOf[d]
    IN  /\ pc[d] = "idle"
        /\ \A e \in Decision : ~ Locks(e, a)
        /\ Goto(d, IF status[a] = "pending" THEN "decided" ELSE "refused")
        /\ UNCHANGED <<rows, seen>>

\* Any other verdict than "approved" is only stored.
NotApproved(d) ==
    /\ pc[d] = "decided"
    /\ Verdict[d] # "approved"
    /\ Goto(d, "committing")
    /\ UNCHANGED <<rows, seen>>

\* Bug: changes that cannot be decoded leave the transaction open.
SelectVersionNoRollback(d) ==
    /\ pc[d] = "decided"
    /\ Verdict[d] = "approved"
    /\ seen' = [seen EXCEPT ![d] = version[Target(d)]]
    /\ Goto(d, CASE Change[ApprovalOf[d]] = "attributes" -> "changing"
                 [] Change[ApprovalOf[d]] = "other" -> "committing"
                 [] Change[ApprovalOf[d]] = "broken" -> "decided")
    /\ UNCHANGED rows

\* SELECT version, which locks nothing; then the changes are decoded, and if
\* that fails everything is rolled back.
SelectVersion(d) ==
    /\ pc[d] = "decided"
    /\ Verdict[d] = "approved"
    /\ seen' = [seen EXCEPT ![d] = version[Target(d)]]
    /\ Goto(d, CASE Change[ApprovalOf[d]] = "attributes" -> "changing"
                 [] Change[ApprovalOf[d]] = "other" -> "committing"
                 [] Change[ApprovalOf[d]] = "broken" -> "refused")
    /\ UNCHANGED rows

\* UPDATE policies, with the version read before.
UpdatePolicy(d) ==
    /\ pc[d] = "changing"
    /\ \A e \in Decision : ~ LocksPolicy(e, Target(d))
    /\ Goto(d, "changed")
    /\ UNCHANGED <<rows, seen>>

\* Bugs: the status is not part of the transaction; a version is skipped.
CommitPolicyOnly(d, answered) ==
    /\ pc[d] \in {"changed", "committing"}
    /\ IF pc[d] = "changed"
       THEN /\ version' = [version EXCEPT ![Target(d)] = seen[d] + 1]
            /\ inForce' = [inForce EXCEPT ![Target(d)] = ApprovalOf[d]]
            /\ UNCHANGED status
       ELSE /\ status' = [status EXCEPT ![ApprovalOf[d]] = Verdict[d]]
            /\ UNCHANGED <<version, inForce>>
    /\ Goto(d, IF answered THEN "done" ELSE "refused")
    /\ UNCHANGED <<created, seen>>

CommitTwoVersions(d, answered) ==
    /\ pc[d] \in {"changed", "committing"}
    /\ status' = [status EXCEPT ![ApprovalOf[d]] = Verdict[d]]
    /\ IF pc[d] = "changed"
       THEN /\ version' = [version EXCEPT ![Target(d)] = seen[d] + 2]
            /\ inForce' = [inForce EXCEPT ![Target(d)] = ApprovalOf[d]]
       ELSE UNCHANGED <<version, inForce>>
    /\ Goto(d, IF answered THEN "done" ELSE "refused")
    /\ UNCHANGED <<created, seen>>

\* COMMIT, whose answer may be lost: the caller gets an error then.
Commit(d, answered) ==
    /\ pc[d] \in {"changed", "committing"}
    /\ status' = [status EXCEPT ![ApprovalOf[d]] = Verdict[d]]
    /\ IF pc[d] = "changed"
       THEN /\ version' = [version EXCEPT ![Target(d)] = seen[d] + 1]
            /\ inForce' = [inForce EXCEPT ![Target(d)] = ApprovalOf[d]]
       ELSE UNCHANGED <<version, inForce>>
    /\ Goto(d, IF answered THEN "done" ELSE "refused")
    /\ UNCHANGED <<created, seen>>

\* An error of the database or the end of the process: the transaction is
\* rolled back.
Rollback(d) ==
    /\ pc[d] \in InTransaction
    /\ Goto(d, "refused")
    /\ UNCHANGED <<rows, seen>>

Decide(d) ==
    \/ UpdateApproval(d) \/ NotApproved(d) \/ SelectVersion(d) \/ UpdatePolicy(d)
    \/ Commit(d, TRUE)

Next ==
    \/ \E p \in Policy : CreatePolicy(p)
    \/ \E a \in Approval : ProposePolicyChange(a)
    \/ \E d \in Decision : Decide(d) \/ Commit(d, FALSE) \/ Rollback(d)

Spec == Init /\ [][Next]_vars

\* Handlers go on: PostgreSQL grants a lock to those who wait for it.
FairSpec == Spec /\ \A d \in Decision : WF_vars(pc[d] # "idle" /\ Decide(d))
-----------------------------------------------------------------------------
(* Properties.                                                             *)

\* An approval is decided once: neither a second decision nor one that had
\* to wait, nor a lost answer, changes a final verdict, be it to "pending".
DecidedOnce ==
    [][ \A a \in Approval : status[a] \in FinalVerdicts => status'[a] = status[a] ]_vars

\* The decision d was answered with success and is final.
Decided(d) == pc[d] = "done" /\ Verdict[d] \in FinalVerdicts

\* At most one caller is told that it decided an approval for good, and the
\* verdict is the one it gave, whoever else is told that it put the approval
\* back to "pending".
OneDecider ==
    \A d \in Decision : Decided(d) =>
        /\ status[ApprovalOf[d]] = Verdict[d]
        /\ \A e \in Decision : Decided(e) /\ ApprovalOf[e] = ApprovalOf[d] => e = d

\* Changes of p that were approved and have something to apply.
Applied(p) ==
    {a \in Approval : status[a] = "approved" /\ PolicyOf[a] = p /\ Change[a] = "attributes"}

\* Whatever attributes a policy has, an approver approved them for this very
\* policy: no handler applies half of its transaction.
InForceApproved ==
    \A p \in Policy :
        /\ inForce[p] # NoApproval => inForce[p] \in Applied(p)
        /\ inForce[p] = NoApproval => Applied(p) = {}

\* A policy has no more versions than approved changes, and a change in force
\* is never called the first version.
NoVersionWithoutApproval ==
    \A p \in Policy :
        /\ version[p] <= FirstVersion[p] + Cardinality(Applied(p))
        /\ inForce[p] # NoApproval => version[p] > FirstVersion[p]

\* Handlers that have an approval's row, and wait for its policy's, all end.
\* (One that waits for the approval's row still counts as idle.)
DecisionsEnd ==
    \A d \in Decision : pc[d] \in InTransaction ~> pc[d] \in {"done", "refused"}

\* Claimed by the comment at postgres.go:111, "Apply changes and increment
\* version": every approved change makes a version.
VersionPerChange ==
    \A p \in Policy : version[p] = FirstVersion[p] + Cardinality(Applied(p))
=============================================================================
