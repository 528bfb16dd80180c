------------------------- MODULE MCPolicyApprovals --------------------------
(***************************************************************************)
(* An instance of PolicyApprovals: two policies; two approvals that change *)
(* the first one's attributes, the second decided by two callers at once   *)
(* while a third puts it back; one without attributes; one of the second   *)
(* policy that is broken.                                                  *)
(***************************************************************************)
EXTENDS PolicyApprovals

MCPolicyOf == [a \in Approval |-> IF a = "broken" THEN "p2" ELSE "p1"]
MCChange == [a \in Approval |-> IF a \in Changes THEN a ELSE "attributes"]
MCApprovalOf == [d \in Decision |->
    CASE d = "first" -> "raise limit"
      [] d \in {"yes", "no", "not yet"} -> "lower limit"
      [] d = "rename" -> "other"
      [] d = "garbage" -> "broken"]
MCVerdict == [d \in Decision |->
    CASE d = "no" -> "rejected"
      [] d = "not yet" -> "pending"
      [] OTHER -> "approved"]
MCFirstVersion == [p \in Policy |-> 1]
=============================================================================
