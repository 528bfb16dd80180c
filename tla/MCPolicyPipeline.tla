-------------------------- MODULE MCPolicyPipeline --------------------------
(***************************************************************************)
(* An instance of PolicyPipeline.  An agent's own policy, whose limit one  *)
(* approval lowers, and one of another agent for the workflow both are in. *)
(* A purchase of the agent in this workflow, one whose amount is a text,   *)
(* and a transaction posted to the handler without metadata.  Rules that   *)
(* approve or reject.                                                      *)
(***************************************************************************)
EXTENDS PolicyPipeline

Me == 2
Other == 1
Work == 1
Null == 3

MCPolicyOf == [a \in Approval |-> "own"]
MCChange == [a \in Approval |-> "attributes"]
MCApprovalOf == [d \in Decision |-> CHOOSE a \in Approval : TRUE]
MCVerdict == [d \in Decision |-> "approved"]
MCFirstVersion == [p \in Policy |-> 1]

MCAgentOf == [t \in Tx |-> IF t = "posted" THEN Null ELSE Me]
MCWorkflowOf == [t \in Tx |-> IF t = "purchase" THEN Work ELSE Null]
MCPolicyAgent == [p \in Policy |-> IF p = "own" THEN Me ELSE Other]
MCPolicyWorkflow == [p \in Policy |-> IF p = "own" THEN Null ELSE Work]
MCRoles == [p \in Policy |-> IF p = "own" THEN "executor" ELSE "NULL"]
\* The own policy lets the purchase pass until its limit is lowered.
MCPermits == [p \in Policy |-> [a \in Approval \cup {NoApproval} |->
    IF p = "own" /\ a # NoApproval THEN {} ELSE Tx]]
MCRuleTables == { << [matches |-> {}, type |-> "reject"], [matches |-> Tx, type |-> "approve"] >>,
                  << [matches |-> Tx, type |-> "reject"] >> }
=============================================================================
