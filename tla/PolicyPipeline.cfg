\* Three transactions and two policies, one of which is changed.
CONSTANTS
    Policy = {"own", "other's"}
    Approval = {"lower limit"}
    NoApproval = "none"
    Decision = {"approve"}
    PolicyOf <- MCPolicyOf
    Change <- MCChange
    ApprovalOf <- MCApprovalOf
    Verdict <- MCVerdict
    FirstVersion <- MCFirstVersion
    Tx = {"purchase", "text", "posted"}
    AgentOf <- MCAgentOf
    WorkflowOf <- MCWorkflowOf
    NoMetadata = {"posted"}
    NoNumber = {"text"}
    None = 3
    Active = {"own", "other's"}
    PolicyAgent <- MCPolicyAgent
    PolicyWorkflow <- MCPolicyWorkflow
    Roles <- MCRoles
    Permits <- MCPermits
    RuleTables <- MCRuleTables
    MaxCopies = 1
    MaxRestarts = 1
\* An engine that is down, with no restart left, stays down.
CHECK_DEADLOCK FALSE
SPECIFICATION PipelineFairSpec
INVARIANTS PipelineTypeOK DecisionsAccounted
PROPERTIES ApprovedByPolicy EngineCatchesUp
