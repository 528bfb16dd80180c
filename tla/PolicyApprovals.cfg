\* Six decisions on four approvals of changes to two policies.
CONSTANTS
    Policy = {"p1", "p2"}
    Approval = {"raise limit", "lower limit", "other", "broken"}
    NoApproval = "none"
    Decision = {"first", "yes", "no", "not yet", "rename", "garbage"}
    PolicyOf <- MCPolicyOf
    Change <- MCChange
    ApprovalOf <- MCApprovalOf
    Verdict <- MCVerdict
    FirstVersion <- MCFirstVersion
\* When every decision is made the service waits for more.
CHECK_DEADLOCK FALSE
SPECIFICATION FairSpec
INVARIANTS TypeOK OneDecider InForceApproved NoVersionWithoutApproval
PROPERTIES DecidedOnce DecisionsEnd
