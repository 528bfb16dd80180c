\* Two changes of one policy are approved at the same time.
CONSTANTS
    Policy = {"p1"}
    Approval = {"raise limit", "lower limit"}
    NoApproval = "none"
    Decision = {"first", "yes"}
    PolicyOf <- MCPolicyOf
    Change <- MCChange
    ApprovalOf <- MCApprovalOf
    Verdict <- MCVerdict
    FirstVersion <- MCFirstVersion
\* When every decision is made the service waits for more.
CHECK_DEADLOCK FALSE
SPECIFICATION Spec
INVARIANT VersionPerChange
