\* One call that retries after its timeout of 30 seconds.
CONSTANTS
    Call = {"a"}
    SameKey = {"a"}
    Typescript = {"a"}
    Once = {}
    Direct = {}
    Configured = 1
    Undecodable = {}
    Key = {"request"}
    NoKey = "empty"
    Sdk <- MCSdk
    MaxRetries <- MCMaxRetries
    KeyOf <- MCKeyOf
    Rail = {"lightning"}
    NoRail = "no rail"
    UnsureRails = {}
    UnpaidRails = {}
    NoTx = NoTx
    Faults = {"timeout"}
    MaxCharges = 1
    MaxCrashes = 0
\* Once every call is over the system stops.
CHECK_DEADLOCK FALSE
SPECIFICATION Spec
INVARIANT PaidOncePerRequestId
