\* Two calls with one request_id and everything that may go wrong: TypeScript with a
\* retry through Kong, Python without retries and without Kong.
CONSTANTS
    Call = {"a", "b"}
    SameKey = {"a", "b"}
    Typescript = {"a"}
    Once = {"b"}
    Direct = {"b"}
    Configured = 1
    Undecodable = {}
    Key = {"request"}
    NoKey = "empty"
    Sdk <- MCSdk
    MaxRetries <- MCMaxRetries
    KeyOf <- MCKeyOf
    Rail = {"lightning"}
    NoRail = "no rail"
    UnsureRails = {}
    UnpaidRails = {}
    NoTx = NoTx
    Faults = {"timeout", "crash", "redis", "overlap", "gateway"}
    MaxCharges = 1
    MaxCrashes = 1
\* Once every call is over the system stops.
CHECK_DEADLOCK FALSE
SPECIFICATION Spec
INVARIANTS AnswersTruthful PaymentsNeverDenied
