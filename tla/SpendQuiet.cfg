\* Two calls with one request_id, one after the other: TypeScript through Kong and
\* Python without it; beside them a TypeScript call with maxRetries: 0 whose body is
\* refused.  Only the gateway may refuse.
CONSTANTS
    Call = {"a", "b", "c"}
    SameKey = {"a", "b"}
    Typescript = {"a", "c"}
    Once = {"c"}
    Direct = {"b"}
    Configured = 1
    Undecodable = {"c"}
    Key = {"request"}
    NoKey = "empty"
    Sdk <- MCSdk
    MaxRetries <- MCMaxRetries
    KeyOf <- MCKeyOf
    Rail = {"lightning", "x402"}
    NoRail = "no rail"
    UnsureRails = {"x402"}
    UnpaidRails = {"x402"}
    NoTx = NoTx
    Faults = {"gateway"}
    MaxCharges = 1
    MaxCrashes = 0
\* Once every call is over the system stops.
CHECK_DEADLOCK FALSE
SPECIFICATION FairSpec
INVARIANTS TypeOK
PROPERTIES KeepsPromise CallsEnd
