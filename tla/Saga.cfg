\* Two bitcoin spends share the breakers of lightning and x402: one that lightning
\* can pay, one that it declines and that makes x402 panic.  The policy may reject,
\* the process may crash, rows of the audit trail get lost; small breaker settings,
\* so that each state is reached from many others and both rails may be open.
CONSTANTS
    TripRequests = 1
    TripTenths = 6
    Probes = 1
    Tx = {1, 2}
    Rail = {"lightning", "x402"}
    NoRail = "no rail"
    RequestOf <- InvoiceAndBadURL
    MaxTries = 2
    Offers <- MCOffers
    Outcomes <- MCOutcomes
    ProviderIDs <- MCProviderIDs
    ProviderID <- MCProviderID
    Attempts <- MCAttempts
    Decisions = {"APPROVE", "REJECT"}
    Audited <- Ends
    Impatient = {1}
    MaxCrashes = 1
\* A process that has served its requests stops.
CHECK_DEADLOCK FALSE
SPECIFICATION FairSpec
INVARIANTS TypeOK ChargedOnce FallbackInOrder BreakersAddUp AuditTruthful OneLateCall
PROPERTIES KeepsContract SagasEnd
