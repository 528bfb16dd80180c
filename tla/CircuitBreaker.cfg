\* Settings of NewResilienceWrapper: 5 requests, 60%, 3 probes.
CONSTANTS
    TripRequests = 5
    TripTenths = 6
    Probes = 3
    Caller = {c1, c2, c3, c4}
    MaxWindow = 7
SPECIFICATION Spec
INVARIANTS TypeOK CountsAddUp
PROPERTIES StaleResultsDecideNothing ProbesDecide
