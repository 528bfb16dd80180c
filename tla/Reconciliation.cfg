\* Three confirmations, two rates of either direction that come and change, one fault.
CONSTANTS
    Confirmation = {"exact", "euros", "par"}
    NoConfirmation = "none"
    Currency = {"USD", "EUR"}
    External <- MCExternal
    Internal <- MCInternal
    Quotes <- MCQuotes
    NoRate = NoRate
    Reciprocal <- MCReciprocal
    Parts = 2
    MaxFaults = 1
SPECIFICATION FairSpec
INVARIANTS TypeOK RunsTellTheTruth KnownRatesDecide
PROPERTIES SettledOnce MatchesArrive
