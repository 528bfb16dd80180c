\* One planner after the other asks for a plan in bitcoin or in a stablecoin, over
\* the rails that can be in such a plan; two rounds of discovery.
CONSTANTS
    Planner = {1}
    Rail = {"lightning", "stablecoin-solana", "x402"}
    NoRail = "no rail"
    Currency = {"BTC", "USDC"}
    Amount = 10
    Supports <- MCSupports
    Static <- MCStatic
    Modifier <- MCModifier
    Failing <- MCFailing
    MaxRounds = 2
SPECIFICATION FairSpec
INVARIANTS TypeOK PlanIsOfItsTime OrderIsStatic
PROPERTY PlansEnd
