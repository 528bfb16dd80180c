------------------------------- MODULE Rails -------------------------------
(***************************************************************************)
(* The rails of InitializeDefaultRegistry: their ids, the currencies they  *)
(* support, how often the saga tries them, what executing a request on     *)
(* them can do, and what they are worth to the routing engine.  Pure       *)
(* operators; MCSaga and MCRouting take their constants from here.         *)
(***************************************************************************)
EXTENDS Naturals, TLC

RailIds == {"lightning", "stripe", "stablecoin-solana", "stablecoin-ethereum", "x402"}

Stablecoins == {"stablecoin-solana", "stablecoin-ethereum"}

Currencies == {"BTC", "USD", "EUR", "GBP", "CAD", "USDC", "USDT", "DAI"}

\* GetCapabilities().SupportedCurrencies.
SupportedCurrencies(id) ==
    CASE id = "lightning" -> {"BTC"}
      [] id = "stripe" -> {"USD", "EUR", "GBP", "CAD"}
      [] id \in Stablecoins -> {"USDC", "USDT", "DAI"}
      [] id = "x402" -> {"BTC", "USDC"}

\* The keys are adapter types; "stablecoin" is the id of no adapter.
MaxRetryCounts == [ lightning |-> 3, stripe |-> 1, stablecoin |-> 2, x402 |-> 2 ]

\* executeWithRetry looks the adapter id up; a missing key is 0 is one try.
MaxAttempts(id) == IF id \in DOMAIN MaxRetryCounts THEN MaxRetryCounts[id] ELSE 1

\* What of a spend request decides how its rails behave.
Requests == [ currency : Currencies,
              payee    : BOOLEAN,     \* context names bolt11 or destination_pubkey
              target   : {"none", "url", "malformed"},     \* context.target_url
              large    : BOOLEAN ]    \* amount above 1000

(* Execute of each adapter: what it can do with the money, and answer.      *)

LightningOutcomes(req) == IF req.payee THEN {"paid"} ELSE {"declined"}

\* requires_action is no error, but nothing is paid until somebody acts.
StripeOutcomes(req) == IF req.large THEN {"unpaid"} ELSE {"paid"}

StablecoinOutcomes == {"paid"}

\* The first request, or the one with the proof of payment, may fail; or no
\* payment is asked for.  A URL that does not parse is a nil request.
X402Outcomes(req) ==
    CASE req.target = "none" -> {"declined"}
      [] req.target = "malformed" -> {"panics"}
      [] req.target = "url" -> {"paid", "unpaid", "declined", "unconfirmed"}

ExecuteOutcomes(id, req) ==
    CASE id = "lightning" -> LightningOutcomes(req)
      [] id = "stripe" -> StripeOutcomes(req)
      [] id \in Stablecoins -> StablecoinOutcomes
      [] id = "x402" -> X402Outcomes(req)

\* The ProviderID of a result, but for what is the transaction's own in it: a
\* payment's id at the provider.  Both stablecoins give the same one.
PaymentId(id, outcome) ==
    CASE id = "lightning" -> "ln-method-time"
      [] id = "stripe" -> "pi-id"
      [] id \in Stablecoins -> "0x-hash"
      [] id = "x402" -> IF outcome = "paid" THEN "x402-session" ELSE "direct"

(* What ComputePlan weighs a rail by, in ten thousandths.                   *)

\* GetCostEstimate of an amount.
CostEstimate(id, amount) ==
    CASE id = "lightning" -> 1
      [] id = "stripe" -> 290 * amount + 3000
      [] id = "stablecoin-solana" -> 100
      [] id = "stablecoin-ethereum" -> 50000
      [] id = "x402" -> 500

\* GetCapabilities().TypicalLatency, in milliseconds.
TypicalLatency == [ lightning |-> 500, stripe |-> 2000, x402 |-> 1500 ]
                  @@ ("stablecoin-solana" :> 400) @@ ("stablecoin-ethereum" :> 15000)

\* GetCapabilities().ReliabilityScore.
ReliabilityScore == [ lightning |-> 9800, stripe |-> 9990, x402 |-> 9600 ]
                    @@ ("stablecoin-solana" :> 9000) @@ ("stablecoin-ethereum" :> 9900)

\* 0.4 for the cost, 0.3 for the latency, 0.15 for the reliability.
StaticScore(id, amount) ==
    (4000 * 10000) \div (10000 + CostEstimate(id, amount))
        + (3000 * 1000) \div (1000 + TypicalLatency[id])
        + (15 * ReliabilityScore[id]) \div 100

\* rail_modifiers of mockPolicyCall, in tenths; other rails keep their score.
RailModifier(id) == CASE id = "lightning" -> 12 [] id = "stripe" -> 5 [] OTHER -> 10
=============================================================================
