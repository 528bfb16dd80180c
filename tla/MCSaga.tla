------------------------------- MODULE MCSaga -------------------------------
(***************************************************************************)
(* Instances of Saga: the transactions of a configuration are the requests *)
(* it names, and rails behave as the adapters of module Rails do.          *)
(***************************************************************************)
EXTENDS Saga

R == INSTANCE Rails

Request(currency, payee, target) ==
    [currency |-> currency, payee |-> payee, target |-> target, large |-> FALSE]

\* Bitcoin that lightning can pay.
Invoice == Request("BTC", TRUE, "url")
\* Bitcoin without an invoice, which lightning declines, and a target_url that
\* does not parse, at which x402 panics.
BadURL == Request("BTC", FALSE, "malformed")

CONSTANTS
    RequestOf,    \* RequestOf[t]: the request behind transaction t
    MaxTries      \* bound: attempts per rail, when fewer than the code's

InvoiceAndBadURL == <<Invoice, BadURL>>

MCOffers == [t \in Tx |-> {r \in Rail : RequestOf[t].currency \in R!SupportedCurrencies(r)}]
MCOutcomes == [t \in Tx |-> [r \in Rail |-> R!ExecuteOutcomes(r, RequestOf[t])]]
MCProviderIDs == {"ln-method-time", "pi-id", "0x-hash", "x402-session", "direct"}
MCProviderID == [r \in Rail |-> [o \in Succeeds |-> R!PaymentId(r, o)]]
Ends == {<<"final_status", "success">>, <<"final_status", "failure">>,
         <<"execution_attempt", "success">>}
MCAttempts == [r \in Rail |-> IF R!MaxAttempts(r) < MaxTries THEN R!MaxAttempts(r) ELSE MaxTries]
=============================================================================
