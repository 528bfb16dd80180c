------------------------------- MODULE Spend -------------------------------
(***************************************************************************)
(* A spend, from the SDK's call to the saga and back: the retry loop of    *)
(* AgentClient.spend (Python and TypeScript), spendHandler of the          *)
(* orchestration service, and the Redis cache of responses between them.   *)
(*                                                                         *)
(* Attempt <<c, i>> is the i-th request that call c sends; the handler     *)
(* that serves it and the transaction that handler creates have its name.  *)
(* The saga below is not repeated here: a handler's transaction does what  *)
(* PaymentContract allows (Saga implements it, theorem ContractKept).  Its *)
(* metering event, which no response waits for, stays unsent here.         *)
(***************************************************************************)
EXTENDS Naturals, FiniteSets

CONSTANTS
    Call,        \* calls of spend() by agents
    Sdk,         \* Sdk[c]: "python" or "typescript"
    Direct,      \* calls whose base_url is the service's and not Kong's
    MaxRetries,  \* MaxRetries[c]: the retries the client was configured with
    Key,         \* request_ids
    KeyOf,       \* KeyOf[c]: request_id of c, or NoKey when it is ""
    NoKey,
    Undecodable, \* calls whose body is no JSON (an amount that is not a number)
    Rail, NoRail,
    UnsureRails, UnpaidRails,   \* see PaymentContract
    NoTx,
    Faults,      \* what the environment does to us
    MaxCharges,  \* bound: charges of one transaction on one rail
    MaxCrashes   \* bound: crashes of the orchestration process

\* timeout: a client gives up waiting; crash: the process dies; redis: a
\* command fails; overlap: calls with the same request_id run at once;
\* gateway: Kong answers 401 or 429 itself.
Environment == {"timeout", "crash", "redis", "overlap", "gateway"}

ASSUME SpendAssumption ==
    /\ Sdk \in [Call -> {"python", "typescript"}]
    /\ Direct \subseteq Call
    /\ MaxRetries \in [Call -> Nat]
    /\ NoKey \notin Key
    /\ KeyOf \in [Call -> Key \cup {NoKey}]
    /\ Undecodable \subseteq Call
    /\ UnsureRails \subseteq Rail /\ UnpaidRails \subseteq Rail /\ NoRail \notin Rail
    /\ Faults \subseteq Environment
    /\ MaxCharges \in Nat /\ MaxCrashes \in Nat

\* TypeScript reads "maxRetries || 3": it cannot be told not to retry.
Retries(c) ==
    IF Sdk[c] = "typescript" /\ MaxRetries[c] = 0 THEN 3 ELSE MaxRetries[c]

Attempt == UNION {{c} \X (0 .. Retries(c)) : c \in Call}
KeyOfAttempt(a) == KeyOf[a[1]]
AttemptsOf(k) == {a \in Attempt : KeyOfAttempt(a) = k}

ASSUME NoTxAssumption == NoTx \notin Attempt

VARIABLES
    phase,       \* where call c is: under way, or how it ended
    try,         \* retries: the attempt c is waiting for
    result,      \* the transaction_id returned to c's agent
    lost,        \* attempts given up without an answer
    stage,       \* where the handler of an attempt is
    gone,        \* attempts whose request context is cancelled
    reply,       \* the response written: a transaction, or NoTx for an error
    cache,       \* cache[k]: the transaction in Redis' response
    expired,     \* paid attempts whose response has left the cache (history)
    status, charges, provider, billing,     \* PaymentContract, per attempt
    crashes

client == <<phase, try, result, lost>>
handler == <<stage, gone, reply>>
store == <<cache, expired>>
contract == <<status, charges, provider, billing>>
vars == <<client, handler, store, contract, crashes>>

Contract == INSTANCE PaymentContract WITH
    Tx <- Attempt,
    UnsureRails <- [a \in Attempt |-> UnsureRails],
    UnpaidRails <- [a \in Attempt |-> UnpaidRails]

\* How spend() ends: it returns, or raises RailFailureError, AgentMoneyError,
\* (AuthenticationError, RateLimitError) "refused", or the InvalidOperation of
\* an answer it got and could not read.
Ended == {"returned", "railfailure", "error", "refused", "unparsed"}
Stages == {"none", "sent", "saga", "storing", "replied", "badrequest", "dead"}

TypeOK ==
    /\ phase \in [Call -> {"idle", "waiting"} \cup Ended]
    /\ \A c \in Call : try[c] \in 0 .. Retries(c)
    /\ result \in [Call -> Attempt \cup {NoTx}]
    /\ lost \subseteq Attempt
    /\ stage \in [Attempt -> Stages]
    /\ gone \subseteq Attempt
    /\ reply \in [Attempt -> Attempt \cup {NoTx}]
    /\ cache \in [Key -> Attempt \cup {NoTx}]
    /\ expired \subseteq Attempt
    /\ status \in [Attempt -> {"new", "open", "executed", "failed", "abandoned"}]
    /\ charges \in [Attempt -> [Rail -> 0 .. MaxCharges]]
    /\ provider \in [Attempt -> Rail \cup {NoRail}]
    /\ billing \in [Attempt -> {"none", "sent", "published", "dropped"}]
    /\ crashes \in 0 .. MaxCrashes

Init ==
    /\ phase = [c \in Call |-> "idle"]
    /\ try = [c \in Call |-> 0]
    /\ result = [c \in Call |-> NoTx]
    /\ lost = {}
    /\ stage = [a \in Attempt |-> "none"]
    /\ gone = {}
    /\ reply = [a \in Attempt |-> NoTx]
    /\ cache = [k \in Key |-> NoTx]
    /\ expired = {}
    /\ Contract!CInit
    /\ crashes = 0
-----------------------------------------------------------------------------
(* The SDK.                                                                *)

Current(c) == <<c, try[c]>>
UnderWay(k) == {c \in Call : phase[c] = "waiting" /\ KeyOf[c] = k}

Begin(c) ==
    /\ phase[c] = "idle"
    /\ "overlap" \in Faults \/ KeyOf[c] = NoKey \/ UnderWay(KeyOf[c]) = {}
    /\ phase' = [phase EXCEPT ![c] = "waiting"]
    /\ stage' = [stage EXCEPT ![Current(c)] = "sent"]
    /\ UNCHANGED <<try, result, lost, gone, reply, store, contract, crashes>>

\* Bug: one retry more than configured.
TryAgainOnceMore(c, exception) ==
    /\ UNCHANGED <<result, gone, reply, store, contract, crashes>>
    /\ IF try[c] <= Retries(c)
       THEN /\ try' = [try EXCEPT ![c] = @ + 1]
            /\ stage' = [stage EXCEPT ![<<c, try[c] + 1>>] = "sent"]
            /\ UNCHANGED phase
       ELSE /\ phase' = [phase EXCEPT ![c] = exception]
            /\ UNCHANGED <<try, stage>>

\* Another round of the retry loop, or the exception after the last one.  The
\* pause of 2^retries seconds is part of the time the next request takes.
TryAgain(c, exception) ==
    /\ UNCHANGED <<result, gone, reply, store, contract, crashes>>
    /\ IF try[c] < Retries(c)
       THEN /\ try' = [try EXCEPT ![c] = @ + 1]
            /\ stage' = [stage EXCEPT ![<<c, try[c] + 1>>] = "sent"]
            /\ UNCHANGED phase
       ELSE /\ phase' = [phase EXCEPT ![c] = exception]
            /\ UNCHANGED <<try, stage>>

\* 200 or 202.
Returns(c) ==
    /\ Sdk[c] = "typescript"
    /\ phase[c] = "waiting"
    /\ stage[Current(c)] = "replied"
    /\ reply[Current(c)] # NoTx
    /\ phase' = [phase EXCEPT ![c] = "returned"]
    /\ result' = [result EXCEPT ![c] = reply[Current(c)]]
    /\ UNCHANGED <<try, lost, handler, store, contract, crashes>>

\* 200 or 202 again: TransactionResult.from_dict makes a Decimal of the cost,
\* which is "estimated", and what that raises is no RequestException.
CannotParse(c) ==
    /\ Sdk[c] = "python"
    /\ phase[c] = "waiting"
    /\ stage[Current(c)] = "replied"
    /\ reply[Current(c)] # NoTx
    /\ phase' = [phase EXCEPT ![c] = "unparsed"]
    /\ UNCHANGED <<try, result, lost, handler, store, contract, crashes>>

\* 503.
ServerError(c) ==
    /\ phase[c] = "waiting"
    /\ stage[Current(c)] = "replied"
    /\ reply[Current(c)] = NoTx
    /\ UNCHANGED lost
    /\ TryAgain(c, "railfailure")

\* 400: raise_for_status is a RequestException, axios rejects: retried too.
ClientError(c) ==
    /\ phase[c] = "waiting"
    /\ stage[Current(c)] = "badrequest"
    /\ UNCHANGED lost
    /\ TryAgain(c, "error")

\* Bug: the gateway's own error is no answer to wait for.
GatewayHangs(c) ==
    /\ c \notin Direct
    /\ "timeout" \in Faults
    /\ phase[c] = "waiting"
    /\ stage[Current(c)] = "dead"
    /\ UNCHANGED lost
    /\ TryAgain(c, "railfailure")

\* Kong's 502 for a handler that panicked or died: a server error too.
BadGateway(c) ==
    /\ c \notin Direct
    /\ phase[c] = "waiting"
    /\ stage[Current(c)] = "dead"
    /\ UNCHANGED lost
    /\ TryAgain(c, "railfailure")

\* Without Kong its connection is reset: a RequestException.
ConnectionReset(c) ==
    /\ c \in Direct
    /\ phase[c] = "waiting"
    /\ stage[Current(c)] = "dead"
    /\ lost' = lost \cup {Current(c)}
    /\ TryAgain(c, "error")

\* The timeout of 30 seconds, which is also the saga's, so that it may end
\* at any stage of the handler.
TimesOut(c) ==
    /\ "timeout" \in Faults
    /\ phase[c] = "waiting"
    /\ lost' = lost \cup {Current(c)}
    /\ TryAgain(c, "error")

\* 401 or 429 of the gateway: the request does not reach the service.
GatewayRefuses(c) ==
    /\ "gateway" \in Faults
    /\ c \notin Direct
    /\ phase[c] = "waiting"
    /\ stage[Current(c)] = "sent"
    /\ stage' = [stage EXCEPT ![Current(c)] = "dead"]
    /\ phase' = [phase EXCEPT ![c] = "refused"]
    /\ UNCHANGED <<try, result, lost, gone, reply, store, contract, crashes>>
-----------------------------------------------------------------------------
(* spendHandler.                                                           *)

RejectBody(a) ==
    /\ stage[a] = "sent"
    /\ a[1] \in Undecodable
    /\ stage' = [stage EXCEPT ![a] = "badrequest"]
    /\ UNCHANGED <<client, gone, reply, store, contract, crashes>>

\* The idempotency check finds a response.
Replay(a) ==
    /\ stage[a] = "sent"
    /\ a[1] \notin Undecodable /\ KeyOfAttempt(a) # NoKey /\ a \notin gone
    /\ cache[KeyOfAttempt(a)] # NoTx
    /\ stage' = [stage EXCEPT ![a] = "replied"]
    /\ reply' = [reply EXCEPT ![a] = cache[KeyOfAttempt(a)]]
    /\ UNCHANGED <<client, gone, store, contract, crashes>>

\* No request_id, no response in the cache, or no answer from Redis, whatever
\* the error was: a new transaction.
OpenSaga(a) ==
    /\ stage[a] = "sent"
    /\ a[1] \notin Undecodable
    /\ \/ KeyOfAttempt(a) = NoKey
       \/ KeyOfAttempt(a) # NoKey /\ cache[KeyOfAttempt(a)] = NoTx
       \/ a \in gone \/ "redis" \in Faults
    /\ Contract!Open(a)
    /\ stage' = [stage EXCEPT ![a] = "saga"]
    /\ UNCHANGED <<client, gone, reply, store, crashes>>

Charge(a, r) ==
    /\ charges[a][r] < MaxCharges
    /\ Contract!Charge(a, r)
    /\ UNCHANGED <<client, handler, store, crashes>>

Execute(a, r) ==
    /\ Contract!Execute(a, r)
    /\ stage' = [stage EXCEPT ![a] = "storing"]
    /\ UNCHANGED <<client, gone, reply, store, crashes>>

\* Orchestrate's error is a 503 and is not cached.
Fail(a) ==
    /\ Contract!Fail(a)
    /\ stage' = [stage EXCEPT ![a] = "replied"]
    /\ UNCHANGED <<client, gone, reply, store, crashes>>

Panic(a) ==
    /\ Contract!Abandon(a)
    /\ stage' = [stage EXCEPT ![a] = "dead"]
    /\ UNCHANGED <<client, gone, reply, store, crashes>>

\* Bugs: the response is stored under another id; the answer names the
\* transaction of the first attempt; an error of Set becomes a 503.
RespondSavedElsewhere(a, saved) ==
    /\ stage[a] = "storing"
    /\ saved => a \notin gone
    /\ ~ saved => a \in gone \/ "redis" \in Faults
    /\ stage' = [stage EXCEPT ![a] = "replied"]
    /\ reply' = [reply EXCEPT ![a] = a]
    /\ UNCHANGED <<client, gone, store, contract, crashes>>

RespondFirst(a, saved) ==
    /\ stage[a] = "storing"
    /\ saved => a \notin gone
    /\ ~ saved => a \in gone \/ "redis" \in Faults
    /\ cache' = IF saved /\ KeyOfAttempt(a) # NoKey
                THEN [cache EXCEPT ![KeyOfAttempt(a)] = a] ELSE cache
    /\ stage' = [stage EXCEPT ![a] = "replied"]
    /\ reply' = [reply EXCEPT ![a] = <<a[1], 0>>]
    /\ UNCHANGED <<client, gone, expired, contract, crashes>>

RespondIfSaved(a, saved) ==
    /\ stage[a] = "storing"
    /\ saved => a \notin gone
    /\ ~ saved => a \in gone \/ "redis" \in Faults
    /\ cache' = IF saved /\ KeyOfAttempt(a) # NoKey
                THEN [cache EXCEPT ![KeyOfAttempt(a)] = a] ELSE cache
    /\ stage' = [stage EXCEPT ![a] = "replied"]
    /\ reply' = [reply EXCEPT ![a] = IF saved THEN a ELSE NoTx]
    /\ UNCHANGED <<client, gone, expired, contract, crashes>>

\* redisClient.Set, whose error is ignored (the context may be cancelled),
\* overwrites what is there; then the response.  A generated request_id is
\* stored too, but nobody can ask for it.
Respond(a, saved) ==
    /\ stage[a] = "storing"
    /\ saved => a \notin gone
    /\ ~ saved => a \in gone \/ "redis" \in Faults
    /\ cache' = IF saved /\ KeyOfAttempt(a) # NoKey
                THEN [cache EXCEPT ![KeyOfAttempt(a)] = a] ELSE cache
    /\ stage' = [stage EXCEPT ![a] = "replied"]
    /\ reply' = [reply EXCEPT ![a] = a]
    /\ UNCHANGED <<client, gone, expired, contract, crashes>>
-----------------------------------------------------------------------------
(* Around them.                                                            *)

\* net/http notices that the client has closed the connection.
Disconnect(a) ==
    /\ a \in lost \ gone
    /\ stage[a] \in {"sent", "saga", "storing"}
    /\ gone' = gone \cup {a}
    /\ UNCHANGED <<client, stage, reply, store, contract, crashes>>

Crash ==
    /\ "crash" \in Faults
    /\ crashes < MaxCrashes
    /\ crashes' = crashes + 1
    /\ Contract!Stop
    /\ stage' = [a \in Attempt |->
           IF stage[a] \in {"sent", "saga", "storing"} THEN "dead" ELSE stage[a]]
    /\ UNCHANGED <<client, gone, reply, store>>

\* A payment that is certain: on a rail that always reports what it did.
Paid(a) == \E r \in Rail \ UnsureRails : charges[a][r] > 0

\* 24 hours have passed; no call lasts that long.
Expire(k) ==
    /\ cache[k] # NoTx
    /\ UnderWay(k) = {}
    /\ cache' = [cache EXCEPT ![k] = NoTx]
    /\ expired' = expired \cup {a \in AttemptsOf(k) : Paid(a)}
    /\ UNCHANGED <<client, handler, contract, crashes>>

Client(c) ==
    \/ Returns(c) \/ CannotParse(c)
    \/ ServerError(c) \/ ClientError(c) \/ BadGateway(c) \/ ConnectionReset(c)

Serve(a) ==
    \/ RejectBody(a) \/ Replay(a) \/ OpenSaga(a)
    \/ Fail(a) \/ \E r \in Rail : Execute(a, r)
    \/ \E saved \in BOOLEAN : Respond(a, saved)

Next ==
    \/ \E c \in Call : Begin(c) \/ Client(c) \/ TimesOut(c) \/ GatewayRefuses(c)
    \/ \E a \in Attempt :
           \/ Serve(a) \/ Panic(a) \/ Disconnect(a)
           \/ \E r \in Rail : Charge(a, r)
    \/ \E k \in Key : Expire(k)
    \/ Crash

Spec == Init /\ [][Next]_vars

\* Clients and handlers run, and sagas end (SagasEnd of module Saga).
Fairness ==
    /\ \A c \in Call : WF_vars(Client(c))
    /\ \A a \in Attempt : WF_vars(Serve(a))

FairSpec == Spec /\ Fairness
-----------------------------------------------------------------------------
\* What a call returns (to TypeScript: no Python call returns) is a transaction
\* of its own request_id, whichever attempt or call created it; it was executed,
\* and if it was certainly paid, then by the rail whose result the answer tells.
AnswersTruthful ==
    \A c \in Call : result[c] # NoTx =>
        /\ KeyOfAttempt(result[c]) = KeyOf[c]
        /\ KeyOf[c] = NoKey => result[c][1] = c
        /\ status[result[c]] = "executed"
        /\ Paid(result[c]) => charges[result[c]][provider[result[c]]] = 1

\* No error of the service denies a payment.  An attempt that made one is the
\* one its call waits for, or the call returned it, or Python could not parse
\* the answer that says so, or the client gave up without an answer, or the
\* process died with it.
PaymentsNeverDenied ==
    \A a \in Attempt : Paid(a) =>
        \/ phase[a[1]] = "waiting" /\ a = Current(a[1])
        \/ result[a[1]] = a
        \/ phase[a[1]] = "unparsed" /\ a = Current(a[1]) /\ reply[a] = a
        \/ a \in lost
        \/ stage[a] = "dead" /\ crashes > 0

\* Every call comes back: the retry loop ends, whatever is lost.
CallsEnd == \A c \in Call : phase[c] = "waiting" ~> phase[c] \in Ended

\* Claimed by README_API.md:59 with its 24 hour cache: a request_id is paid
\* once while its response has not expired.
PaidOncePerRequestId ==
    \A k \in Key : Cardinality({a \in AttemptsOf(k) \ expired : Paid(a)}) <= 1

\* In a quiet environment the service keeps the promise of IdempotentSpend: a
\* call that returns (no Python call does) returns the remembered transaction.
Promise == INSTANCE IdempotentSpend WITH
    Call <- {c \in Call : KeyOf[c] # NoKey},
    Tx <- Attempt,
    remembered <- cache,
    paid <- [k \in Key |-> {a \in AttemptsOf(k) : Paid(a)}],
    forgotten <- [k \in Key |-> {a \in AttemptsOf(k) : a \in expired}],
    result <- [c \in {d \in Call : KeyOf[d] # NoKey} |-> result[c]]

KeepsPromise == Promise!PSpec
=============================================================================
