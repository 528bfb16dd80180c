# Agent Money: a TLA+ model of its payment path

Agent Money lets autonomous agents spend over several payment rails. This directory holds
TLA+ models of the parts of it that move, lose or count money, the TLC configurations that
check them on small instances, and TLAPS proofs of their central properties.

Paths below are relative to `src/`; `orch/` stands for `services/orchestration-service/`.
PROJECT.json maps every definition that models code to the lines it models.

## 1. The system

```
 agent -- SDK --> Kong --> spendHandler --> SagaCoordinator --> ComputePlan (registry, breakers)
           |                |       |            |  \-> executeWithFallbacks/Retry
        retries         Redis cache |            |        \-> ResilienceWrapper -> adapter -> rail
                                    |            \-> audit_trail (Postgres)
                                    |             \-> EventPublisher -> Kafka financial-events
                                    |                     \-> metering service -> Redis, Postgres
 rail --> webhookHandler -> external_confirmations -> reconciliation worker -> ledger
 transaction-handler <-> Kafka transaction-events <-> policy engine --> auth service
```

| component | state it keeps | operations | what is hard about it |
|---|---|---|---|
| circuit breaker per rail, `orch/internal/adapters/resilience.go` | gobreaker's state, counts and generation | Execute, HealthCheck, interval and timeout | concurrent calls, results of older generations, a limited number of probes |
| rail adapters, `orch/internal/adapters/{lightning,stripe,stablecoin,x402}.go`, `loader.go` | none; they pay | Execute, estimates | success without payment, payment with an error, a panic |
| routing engine and registry, `engine.go`, `registry.go` | adapters, availability scores | ComputePlan, Register, discover | health is read before it is used; one lock, held over a whole round of health checks |
| saga coordinator, `orch/internal/routing/coordinator.go` | local variables of a goroutine | Orchestrate, executeWithFallbacks, executeWithRetry | retries and fallbacks of something that may have happened; a 30 s deadline; no durable state |
| spend endpoint, `orch/main.go` | Redis: request_id to response, 24 h | spendHandler | check, act and store are not atomic; the client may be gone |
| SDKs, `sdks/python`, `sdks/typescript` | loop variables of `spend()` | spend | retries after a timeout as long as the server's own deadline |
| event publisher, `orch/internal/metering/publisher.go` | kafka-go's buffer | PublishFinancialEvent | asynchronous: accepted is not sent |
| metering service, `services/metering-service` | offset, Redis counters, `budgets`, `ledger_entries` | Start's loop | commits before it processes; two stores, errors only logged |
| repository and webhook, `orch/internal/repository/postgres.go` | `audit_trail`, `external_confirmations` | LogAuditStep, CreateExternalConfirmation | ignored errors; repeated webhooks |
| reconciliation worker, `services/reconciliation-worker/main.py` | `reconciliation_runs`, `discrepancies`, adjustments | reconcile every minute | one transaction per run, statements that raise, rates that change |
| policy engine, `services/policy-engine/main.py` | offset in a topic it also writes, buffer of its producer | evaluate, main loop | its own messages come back; services it asks may be away; an exception ends it with the event still uncommitted |
| transaction handler, `services/transaction-handler/main.go` | none | POST /transactions | writes events that the engine cannot take |
| auth service, `services/auth-service` | `organizations`, `agents`, `policies`, `policy_approvals` | create, propose, decide, effective policy | a version read without a lock |
| `pkg/` (wallet, secrets, telemetry), Kong, Helm, monitoring | configuration | | not modelled: pure functions, I/O, configuration |

What makes each of them correct, and what the properties are taken from:

- **breaker**: its counts agree with the calls that are out; only calls of the present
  generation decide; it never gets stuck half-open.
- **saga**: one payment per transaction at most; the result returned is that of the rail that
  was paid; failure means nothing was paid; every rail of a plan gets all its attempts, in order;
  nothing new starts after the deadline; it ends; the audit trail is never wrong.
- **spend**: a request_id is paid once and always answered with the same transaction; a client
  is never told that something it paid for failed; calls end.
- **metering**: every executed transaction is counted and booked once, in every store.
- **reconciliation**: every confirmation is matched, or adjusted and reported; one bad row
  does not hold up the rest.
- **routing**: a plan has the rails that were healthy while it was made and no others, in the
  order that weights and modifiers mean; who waits for the registry's lock gets it.
- **policy**: of several administrators one decides; no attributes are in force that nobody
  approved; no approval is lost.
- **policy engine**: no event is skipped, none is decided more often than it was delivered, and
  what is approved the policy in force lets pass.

The code of this commit does not build as it is (unused imports, a missing import of `os` in
the transaction handler, a name in the policy engine that SQLAlchemy does not export). The
models take the statements for what they say. As deployed, nothing inserts into
`transactions`, to which several tables have foreign keys; the models keep that visible (any
audit row may be missing, an event may be rejected by the tables).

## 2. Modules

| module | models | uses |
|---|---|---|
| `Breaker` | gobreaker's state machine with `NewResilienceWrapper`'s settings, as operators on a record | |
| `CircuitBreaker` | one wrapper shared by several goroutines | `Breaker` |
| `CircuitBreakerProofs` | theorems about it | `CircuitBreaker` |
| `PaymentContract` | abstract: what the saga promises of a transaction | |
| `Saga` | Orchestrate, ComputePlan, fallbacks, retries, contexts, audit, crash, for many transactions over one registry | `Breaker`, implements `PaymentContract` |
| `SagaProofs` | theorems about it | `Saga` |
| `Rails` | the default registry: currencies, attempts, outcomes and scores of each adapter | |
| `MCSaga` | instances of `Saga` with the rails of `Rails` | `Saga`, `Rails` |
| `Routing` | ComputePlan step by step, the registry's lock and scores, discovery | |
| `RoutingProofs` | theorems about it | `Routing` |
| `MCRouting` | an instance of it with rails of `Rails` | `Routing`, `Rails` |
| `IdempotentSpend` | abstract: what README_API.md promises of a request_id | |
| `Spend` | SDK retry loop, gateway, spendHandler, Redis cache | `PaymentContract` for the saga, implements `IdempotentSpend` |
| `SpendProofs` | theorems about it | `Spend` |
| `MCSpend` | instances of `Spend` | `Spend` |
| `Metering` | Kafka writer, topic, metering consumer, Redis and Postgres | |
| `MeteringProofs` | theorems about it | `Metering` |
| `Reconciliation` | webhook confirmations, exchange rates and the reconciliation worker | |
| `ReconciliationProofs` | theorems about it | `Reconciliation` |
| `MCReconciliation` | an instance of it | `Reconciliation` |
| `PolicyApprovals` | policies, proposed changes and concurrent decisions of the auth service | |
| `PolicyApprovalsProofs` | theorems about it | `PolicyApprovals` |
| `MCPolicyApprovals` | instances of it | `PolicyApprovals` |
| `PolicyPipeline` | transaction handler, topic, policy engine, the policy it is given, while policies change | `PolicyApprovals` |
| `PolicyPipelineProofs` | theorems about it | `PolicyPipeline`, `PolicyApprovalsProofs` |
| `MCPolicyPipeline` | an instance of it | `PolicyPipeline` |

Definitions whose comment begins with "Bug" are not part of a specification. Each is what a
plausible mistake would make of the definition after it, and PROJECT.json ("mutants") names
the property that it breaks.

### Breaker and CircuitBreaker

gobreaker is a library, so its state machine is modelled from its behaviour and marked
external; the settings (5 requests, 60 percent, 3 probes) are the code's. gobreaker numbers
generations and drops the result of a call from an older one. A number would grow without
bound, so a call carries instead a flag `fresh`: its generation is still the current one. A
change of state, or the interval clearing the counts, clears the flags. `Enter` and `Return`
are the two halves of `ResilienceWrapper.Execute`; the adapter runs between them, outside the
lock. The clock is nondeterministic: an interval or a timeout may be over at any time.

### Saga

A transaction is a goroutine whose `pc` follows Orchestrate: `idle`, `policy`, `routing`
(one health check per step, in any order: a Go map), `enter` (a rail of the plan), `attempt`,
`inflight`, `answered`, `backoff`, then `done`, `failed` or `abandoned`. Steps are cut where
another goroutine, the clock, the client or a crash can come between and matter: the breaker
is read while the plan is computed and entered later; the rail acts (and charges) before its
answer is known; the breaker takes the answer afterwards. A retry is refused only where
`retry.Do` looks at the context: before the first attempt and during the wait.

`charges` counts what rails have really done, which the program does not see. An adapter's
outcome is `paid`, `unpaid` (success without a payment: x402 without a 402 answer, a card
payment above 1000 that `requires_action`), `declined`, `unconfirmed` (paid, but an error:
x402 after its proof of payment) or `panics` (x402 with a `target_url` that is no URL).
`Rails` says which of them an adapter can have for a request. The `MaxRetryCounts` key
"stablecoin" is no adapter's id, so both stablecoin rails get one attempt; the model keeps
that. A breaker's rail is known by its id until it has answered; then the code goes on with the
result's `ProviderID`, the provider's own name for the payment (`ln-<method>-<second>`, `pi_...`,
`0x..._hash` of both stablecoin rails, `x402-session-...`, `direct-...`). `ReturnResult` writes that
into the rows `metering_update` and `final_status`, as coordinator.go:79, 104 and 105 do; the
event's `RailUsed` (:85) and the response's `rail` (main.go:207) get it too. What the contract and
`Spend` call the provider is the rail behind it, which the program no longer knows. Audit rows are kept
for the steps and statuses named by `Audited`; any may be missing.

`Saga` takes any order of a plan, which covers all that the scores can give and makes its
theorems hold for every registry; which orders there can be is the question of `Routing`.

### Routing

A planner is a request in `ComputePlan`: `ListAdapters` (a read of the registry), then for each
adapter `LookAt` (its health check, which reads the breaker) and `Weigh` (a second read of the
registry, for the score), at last `MakePlan` (the sort, and a third read). Breakers open and
leave open at any time between. `discover` takes the write lock, checks every adapter and lets
go (`BeginRound`, `CheckRail`, `Locked`); the readers hold the lock for one step only, so they
cannot keep it from anyone. Planners meet nowhere else, so one planner that asks again and
again stands for all of them. Scores are ten thousandths: availability is the only part of a
score that changes, so the rest is a number per rail (`Static`, computed in `Rails` from the
estimates, weights and penalties of the code, as is `RailModifier` from `mockPolicyCall`).
Of the policy's weights and modifiers those of `mockPolicyCall` are taken, since `main`
passes no others. `Spread` says that these numbers lie so far apart that availability, at
most 15 percent of a score, never changes the order of two rails for one currency.

### PaymentContract

What is left of a saga when rails, breakers and retries are forgotten: `Open`, `Charge`,
`Execute`, `Fail`, `Bill` (the metering event), `Abandon`, and `Stop` for a crash. Rails that may charge and still
answer with an error are *unsure*; the promise is about all others. `Saga` refines it
(`KeepsContract`, checked by TLC and proved), `Spend` builds on it.

### Spend and IdempotentSpend

Attempt `<<c, i>>` is the i-th HTTP request of call `c`, and names its handler and its
transaction too. Client and handler run on their own: a client that times out sends its next
request while the old handler goes on, its context cancelled (`gone`) some time later. The
idempotency check (`Replay`, `OpenSaga`), the saga, and `redisClient.Set` with the response
(`Respond`) are separate steps. `Faults` says what the environment does: `timeout`, `crash`,
`redis` (a command fails), `overlap` (calls with one request_id at once), `gateway`. The
TypeScript client's `maxRetries || 3` is in `Retries`.

How an answer ends a call depends on the SDK. TypeScript returns it (`Returns`). Python makes a
`Decimal` of `estimated_cost`, which the service always fills with the text "estimated"
(main.go:208): `TransactionResult.from_dict` (models.py:19) raises `InvalidOperation`, which
`spend()` does not catch, so a Python call that was paid for ends `unparsed` (`CannotParse`) and
returns nothing. A handler that panics or dies is Kong's 502, which both SDKs treat as a server error
(`BadGateway`); a call in `Direct`, whose `base_url` is the service itself, sees its connection reset
and knows no answer (`ConnectionReset`).

`IdempotentSpend` remembers one transaction per request_id, gives every call that returns that one,
and pays again only after the response has been forgotten.

### Metering

Counters and tables are sums, so the model keeps how often each event went into each. The
writer buffers (`PublishFinancialEvent`, or `PublishFails` when the topic's partitions cannot be
looked up), writes, and on an error tries again if it is temporary, or drops; a write that was stored
without acknowledgement leaves a copy. The consumer commits the offset, then updates Redis, then
Postgres. A Redis pipeline may fail part way, and go-redis repeats it after a network error. The daily
counter is that of the day on which the event is processed (redis.go:27; consumer.go:12-21 does not
read the event's timestamp), so `daily[e]` counts over all days. `Rejected` are events that the tables'
constraints refuse. SIGTERM (`Shutdown`) cancels the context that the calls in hand use, and
`ReadMessage` is called once more: it selects among what is ready, so it may take a message and
commit its offset without returning it (`LoopBreaks`), or, if its goroutine is held up long enough,
return it, which the model counts as a fault. Messages that are no JSON are left out: only the
publisher writes to this topic.

### Reconciliation

One run is one database transaction (`Begin`, `Fetch`, then per confirmation `Pair`, `LookUp`
and `LookUpReverse` for the exchange rate, `Match` or `Mismatch`, at last `Complete`), with
webhooks (`Deliver`) and rates arriving between any two statements; a second connection sees them
when they are committed. `exchange_rates` has one row per pair, with an `updated_at`: `StoreRate`
inserts it or changes it, also during a run, and `held` remembers what it was during the run. A run
reads a pair and its reverse by two statements. The two INSERTs into `discrepancies` pass a
parameter too many and raise before they reach the database, so the exception handler commits
what was matched so far and writes `failed`; the statements after them are unreachable. A
database error aborts the transaction (`Die`): the handler's own UPDATE raises, nothing is
committed, and the scheduler ends. A COMMIT may have worked although it looks failed.

Amounts are DECIMALs of any scale: whole numbers of a `Parts`-th of the quantum 0.00000001.
`Quantize` rounds half to even as `Decimal.quantize` does, on the external side only, also where both
currencies are the same (main.py:113). Rates are fractions, one over a rate is what `Reciprocal`
says (Decimal rounds it to 28 digits), and one over a rate of zero raises (`DivideByZero`), which
fails the run. Left out: rows of `exchange_rates` that are deleted (nothing deletes them), amounts so
large that `quantize` raises (10^20 and more) and products of more than 28 digits, which Decimal
rounds before `quantize` does.

### PolicyApprovals

A decision is a handler with one transaction: `UpdateApproval` (waits for the row, then asks
for `pending`), `SelectVersion` (locks nothing) with the decoding of the changes, `UpdatePolicy`
(waits for the policy's row), `Commit`, whose answer may be lost, or `Rollback`. What a handler
has written is seen by others when it commits; until then it holds the rows (`Locks`,
`LocksPolicy`). A proposal's changes are an object with attributes, an object without, or no
object. The service stores any status that the caller sends (`Verdicts`). "approved" applies the
change and the others only end the approval, but for "pending": a decision with this status passes the
WHERE, commits, is answered with success and leaves the approval to be decided again. `OneDecider` and
`DecidedOnce` speak of the final ones. A handler that waits for the approval's row is still `idle`,
like one that has not arrived, so `DecisionsEnd` speaks of those that hold it. `ProposePolicyChange`
has no route of its own; the model lets proposals appear at any time.

### PolicyPipeline

`log` is the topic `transaction-events`, which holds pending events (`Publish`: the transaction
handler, a client that posts again, Kafka's own repetition) and decisions. The engine's consumer
has handed out `position` messages and committed `committed` of them; it commits while it polls
(`CommitOffset`). `TakeMessage` takes a message, and drops it if it is not pending. An evaluation
is cut where it waits: for the policy (`FetchPolicy`), for the risk service (`AskRisk`, with the
checks against the policy's attributes), for the rules (`FetchRules`); policies change between
these steps (`Administration`, every step of `PolicyApprovals`). A decision goes to the
producer's `buffer` and from there to the topic or nowhere (`Deliver`, `LoseDecision`). Exceptions
that nobody catches end the process (`Dies`): `metadata` is null, an amount is no number, a
policy's roles are NULL and there are no rules. `Crash` and `Restart` come at any time; `Restart`
also stands for the consumer that has lost its group membership.

Services that are away and a database error are inputs of the steps (`away`, the empty table of
`rules`). What a policy's attributes or a rule's conditions say of a transaction is given as the
set of transactions they let pass (`Permits`, `RuleTables`): their arithmetic is no subject of a
property, when they are read is. Attributes are an object that parses. `Active` are the policies that
are created with the status 'active' (`CreatePolicy` stores the caller's, and nothing changes it
later); the query sees no others. Ids are numbers in the order of their UUIDs, NULL behind them,
as the query sorts them; of two equal rows PostgreSQL may return either.

## 3. Runs

All runs use two workers and end within three minutes. `CHECK_DEADLOCK FALSE` is used where
the system may stop: all requests served, all events counted, all decisions made.

| run | instance | shows |
|---|---|---|
| `circuit_breaker` | real settings, 4 goroutines, 7 calls per closed window | `TypeOK`, `CountsAddUp`, `StaleResultsDecideNothing`, `ProbesDecide` |
| `saga` | two bitcoin spends, one that lightning can pay, one that it declines and whose `target_url` makes x402 panic, sharing the breakers of lightning and x402 (trip at the first failure, 1 probe, 2 attempts); rejecting policy, the rows of the end and of successful attempts, a deadline, a crash | `TypeOK`, `ChargedOnce`, `FallbackInOrder`, `BreakersAddUp`, `AuditTruthful`, `OneLateCall`, `KeepsContract`; `SagasEnd` under fairness |
| `routing` | one planner after another over lightning, one stablecoin rail and x402, for two currencies; breakers that open and recover at any time, two rounds of discovery | `TypeOK`, `PlanIsOfItsTime`, `OrderIsStatic`; `PlansEnd` under fairness |
| `spend_quiet` | two calls with one request_id in turn, TypeScript through Kong and Python without it, one retry each, and a TypeScript call with `maxRetries: 0` whose body is refused; rails of both kinds, panics, expiry, gateway refusals | `TypeOK`, `KeepsPromise`; `CallsEnd` under fairness |
| `spend_faults` | two overlapping calls with one request_id, TypeScript with a retry through Kong and Python without either; every fault | `AnswersTruthful`, `PaymentsNeverDenied` |
| `metering` | three events, one rejected, two write attempts, any two faults | `TypeOK`, `BookedAtMostOnce`, `FaultsBoundDrift`; `ConsumerCatchesUp` under fairness |
| `reconciliation` | a confirmation in the transaction's currency that is rounded, one that agrees at a stored rate or a rounded reciprocal only and one at the default of 1.0 only; two rates of either direction, one of them zero, that come and change at any time, one fault | `TypeOK`, `RunsTellTheTruth`, `KnownRatesDecide`, `SettledOnce`; `MatchesArrive` under fairness |
| `approvals` | six decisions on four approvals (two change one policy, one of them has two deciders and one caller that puts it back to pending, one changes nothing, one is broken) | `TypeOK`, `OneDecider`, `InForceApproved`, `NoVersionWithoutApproval`, `DecidedOnce`; `DecisionsEnd` under fairness |
| `pipeline` | a purchase, an event whose amount is a text and one without metadata; an agent's own policy, whose limit a change lowers, and another agent's for the same workflow; two tables of rules, a restart | `PipelineTypeOK`, `DecisionsAccounted`, `ApprovedByPolicy`; `EngineCatchesUp` under fairness |

Runs that end in a violation, each of a statement in the repository that the code does not
keep (PROJECT.json, "findings", quotes them):

| run | statement | what happens |
|---|---|---|
| `paid_once_per_request_id` | a repeated request_id returns the cached response (`README_API.md:59`) | a retry after a timeout pays again |
| `discrepancy_logged` | discrepancies found are logged (`schema.sql:222`, `main.py:100`) | the INSERT raises, the run fails |
| `version_per_change` | apply changes and increment version (`postgres.go:111`) | two decisions write the same version |

More disagreements can be read off the models and have no run of their own:

- `HealthCheck` is true for a half-open breaker (`Healthy` in `Breaker`), while the comment at
  `resilience.go:60` asks for a closed one.
- A saga fails although x402 was paid, when the answer after the proof of payment is lost (`Saga`,
  outcome `unconfirmed`); `exceptions.py:12` calls that "all payment rails fail".
- Of two handlers at once with one request_id the later one overwrites the response that a client
  has already got (`Respond` in `Spend`; `README_API.md:59`).
- An event for which `PublishFinancialEvent` returned nil is lost with the process, after five
  failed writes or one that fails for good (`WriteFails`, `OrchestrationCrashes` in `Metering`), while
  `publisher.go:34` speaks of at-least-once delivery (and :37 of fire-and-forget). No property bounds
  these losses: nothing does but the faults themselves, of which one can cost the whole buffer.
- No Python call that was paid for returns (`CannotParse` in `Spend`), while `client.py:68` means to
  return the result of every 200 or 202.
- The audit rows of a success, the event and the response carry the provider's payment id where
  `schema.sql:67` wants the adapter's id (`ReturnResult` in `Saga`); that of a stablecoin does
  not tell which of two rails it was.
- An event that the tables refuse is never booked, its offset being committed already
  (`ReadMessage`, `PostgresRejects`), while `schema.sql:104` wants a debit and a credit for every
  transaction.
- With the default registry the order of a plan depends on nothing that happens at run time
  (`OrderIsStatic`), while `README.md:12` says that routing is dynamic; only which rails are healthy is.
- `postgres.go:142` gives an agent's policy priority over a workflow's, and that over an
  organisation's. The query orders by ids (`SortsBefore`): a policy of *another* agent for the same
  workflow comes first if that agent's id is smaller, and an organisation's policy, which has
  neither id, never matches.
- An event without `agent_id` is always rejected, since "default" is no UUID (`FetchPolicy`); the
  transaction handler writes an event without metadata as `"metadata": null`, which ends the engine,
  again after each restart (`TakeMessage`); the daily budget is never used up (`AskRisk`).
- A redelivered event is decided again and may get the other verdict; rules that cannot be read
  count as no rules (`FetchRules`).

**Bounds, and why they are enough.** *Breaker*: four goroutines are one more than the probes of
a half-open breaker, so a fourth is refused while three are out and one call of an older
generation can be out besides; `MaxWindow` 7 is two calls past the five at which the breaker
can trip. *Saga*: two transactions suffice for every interaction through a breaker (one moves
it, the other meets it); settings of 1 request and 1 probe let every state be reached within
their attempts (`circuit_breaker` has the real ones). Two attempts per rail distinguish first,
last and repeated attempt. `Audited` keeps the rows that say most, those of the end and of a
successful attempt; the theorem is about all of them. Of the rails of this run
only lightning reports whatever it has charged, so `ChargedOnce` says there "at most once by
lightning"; that no two such rails are charged is left to the theorem. `Impatient` are the transactions whose deadline may pass at any
point, `MaxCrashes` the crashes. *Routing*: a rail that may fail, one that may not and one of both
currencies meet in a plan; two rounds let scores fall twice and recover between, and the theorem
is about any number. *PolicyPipeline*: a good event, one that kills the engine half way through an
evaluation and one that kills it at once, in any order; `MaxCopies` 1 and `MaxRestarts` 1 let the
engine meet the same event in two lives and one event before and behind another (the theorem is
about any number of both); one change lets attributes move during an evaluation and two policies
let the effective one move by a creation. Both are active: that a policy is not
decides nothing but whether the query sees it. *Spend*: two calls, of which one retries, are the fewest with
both kinds of repetition; one charge per rail and transaction is what the saga makes on rails
that report; a third call has a body that is refused and the retries nobody asked for.
*Metering*: two write attempts distinguish a failed from a last one; two faults let a second
one meet what the first has left (a duplicate in the topic, a daily counter behind the total, a
cancelled context). *Reconciliation*: the three confirmations and the rates let a run succeed,
fail before and fail after a match, and change its verdict with a rate that comes or changes in
the middle; the reciprocal is rounded to one digit, so that its rounding decides. One fault is a
lost COMMIT or a death, each at any point; the theorems are about any number. *PolicyApprovals*: two
deciders of one approval, a caller that puts it back to pending and a fourth decision on the same
policy wait for both kinds of rows; a second policy
shows that one policy's changes do not reach the other.

**Fairness.** `Saga`: each started goroutine goes on (the scheduler runs it; the policy
function returns at once; the adapters wait for nothing, or for an HTTP client with a timeout);
nothing is assumed of breakers or contexts. `CircuitBreaker`: a call that is out comes back
(the same reason) and the open timeout passes. `Spend`: clients and handlers go on; that a
handler's saga ends is `SagasEnd`. No fairness on client timeouts, so calls end even if the
clock never helps. `Metering`: the writer's goroutine and the consumer's loop go on while they
are up; nothing in the repository restarts a stopped container, so liveness is claimed only
while it is up. `Reconciliation`: the scheduler's loop goes on until it ends with an error.
`PolicyApprovals`: handlers go on, and PostgreSQL grants a lock to those who wait for it.
`Routing`: health checks return (they read a flag), and a planner that can go on again and again
does: Go's RWMutex lets the readers that wait for an Unlock in before the next writer.
`PolicyPipeline`: the loop goes on, the engine's calls have timeouts, the producer's thread sends or
gives up, and offsets are committed every five seconds of polling; nothing is assumed of restarts, so
`EngineCatchesUp` is claimed while the engine is not down.

## 4. Proofs

Proved with TLAPS for every value of the constants, under the named assumptions of the
modules (`BreakerAssumption`, `CallerAssumption`, `SagaAssumption`, `RoutingAssumption`,
`SpendAssumption`, `NoTxAssumption`, `MeteringAssumption`, `ReconciliationAssumption`, `PolicyAssumption`, `PipelineAssumption`: sets are finite, numbers in their range, outcomes known; no size is fixed).

| theorem | states |
|---|---|
| `CircuitBreakerProofs!TypeCorrect` | `Spec => []TypeOK` |
| `CircuitBreakerProofs!CountsBalance` | `Spec => []CountsAddUp` |
| `CircuitBreakerProofs!StaleResultsIgnored` | `Spec => StaleResultsDecideNothing` |
| `SagaProofs!TypeCorrect` | `Spec => []TypeOK` |
| `SagaProofs!NeverChargedTwice` | `Spec => []ChargedOnce` |
| `SagaProofs!ContractKept` | `Spec => KeepsContract` (Saga implements PaymentContract) |
| `SagaProofs!FallbacksInOrder` | `Spec => []FallbackInOrder` |
| `SagaProofs!LateOnce` | `Spec => []OneLateCall` |
| `SagaProofs!AuditRight` | `Spec => []AuditTruthful` |
| `SagaProofs!BreakersBalance` | `Spec => []BreakersAddUp` |
| `SagaProofs!NoWayBack` | `Spec => NeverBack` |
| `SagaProofs!NoOtherRailDecides` | `Spec => OwnCallsDecide` |
| `RoutingProofs!TypeCorrect` | `Spec => []TypeOK` |
| `RoutingProofs!PlansAreOfTheirTime` | `Spec => []PlanIsOfItsTime` |
| `RoutingProofs!OrderKept` | `Spread => (Spec => []OrderIsStatic)` |
| `SpendProofs!TypeCorrect` | `Spec => []TypeOK` |
| `SpendProofs!AnswersTrue` | `Spec => []AnswersTruthful` |
| `SpendProofs!NeverDenied` | `Spec => []PaymentsNeverDenied` |
| `SpendProofs!TwiceOnlyIfLost` | `Spec => []PaidOncePerCall` |
| `SpendProofs!PromiseKept` | `Quiet => (Spec => KeepsPromise)` (Spend implements IdempotentSpend) |
| `SpendProofs!PaidOnce` | `Quiet => (Spec => []PaidOncePerRequestId)` |
| `MeteringProofs!TypeCorrect` | `Spec => []TypeOK` |
| `MeteringProofs!BookedOnce` | `Spec => []BookedAtMostOnce` |
| `MeteringProofs!DriftBounded` | `Spec => []FaultsBoundDrift` |
| `ReconciliationProofs!TypeCorrect` | `Spec => []TypeOK` |
| `ReconciliationProofs!RunsTruthful` | `Spec => []RunsTellTheTruth` |
| `ReconciliationProofs!SettledForGood` | `Spec => SettledOnce` |
| `ReconciliationProofs!KnownRatesUsed` | `Spec => []KnownRatesDecide` |
| `PolicyApprovalsProofs!TypeCorrect` | `Spec => []TypeOK` |
| `PolicyApprovalsProofs!OneDeciderOnly` | `Spec => []OneDecider` |
| `PolicyApprovalsProofs!AttributesApproved` | `Spec => []InForceApproved` |
| `PolicyApprovalsProofs!VersionsEarned` | `Spec => []NoVersionWithoutApproval` |
| `PolicyApprovalsProofs!VerdictsFinal` | `Spec => DecidedOnce` |
| `PolicyApprovalsProofs!VersionsInTurn` | `Spec /\ []OneChanger => []VersionPerChange` |
| `PolicyPipelineProofs!PipelineTypeCorrect` | `PipelineSpec => []PipelineTypeOK` |
| `PolicyPipelineProofs!ApprovalsLawful` | `PipelineSpec => ApprovedByPolicy` |
| `PolicyPipelineProofs!DecisionsAccountedFor` | `PipelineSpec => []DecisionsAccounted` |
| `PolicyPipelineProofs!ApprovalsUndisturbed` | `PipelineSpec => Spec` (the pipeline implements PolicyApprovals) |
| `PolicyPipelineProofs!ApprovalsStillHold` | `PipelineSpec => [](OneDecider /\ InForceApproved /\ NoVersionWithoutApproval) /\ DecidedOnce` |

*Breaker.* The invariants count the calls in flight, so the proof works on the cardinality of
`fresh`: entering adds one and returning removes one, and every change of generation empties
it. The two halves of `CountsAddUp`, `ProbeAccounting` and `WindowAccounting`, are inductive
together with the types.

*Saga.* `ChargedOnce` is not inductive: it does not say that nothing was charged before a
rail acts. `MoneyInv` does. For each transaction it fixes the money at every location: before
the answer nothing certain is charged; once a rail has answered `paid`, that rail is the only
one, charged once; after success the provider is; an abandoned one has at most one. Only
`RailActs` charges; it starts from "nothing certain" because every error of a certain rail
means that it charged nothing. `TypeInv` adds to the types that plans are over registered
rails and that a transaction at a rail has one (`leg` within `plan`). Most steps neither
charge nor answer and are dealt with by one lemma; the frame lemma says that a step of one
transaction leaves the others' money alone. The refinement uses the same invariant: `Fail`
needs `NothingCertain`, `Execute` that no other certain rail was charged.
`TripInv` carries `FallbackInOrder`, `OneLateCall` and `AuditTruthful` together. `Journey` counts the
attempts at every location: none on the rails still to come (no rail is twice in a plan), all of them on
those given up while the context lived, fewer than all before another attempt; and an attempt begins
with no late call made yet, because both places that lead to one look at the context. `RowsTrue` says
of each row what must be so for it to be there; rows that speak of the end are written with it, and
their provider's id comes from the answer of the rail in hand, which was charged if the id is a payment's.
`BalanceInv` fits each breaker's counts to the calls that count for it, of whatever saga: the proof
follows the set `Counted(r)`, to which an admission adds one call, from which a result takes one, and
which a change of generation empties. From the same set follows `OwnCallsDecide`: a breaker that is
closed or half-open changes state only by a member of `Counted(r)`, so no saga on another rail and no
call of an earlier generation switches a rail off; the only other cause is a restart.
`NeverBack` is the safety half of `SagasEnd`, for any number of rails and attempts: each step of a
saga's goroutine goes forward in the order of the saga's phase, the rails still to be looked at, the
leg of the plan, the attempts on its rail (which never pass `Attempts`) and the place within an
attempt, and no other step sets it back. What `SagasEnd` adds, and TLC checks, is that there always
is a next step.

*Routing.* `PlanIsOfItsTime` speaks of finished plans; `PlannerInv` carries it through the loop: a
steady rail is found, in hand or still to come, and nothing found was down all along. `OrderIsStatic`
follows from bounds: the worth of a candidate lies between its score at the lowest availability
that discovery can give it and its score at full availability (`OrderInv`). Under `Spread` these
intervals of two rails do not cross, so a sorted plan is in static order. TLC evaluates `Spread`
(`SpreadAssumption` of `MCRouting`) for the instance of run `routing`, three of the five default rails
and two currencies; for these the theorem speaks of any number of requests and rounds. For
the other rails and currencies `Spread` is an assumption.

*Spend.* Both properties speak of several attempts of a call and of what Redis remembers, and neither
is inductive. `StageInv` ties the handler to its transaction: it is open exactly while the saga
runs, executed before anything is stored, and an error is the answer of a failed one only.
`MoneyInv` adds the money: nothing certain is paid in a new or failed transaction, and an executed one
that was paid names its rail. `AnswerInv` follows an answer from the handler to Redis, to the
handlers that replay it, to the agent: everywhere it is executed and has the right request_id; it
survives each step because an executed transaction stays so (`ContractKeeps`, from PaymentContract
alone). `ClientInv` is why no payment is denied: an attempt that is active or paid is the one that its
call waits for, the one whose answer it returned or could not parse, or was given up, or its handler
is dead; a call tries again only after an answer that denies a payment which was not made, after a
handler's death or by giving up. `DeathInv` adds that a handler that ends in a panic has paid nothing for
certain, so only a death of the process takes a payment with it. No environment is excluded: these
theorems hold for all `Faults`, and so does `PaidOncePerCall`, which follows from `ClientInv`: whatever
fails, of several payments for one call all but one are in attempts that the client gave up or whose
handler died. TLC finds it violated as soon as those are counted too.

`PromiseKept` and `PaidOnce` are about `README_API.md:59`, which promises that a repeated
`request_id` gets the cached response. Run `paid_once_per_request_id` refutes that with a client
timeout alone; the theorems say where it is true. `Quiet` excludes a client that gives up, a death of
the process, a Redis that fails and calls with one `request_id` at the same time. It leaves the
gateway's refusals, the retries, empty `request_id`s, rails that do not report what they did and the
expiry after 24 hours. `TurnInv`: a handler runs only while its client waits for it, and for each
`request_id` one client waits. `KeptInv`: a payment is in its saga, in Redis, or expired; a saga
runs only while Redis has nothing for its `request_id`; the answer that a client is waiting for is
the one in Redis. So the next call with the `request_id` finds the payment before it can start
a saga, and each step is an action of `IdempotentSpend` or a stutter (`PromiseStep`). The promise is
about calls that return; a Python call that cannot parse its answer takes a stutter instead. Each of the
excluded faults breaks `TurnInv` or `KeptInv` at the step that it adds.

*Metering.* `WriterInv` says that a buffered event has an attempt left. For `BookedAtMostOnce`, what is
booked together with the copy in hand never exceeds the copies that the consumer has taken; taking a
message raises both by one, because its offset is committed before it is processed.
`FaultsBoundDrift` bounds a sum of differences over all events, from what the consumer has taken of the
topic: what the writer loses or duplicates before is not in it. `Drift` states the sum as the
size of a set of pairs (an event, the n-th time that it is missing or too much), so no induction over
events is needed: one step changes the gap of one event by at most one, which adds at most one pair
(`OnePairMore`), and a fault pays for it. A SIGTERM pays for two, and both are lost later: the event
that the cancelled consumer has in hand (`Doomed`) and the one that its last `ReadMessage` may take.
So `DriftInv` bounds drift and doomed event by a `Bill` of one per fault and one per SIGTERM, less
one while a cancelled consumer may still read; a step that loses one of the two lowers the debt by as
much as it raises the drift.

*PolicyPipeline.* `ApprovedByPolicy` needs `EvalInv`: as long as policies have not moved, the policy
in hand is effective and its attributes are those in force, through every step of
`PolicyApprovals`. Of the three parts of `DecisionsAccounted`, each has an invariant of its own.
`ProgressInv`: what the consumer has passed is decided or in hand; of an engine that is down only
committed offsets are known, which is why a restart must go back to them. `PoisonInv`: an event without
metadata is ahead of a living engine, and whatever is decided has been published, so before
it. `CountInv` is arithmetic: the decisions on a transaction, with the one in hand, are at most the
copies passed in this life plus all copies once for each earlier one; a restart turns the first into
the second, and the number of decisions never grows but by a decision on what is in hand.

*Reconciliation.* `RunsTellTheTruth` speaks of finished runs; `RunInv` carries it through a run
under way: the row says `running`, `matched` is the size of what was updated since the last
COMMIT, and nothing still fetched has been reconciled, so a COMMIT adds exactly what it counts.
`KnownRatesDecide` needs `RateInv` on top: during a run `held` has what is on record, it only grows,
and `Prescribed` with it; the rate in hand is prescribed by it (a reciprocal or the default only after
the pair's row was seen missing), and what was updated agreed at such a rate. Nothing is assumed of
rates, amounts or of the rounding of a reciprocal.

*PolicyApprovals.* `HandlerInv` and `LockInv` say that a handler in its transaction holds an
approval that is still pending, and holds it alone; so `Commit`, which writes verdicts, meets no
final verdict, and the change it applies is a new one; if it writes "pending", nothing has changed. `VersionInv` says the same of the versions
that handlers have read as of those in the table: each is at most the first version plus the
approved changes. It survives an overwritten update because `Cardinality` only grows. The other half, that every
approved change makes a version (`postgres.go:111`), is refuted by run `version_per_change`;
`VersionsInTurn` says that two handlers between reading and writing one policy's version are the
only cause: under `OneChanger` a version that was read is still the stored one at COMMIT.
`ApprovalsUndisturbed` carries what is proved of approvals over to a running engine, which only
reads policies: each step of the pipeline is a step of `PolicyApprovals` or leaves its variables alone.

**Only model-checked**: liveness (`ProbesDecide`, `SagasEnd`, `PlansEnd`, `CallsEnd`,
`ConsumerCatchesUp`, `MatchesArrive`, `DecisionsEnd`, `EngineCatchesUp`), which TLAPS does not do
under fairness. Of the safety properties that hold all are theorems; `KeepsPromise`, which run
`spend_quiet` checks, is one under `Quiet`.

## 5. Plan

In this order, the money first:

1. *(done)* breaker, saga, contract, and their proofs.
2. *(done)* `Spend` over the contract, `IdempotentSpend`; `Metering`.
3. *(done)* `Reconciliation` and its proofs.
4. *(done)* `PolicyApprovals` and its proofs.
5. *(done)* `PolicyPipeline` over `PolicyApprovals`, and its proofs.
6. *(done)* `Routing` and its proofs.
7. *(done)* Proofs of `Spend` and `Metering`, and of all invariants of `Saga`.
8. *(done)* Proofs of `KeepsPromise` in a quiet environment, of `FaultsBoundDrift`, and of what
   is left of the refuted claims (`PaidOncePerCall`, `VersionsInTurn`).
9. The safety half of the other liveness properties, as `NeverBack` is of `SagasEnd`: the loops of
   `Spend`, `Metering` and `Reconciliation` never go back.

## 6. Not modelled, and why

- Wallet derivation, secrets, telemetry, Kong, Helm, dashboards: no state of the payment path.
- Creating organisations and agents, the OAuth callback: single inserts that no other operation
  reads, and a fixed text.
- Amounts and floating-point costs outside `Reconciliation` and `Routing`; the conditions of rules
  and attributes of policies (`Permits`, `RuleTables`): no property there compares two amounts.
- Loading adapters from a file: `main` always installs the default registry, and registers it before
  it serves.
- `Dispatch`, `CreateExecutionPlan`, `UpdatePlanStatus`, `GetRemainingBudget`,
  `AdjustLedger`: called by nothing.
- The legacy SDK, which posts once to an endpoint that the gateway does not route.
- The loss of Redis' or Postgres' own data, and Kafka with several partitions: the events of
  one topic commute in everything that is counted by metering, and the policy engine's topic is
  created with the broker's default of one.
