-------------------------------- MODULE Saga --------------------------------
(***************************************************************************)
(* The orchestration service's core: SagaCoordinator.Orchestrate running   *)
(* for several transactions at once over one registry of rails, each rail  *)
(* an adapter behind its own ResilienceWrapper (module Breaker).           *)
(*                                                                         *)
(* Every transaction is a goroutine of an HTTP handler.  It is cut into    *)
(* the steps between which other goroutines, the clock and the client can  *)
(* act: the policy answer, each health check of ComputePlan, each breaker  *)
(* admission, the rail's action, its answer reaching the breaker, and the  *)
(* wait between retries.                                                   *)
(*                                                                         *)
(* The order of a plan comes from floating-point scores; here it is any    *)
(* order of the candidates, and module Routing says which ones the scores  *)
(* can give.                                                               *)
(***************************************************************************)
EXTENDS Breaker, FiniteSets, Sequences, Functions

CONSTANTS
    Tx,          \* transactions (one per spendHandler that reaches the saga)
    Rail,        \* ids in the registry
    NoRail,
    Offers,      \* Offers[t]: rails that support t's currency
    Outcomes,    \* Outcomes[t][r]: what executing t on r may do
    ProviderIDs, \* the providers' own transaction ids
    ProviderID,  \* ProviderID[r][o]: the id in r's result for outcome o
    Attempts,    \* Attempts[r]: maxAttempts for r
    Decisions,   \* what the policy function may answer
    Audited,     \* bound: <<step, status>> of the rows kept in the model
    Impatient,   \* bound: transactions whose context may end before they do
    MaxCrashes   \* bound: process crashes in a behaviour

\* What one adapter.Execute does: it charges and says so; it succeeds although
\* nothing is paid (x402 without a 402 answer, a card payment that requires
\* the payer's action, both returned as results); it returns an error having
\* charged nothing; it returns an error although the rail has charged (x402
\* after the proof of payment went out); it panics before doing anything
\* (x402 with a target_url that is no URL).
Outcome == {"paid", "unpaid", "declined", "unconfirmed", "panics"}
Succeeds == {"paid", "unpaid"}
Charging == {"paid", "unconfirmed"}

\* adapter is the column adapter_id, in which the rows of a result have the
\* provider's id of the payment instead.
AuditRows ==
    [ step : {"start", "policy_check", "routing", "execution_attempt",
              "fallback_attempt", "metering_update", "final_status"},
      adapter : Rail \cup {NoRail} \cup ProviderIDs,
      status : {"pending", "success", "failure", "retry"} ]

ASSUME SagaAssumption ==
    /\ IsFiniteSet(Tx) /\ IsFiniteSet(Rail) /\ NoRail \notin Rail
    /\ Offers \in [Tx -> SUBSET Rail]
    /\ Outcomes \in [Tx -> [Rail -> SUBSET Outcome \ {{}}]]
    /\ ProviderID \in [Rail -> [Succeeds -> ProviderIDs]]
    /\ ProviderIDs \cap (Rail \cup {NoRail}) = {}
    /\ Attempts \in [Rail -> Nat \ {0}]
    /\ Decisions \subseteq {"APPROVE", "REJECT"}
    /\ Impatient \subseteq Tx
    /\ MaxCrashes \in Nat

VARIABLES
    pc,          \* where the goroutine of t is
    ctx,         \* "live", or "done": 30s GlobalTimeout over, client gone
    todo,        \* ComputePlan: adapters still to look at
    candidates,  \* ComputePlan: adapters found healthy and fitting
    plan,        \* the plan: AdapterID followed by FallbackChain
    leg,         \* index in plan of the rail being tried
    tries,       \* tries[t][r]: calls of adapter.Execute for t on r
    answer,      \* outcome of the call in flight, once the rail has acted
    fresh,       \* the call in flight belongs to its breaker's generation
    late,        \* calls begun after the context was done
    breaker,     \* breaker[r]: the breaker of r's ResilienceWrapper
    charges,     \* charges[t][r]: payments of t rail r has made
    provider,    \* rail whose ExecutionResult the caller gets
    billing,     \* metering event of t: "none", "sent", "published", "dropped"
    audit,       \* audit[t]: rows in audit_trail
    crashes      \* crashes so far

saga == <<todo, candidates, plan, leg>>
money == <<charges, provider, billing>>
vars == <<pc, ctx, saga, tries, answer, fresh, late, breaker, money, audit, crashes>>

Locations == {"idle", "policy", "routing", "enter", "attempt", "inflight",
              "answered", "backoff", "done", "failed", "abandoned"}
Over == {"done", "failed", "abandoned"}
Running(t) == pc[t] \notin Over \cup {"idle"}

TypeOK ==
    /\ pc \in [Tx -> Locations]
    /\ ctx \in [Tx -> {"live", "done"}]
    /\ todo \in [Tx -> SUBSET Rail]
    /\ candidates \in [Tx -> SUBSET Rail]
    /\ plan \in [Tx -> Seq(Rail)]
    /\ leg \in [Tx -> Nat]
    /\ tries \in [Tx -> [Rail -> Nat]]
    /\ answer \in [Tx -> Outcome \cup {"none"}]
    /\ fresh \in [Tx -> BOOLEAN]
    /\ late \in [Tx -> Nat]
    /\ breaker \in [Rail -> Breakers]
    /\ charges \in [Tx -> [Rail -> Nat]]
    /\ provider \in [Tx -> Rail \cup {NoRail}]
    /\ billing \in [Tx -> {"none", "sent", "published", "dropped"}]
    /\ audit \in [Tx -> SUBSET AuditRows]
    /\ crashes \in Nat

\* The rail t is trying.
Current(t) == plan[t][leg[t]]

Init ==
    /\ pc = [t \in Tx |-> "idle"]
    /\ ctx = [t \in Tx |-> "live"]
    /\ todo = [t \in Tx |-> {}]
    /\ candidates = [t \in Tx |-> {}]
    /\ plan = [t \in Tx |-> <<>>]
    /\ leg = [t \in Tx |-> 1]
    /\ tries = [t \in Tx |-> [r \in Rail |-> 0]]
    /\ answer = [t \in Tx |-> "none"]
    /\ fresh = [t \in Tx |-> FALSE]
    /\ late = [t \in Tx |-> 0]
    /\ breaker = [r \in Rail |-> NewGeneration("closed")]
    /\ charges = [t \in Tx |-> [r \in Rail |-> 0]]
    /\ provider = [t \in Tx |-> NoRail]
    /\ billing = [t \in Tx |-> "none"]
    /\ audit = [t \in Tx |-> {}]
    /\ crashes = 0
-----------------------------------------------------------------------------
(* LogAuditStep: every error of an insert is ignored, and an insert fails  *)
(* when the context is done, so any of the rows may be missing.            *)

Row(step, adapter, status) == [step |-> step, adapter |-> adapter, status |-> status]

Log(t, rows) ==
    \E kept \in SUBSET {row \in rows : <<row.step, row.status>> \in Audited} :
        /\ ctx[t] = "done" => kept = {}
        /\ audit' = [audit EXCEPT ![t] = @ \cup kept]

Goto(t, l) == pc' = [pc EXCEPT ![t] = l]

-----------------------------------------------------------------------------
(* Orchestrate up to the plan.                                             *)

Start(t) ==
    /\ pc[t] = "idle"
    /\ Goto(t, "policy")
    /\ Log(t, {Row("start", NoRail, "success"), Row("policy_check", NoRail, "pending")})
    /\ UNCHANGED <<ctx, saga, tries, answer, fresh, late, breaker, money, crashes>>

PolicyRejects(t) ==
    /\ pc[t] = "policy"
    /\ "REJECT" \in Decisions
    /\ Goto(t, "failed")
    /\ Log(t, {Row("policy_check", NoRail, "failure")})
    /\ UNCHANGED <<ctx, saga, tries, answer, fresh, late, breaker, money, crashes>>

PolicyApproves(t) ==
    /\ pc[t] = "policy"
    /\ "APPROVE" \in Decisions
    /\ Goto(t, "routing")
    /\ todo' = [todo EXCEPT ![t] = Rail]
    /\ Log(t, {Row("policy_check", NoRail, "success"), Row("routing", NoRail, "pending")})
    /\ UNCHANGED <<ctx, candidates, plan, leg, tries, answer, fresh, late, breaker,
                   money, crashes>>

\* One turn of ComputePlan's loop over ListAdapters (a map: any order).  The
\* breaker is read here and may have moved by the time the rail is tried.
LookAt(t, r) ==
    /\ pc[t] = "routing"
    /\ r \in todo[t]
    /\ todo' = [todo EXCEPT ![t] = @ \ {r}]
    /\ candidates' = [candidates EXCEPT ![t] =
           IF Healthy(breaker[r]) /\ r \in Offers[t] THEN @ \cup {r} ELSE @]
    /\ UNCHANGED <<pc, ctx, plan, leg, tries, answer, fresh, late, breaker, money,
                   audit, crashes>>

NoCandidates(t) ==
    /\ pc[t] = "routing"
    /\ todo[t] = {} /\ candidates[t] = {}
    /\ Goto(t, "failed")
    /\ Log(t, {Row("routing", NoRail, "failure")})
    /\ UNCHANGED <<ctx, saga, tries, answer, fresh, late, breaker, money, crashes>>

MakePlan(t) ==
    /\ pc[t] = "routing"
    /\ todo[t] = {} /\ candidates[t] # {}
    /\ \E order \in Bijection(1 .. Cardinality(candidates[t]), candidates[t]) :
           /\ plan' = [plan EXCEPT ![t] = order]
           /\ Log(t, {Row("routing", order[1], "success")})
    /\ Goto(t, "enter")
    /\ UNCHANGED <<ctx, todo, candidates, leg, tries, answer, fresh, late, breaker,
                   money, crashes>>
-----------------------------------------------------------------------------
(* executeWithFallbacks and executeWithRetry.                              *)

IfFallback(t, status) ==
    IF leg[t] > 1 THEN {Row("fallback_attempt", Current(t), status)} ELSE {}

\* Bug: the end of every rail is logged as the end of the saga.
LegFailsForGood(t, rows) ==
    IF leg[t] + 1 \in DOMAIN plan[t]
    THEN /\ leg' = [leg EXCEPT ![t] = @ + 1]
         /\ Goto(t, "enter")
         /\ Log(t, rows \cup {Row("final_status", NoRail, "failure")})
    ELSE /\ Goto(t, "failed")
         /\ Log(t, rows \cup {Row("final_status", NoRail, "failure")})
         /\ UNCHANGED leg

\* executeWithRetry has given up on the current rail: the next one of the
\* chain, or the end of it.
LegFails(t, rows) ==
    IF leg[t] + 1 \in DOMAIN plan[t]
    THEN /\ leg' = [leg EXCEPT ![t] = @ + 1]
         /\ Goto(t, "enter")
         /\ Log(t, rows \cup IfFallback(t, "failure"))
    ELSE /\ Goto(t, "failed")
         /\ Log(t, rows \cup IfFallback(t, "failure")
                        \cup {Row("final_status", NoRail, "failure")})
         /\ UNCHANGED leg

\* Bug: a rail is never given up for the context's sake.
EnterLegAnyway(t) ==
    /\ pc[t] = "enter"
    /\ ctx[t] = "live"
    /\ Goto(t, "attempt")
    /\ Log(t, IfFallback(t, "pending"))
    /\ UNCHANGED <<ctx, saga, tries, answer, fresh, late, breaker, money, crashes>>

\* retry.Do looks at the context before its first attempt...
EnterLeg(t) ==
    /\ pc[t] = "enter"
    /\ IF ctx[t] = "live"
       THEN /\ Goto(t, "attempt")
            /\ Log(t, IfFallback(t, "pending"))
            /\ UNCHANGED leg
       ELSE LegFails(t, IfFallback(t, "pending"))
    /\ UNCHANGED <<ctx, todo, candidates, plan, tries, answer, fresh, late, breaker,
                   money, crashes>>

\* Bug: the wait between attempts is deaf to the context.
BackoffSleeps(t) ==
    /\ pc[t] = "backoff"
    /\ Goto(t, "attempt")
    /\ UNCHANGED <<ctx, saga, tries, answer, fresh, late, breaker, money, audit, crashes>>

\* ... and while it waits for the next one, and not in between.
BackoffEnds(t) ==
    /\ pc[t] = "backoff"
    /\ IF ctx[t] = "live"
       THEN Goto(t, "attempt") /\ UNCHANGED <<leg, audit>>
       ELSE LegFails(t, {})
    /\ UNCHANGED <<ctx, todo, candidates, plan, tries, answer, fresh, late, breaker,
                   money, crashes>>

\* Bug: one attempt too few.
GivesUpEarly(t, used) ==
    LET rows == {Row("execution_attempt", Current(t), "retry")}
    IN  IF used + 1 < Attempts[Current(t)]
        THEN Goto(t, "backoff") /\ Log(t, rows) /\ UNCHANGED leg
        ELSE LegFails(t, rows)

\* An attempt returned an error; used is the number of attempts made so far.
AttemptFails(t, used) ==
    LET rows == {Row("execution_attempt", Current(t), "retry")}
    IN  IF used < Attempts[Current(t)]
        THEN Goto(t, "backoff") /\ Log(t, rows) /\ UNCHANGED leg
        ELSE LegFails(t, rows)

CountAttempt(t) ==
    /\ tries' = [tries EXCEPT ![t][Current(t)] = @ + 1]
    /\ late' = IF ctx[t] = "done" THEN [late EXCEPT ![t] = @ + 1] ELSE late

\* adapter.Execute gets through the breaker.
BeginAttempt(t) ==
    /\ pc[t] = "attempt"
    /\ Admits(breaker[Current(t)])
    /\ breaker' = [breaker EXCEPT ![Current(t)] = Admitted(@)]
    /\ fresh' = [fresh EXCEPT ![t] = TRUE]
    /\ CountAttempt(t)
    /\ Goto(t, "inflight")
    /\ Log(t, {Row("execution_attempt", Current(t), "pending")})
    /\ UNCHANGED <<ctx, saga, answer, money, crashes>>

\* adapter.Execute is refused by the breaker: an error like any other.
RefuseAttempt(t) ==
    /\ pc[t] = "attempt"
    /\ ~ Admits(breaker[Current(t)])
    /\ CountAttempt(t)
    /\ AttemptFails(t, tries[t][Current(t)] + 1)
    /\ UNCHANGED <<ctx, todo, candidates, plan, answer, fresh, breaker, money, crashes>>

\* The rail acts on the request.  No adapter but x402 looks at the context,
\* and its proof of payment may be out when the context ends.
RailActs(t, o) ==
    /\ pc[t] = "inflight"
    /\ o \in Outcomes[t][Current(t)]
    /\ answer' = [answer EXCEPT ![t] = o]
    /\ charges' = IF o \in Charging
                  THEN [charges EXCEPT ![t][Current(t)] = @ + 1]
                  ELSE charges
    /\ Goto(t, "answered")
    /\ UNCHANGED <<ctx, saga, tries, fresh, late, breaker, provider, billing, audit,
                   crashes>>

\* Calls that are out on rail r.
OutOn(r) == {t \in Tx : pc[t] \in {"inflight", "answered"} /\ Current(t) = r}

\* Bug: results of an older generation count.
SettleAnyGeneration(t) ==
    LET r == Current(t)
        settled == AfterRequest(breaker[r], answer[t] \in Succeeds)
        old == IF settled.state # breaker[r].state THEN OutOn(r) ELSE {t}
    IN  /\ breaker' = [breaker EXCEPT ![r] = settled]
        /\ fresh' = [u \in Tx |-> fresh[u] /\ u \notin old]
        /\ answer' = [answer EXCEPT ![t] = "none"]

\* The breaker takes the result of t's call, unless it is of an older
\* generation; when it changes state, the other calls out become old.
Settle(t) ==
    LET r == Current(t)
        settled == IF fresh[t] THEN AfterRequest(breaker[r], answer[t] \in Succeeds)
                               ELSE breaker[r]
        old == IF settled.state # breaker[r].state THEN OutOn(r) ELSE {t}
    IN  /\ breaker' = [breaker EXCEPT ![r] = settled]
        /\ fresh' = [u \in Tx |-> fresh[u] /\ u \notin old]
        /\ answer' = [answer EXCEPT ![t] = "none"]

\* Bug: the result names the rail the plan preferred.
ReturnPlannedRail(t) ==
    /\ pc[t] = "answered"
    /\ answer[t] \in Succeeds
    /\ Settle(t)
    /\ provider' = [provider EXCEPT ![t] = plan[t][1]]
    /\ billing' = [billing EXCEPT ![t] = "sent"]
    /\ Goto(t, "done")
    /\ UNCHANGED <<ctx, saga, tries, late, charges, audit, crashes>>

\* Success: the caller gets the rail's result and the metering goroutine
\* starts.  The rail is no longer known by its id: what goes into the rows
\* (and into the event and the response) is the ProviderID of the result.
ReturnResult(t) ==
    /\ pc[t] = "answered"
    /\ answer[t] \in Succeeds
    /\ Settle(t)
    /\ provider' = [provider EXCEPT ![t] = Current(t)]
    /\ billing' = [billing EXCEPT ![t] = "sent"]
    /\ Goto(t, "done")
    /\ LET id == ProviderID[Current(t)][answer[t]]
       IN  Log(t, {Row("execution_attempt", Current(t), "success"),
                   Row("metering_update", id, "pending"),
                   Row("metering_update", id, "success"),
                   Row("final_status", id, "success")} \cup IfFallback(t, "success"))
    /\ UNCHANGED <<ctx, saga, tries, late, charges, crashes>>

\* Bug: a payment reported after the deadline is taken for a failed attempt.
ReturnErrorIfLate(t) ==
    /\ pc[t] = "answered"
    /\ answer[t] \in {"declined", "unconfirmed"} \/ ctx[t] = "done"
    /\ Settle(t)
    /\ AttemptFails(t, tries[t][Current(t)])
    /\ UNCHANGED <<ctx, todo, candidates, plan, tries, late, money, crashes>>

\* Error: another attempt, another rail, or the end.
ReturnError(t) ==
    /\ pc[t] = "answered"
    /\ answer[t] \in {"declined", "unconfirmed"}
    /\ Settle(t)
    /\ AttemptFails(t, tries[t][Current(t)])
    /\ UNCHANGED <<ctx, todo, candidates, plan, tries, late, money, crashes>>

\* A panic passes through the breaker, which counts a failure, and through
\* the saga, which does nothing; net/http ends the handler.
ReturnPanic(t) ==
    /\ pc[t] = "answered"
    /\ answer[t] = "panics"
    /\ Settle(t)
    /\ Goto(t, "abandoned")
    /\ UNCHANGED <<ctx, saga, tries, late, money, audit, crashes>>
-----------------------------------------------------------------------------
(* What goes on around the sagas.                                          *)

\* GlobalTimeout is over, or the client has closed its connection.
ContextEnds(t) ==
    /\ t \in Impatient
    /\ Running(t)
    /\ ctx[t] = "live"
    /\ ctx' = [ctx EXCEPT ![t] = "done"]
    /\ UNCHANGED <<pc, saga, tries, answer, fresh, late, breaker, money, audit, crashes>>

\* The fire-and-forget goroutine; its error is only logged.
PublishEvent(t, outcome) ==
    /\ billing[t] = "sent"
    /\ billing' = [billing EXCEPT ![t] = outcome]
    /\ UNCHANGED <<pc, ctx, saga, tries, answer, fresh, late, breaker, charges, provider,
                   audit, crashes>>

\* A closed breaker's Interval: its counts start again.
IntervalElapses(r) ==
    /\ breaker[r].state = "closed"
    /\ breaker[r].req > 0
    /\ breaker' = [breaker EXCEPT ![r] = NewGeneration("closed")]
    /\ fresh' = [t \in Tx |-> fresh[t] /\ t \notin OutOn(r)]
    /\ UNCHANGED <<pc, ctx, saga, tries, answer, late, money, audit, crashes>>

\* Bug: a state the other operations do not know.
TimeoutMisnames(r) ==
    /\ breaker[r].state = "open"
    /\ breaker' = [breaker EXCEPT ![r] = NewGeneration("half-open")]
    /\ UNCHANGED <<pc, ctx, saga, tries, answer, fresh, late, money, audit, crashes>>

\* An open breaker's Timeout: it lets probes through.
TimeoutElapses(r) ==
    /\ breaker[r].state = "open"
    /\ breaker' = [breaker EXCEPT ![r] = NewGeneration("halfopen")]
    /\ UNCHANGED <<pc, ctx, saga, tries, answer, fresh, late, money, audit, crashes>>

\* The process dies.  Sagas, breakers and unsent events are only in memory;
\* nothing resumes a saga.
Crash ==
    /\ crashes < MaxCrashes
    /\ crashes' = crashes + 1
    /\ pc' = [t \in Tx |-> IF Running(t) THEN "abandoned" ELSE pc[t]]
    /\ billing' = [t \in Tx |-> IF billing[t] = "sent" THEN "dropped" ELSE billing[t]]
    /\ breaker' = [r \in Rail |-> NewGeneration("closed")]
    /\ fresh' = [t \in Tx |-> FALSE]
    /\ answer' = [t \in Tx |-> "none"]
    /\ UNCHANGED <<ctx, saga, tries, late, charges, provider, audit>>

\* What the goroutine of t does next.
Step(t) ==
    \/ Start(t) \/ PolicyRejects(t) \/ PolicyApproves(t)
    \/ \E r \in Rail : LookAt(t, r)
    \/ NoCandidates(t) \/ MakePlan(t)
    \/ EnterLeg(t) \/ BackoffEnds(t) \/ BeginAttempt(t) \/ RefuseAttempt(t)
    \/ \E o \in Outcome : RailActs(t, o)
    \/ ReturnResult(t) \/ ReturnError(t) \/ ReturnPanic(t)

Next ==
    \/ \E t \in Tx : Step(t) \/ ContextEnds(t)
    \/ \E t \in Tx, outcome \in {"published", "dropped"} : PublishEvent(t, outcome)
    \/ \E r \in Rail : IntervalElapses(r) \/ TimeoutElapses(r)
    \/ Crash

\* Goroutines run, the policy function returns, rails answer or their client
\* times out.
Fairness == \A t \in Tx : WF_vars(pc[t] # "idle" /\ Step(t))

Spec == Init /\ [][Next]_vars
FairSpec == Spec /\ Fairness
-----------------------------------------------------------------------------
(* Properties.                                                             *)

\* Rails that may take t's money and still return an error.
Unsure(t) == {r \in Rail : "unconfirmed" \in Outcomes[t][r]}
Certain(t) == Rail \ Unsure(t)

\* Retries, fallbacks and late answers never charge a rail that reports what
\* it did twice, nor two of them, and when one is charged the saga is about
\* to return, or has returned, that rail (or the process died).
ChargedOnce ==
    \A t \in Tx : \A r \in Certain(t) : charges[t][r] > 0 =>
        /\ charges[t][r] = 1
        /\ \A q \in Certain(t) \ {r} : charges[t][q] = 0
        /\ \/ pc[t] = "answered" /\ Current(t) = r /\ answer[t] = "paid"
           \/ pc[t] = "done" /\ provider[t] = r
           \/ pc[t] = "abandoned"

\* No rail of the plan is skipped or given up early: while the context
\* lives, the rails before the current one have used all their attempts,
\* and a saga that failed with a plan has used all of them.
FallbackInOrder ==
    \A t \in Tx : \A i \in DOMAIN plan[t] :
        LET used == tries[t][plan[t][i]]
        IN  /\ i > leg[t] => used = 0
            /\ ctx[t] = "live" /\ (i < leg[t] \/ pc[t] = "failed")
                   => used = Attempts[plan[t][i]]

\* The 30 second budget: once the context is done at most one more call is
\* made to any rail for the transaction, by the attempt already under way.
OneLateCall == \A t \in Tx : late[t] <= 1

\* The breakers' counts agree with the calls that are out, across sagas.
BreakersAddUp ==
    \A r \in Rail :
        LET out == Cardinality({t \in OutOn(r) : fresh[t]})
        IN  /\ breaker[r].state = "open" => out = 0
            /\ breaker[r].state = "halfopen" =>
                   breaker[r].req = breaker[r].won + out /\ breaker[r].req <= Probes
            /\ breaker[r].state = "closed" => breaker[r].fail + out <= breaker[r].req

\* Ids that the result of t may carry: one that its rail gives to payments
\* only stands for a payment.
ResultIds(t) ==
    {ProviderID[provider[t]][o] :
        o \in {"unpaid"} \cup IF charges[t][provider[t]] > 0 THEN {"paid"} ELSE {}}

\* Rows may be missing from the audit trail, but what is there is so: an end
\* in success is one whose provider's id is that of the rail returned, paid if
\* the id is a payment's; one in failure is a failed saga; a successful attempt
\* was made on the rail that is returned, and any attempt was really made.
AuditTruthful ==
    \A t \in Tx : \A row \in audit[t] :
        /\ row.step = "final_status" /\ row.status = "success" =>
               pc[t] = "done" /\ row.adapter \in ResultIds(t)
        /\ row.step = "final_status" /\ row.status = "failure" => pc[t] = "failed"
        /\ row.step = "execution_attempt" /\ row.status = "success" =>
               pc[t] = "done" /\ row.adapter = provider[t]
        /\ row.step = "execution_attempt" => row.adapter \in Rail /\ tries[t][row.adapter] > 0

\* Every transaction that starts ends: retries, fallbacks and backoff do not
\* go on for ever, whatever the breakers do.
SagasEnd == \A t \in Tx : pc[t] # "idle" ~> pc[t] \in Over

\* Every transaction keeps the promise of PaymentContract.
Status(t) ==
    CASE pc[t] = "idle" -> "new"
      [] pc[t] = "done" -> "executed"
      [] pc[t] \in {"failed", "abandoned"} -> pc[t]
      [] OTHER -> "open"

Contract == INSTANCE PaymentContract WITH
    status <- [t \in Tx |-> Status(t)],
    UnsureRails <- [t \in Tx |-> Unsure(t)],
    UnpaidRails <- [t \in Tx |-> {r \in Rail : "unpaid" \in Outcomes[t][r]}]

KeepsContract == Contract!CSpec
=============================================================================
