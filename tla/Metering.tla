------------------------------ MODULE Metering ------------------------------
(***************************************************************************)
(* The metering path of an executed transaction: the asynchronous Kafka    *)
(* writer of the orchestration service, the topic, and the metering        *)
(* service that adds each event to Redis' counters and to the budget and   *)
(* ledger tables of Postgres.                                              *)
(*                                                                         *)
(* Counters and tables are sums over events; the model keeps, for every    *)
(* event, how often it went into each of them, which the sums cannot tell. *)
(***************************************************************************)
EXTENDS Naturals, Sequences, FiniteSets

CONSTANTS
    Event,       \* financial events, one per executed transaction
    NoEvent,
    Rejected,    \* events the tables reject: the transaction has no row, the
                 \* agent id is no UUID, the currency has four letters
    MaxAttempts, \* writes of one event before the writer drops it (5)
    MaxFaults    \* bound: faults in a behaviour

ASSUME MeteringAssumption ==
    /\ NoEvent \notin Event /\ IsFiniteSet(Event)
    /\ Rejected \subseteq Event
    /\ MaxAttempts \in Nat \ {0} /\ MaxFaults \in Nat

VARIABLES
    writer,      \* writer[e]: "none", "buffered", "written" or "dropped"
    attempts,    \* attempts[e]: writes made so far
    topic,       \* financial-events, one partition
    committed,   \* offset committed by metering-service-group
    stage,       \* "reading", "redis", "postgres" or "down"
    current,     \* event in hand
    cancelled,   \* SIGTERM has cancelled the consumer's context
    total,       \* total[e]: times e is in budget:<agent>:<currency>
    daily,       \* daily[e]: times e is in a daily counter, each time that of
                 \* the day it is processed on (the event's own is not read)
    booked,      \* booked[e]: times e is in budgets and ledger_entries
    faults,      \* faults so far
    sigterms     \* those of them that were a SIGTERM

producer == <<writer, attempts>>
consumer == <<stage, current, cancelled>>
books == <<total, daily, booked>>
trouble == <<faults, sigterms>>
vars == <<producer, topic, committed, consumer, books, trouble>>

TypeOK ==
    /\ writer \in [Event -> {"none", "buffered", "written", "dropped"}]
    /\ attempts \in [Event -> 0 .. MaxAttempts]
    /\ topic \in Seq(Event)
    /\ committed \in 0 .. Len(topic)
    /\ stage \in {"reading", "redis", "postgres", "down"}
    /\ current \in Event \cup {NoEvent}
    /\ (current # NoEvent) <=> stage \in {"redis", "postgres"}
    /\ cancelled \in BOOLEAN
    /\ total \in [Event -> Nat] /\ daily \in [Event -> Nat] /\ booked \in [Event -> Nat]
    /\ faults \in 0 .. MaxFaults /\ sigterms \in 0 .. faults

Init ==
    /\ writer = [e \in Event |-> "none"]
    /\ attempts = [e \in Event |-> 0]
    /\ topic = <<>>
    /\ committed = 0
    /\ stage = "reading"
    /\ current = NoEvent
    /\ cancelled = FALSE
    /\ total = [e \in Event |-> 0]
    /\ daily = [e \in Event |-> 0]
    /\ booked = [e \in Event |-> 0]
    /\ faults = 0 /\ sigterms = 0

Fault == faults < MaxFaults /\ faults' = faults + 1 /\ sigterms' = sigterms
-----------------------------------------------------------------------------
(* EventPublisher.  Async: WriteMessages puts the event in a buffer and    *)
(* returns nil.                                                            *)

PublishFinancialEvent(e) ==
    /\ writer[e] = "none"
    /\ writer' = [writer EXCEPT ![e] = "buffered"]
    /\ UNCHANGED <<attempts, topic, committed, consumer, books, trouble>>

\* WriteMessages looks the topic's partitions up first; its error is logged.
PublishFails(e) ==
    /\ writer[e] = "none"
    /\ Fault
    /\ writer' = [writer EXCEPT ![e] = "dropped"]
    /\ UNCHANGED <<attempts, topic, committed, consumer, books>>

\* The writer's batch reaches all replicas and is acknowledged.
Write(e) ==
    /\ writer[e] = "buffered"
    /\ writer' = [writer EXCEPT ![e] = "written"]
    /\ attempts' = [attempts EXCEPT ![e] = @ + 1]
    /\ topic' = Append(topic, e)
    /\ UNCHANGED <<committed, consumer, books, trouble>>

\* A write fails, or only its acknowledgement does; after MaxAttempts of them,
\* or an error that is not temporary, the event is dropped, and nobody is told.
WriteFails(e, stored, temporary) ==
    /\ writer[e] = "buffered"
    /\ Fault
    /\ attempts' = [attempts EXCEPT ![e] = @ + 1]
    /\ writer' = IF attempts'[e] = MaxAttempts \/ ~ temporary
                 THEN [writer EXCEPT ![e] = "dropped"] ELSE writer
    /\ topic' = IF stored THEN Append(topic, e) ELSE topic
    /\ UNCHANGED <<committed, consumer, books>>

OrchestrationCrashes ==
    /\ \E e \in Event : writer[e] = "buffered"
    /\ Fault
    /\ writer' = [e \in Event |-> IF writer[e] = "buffered" THEN "dropped" ELSE writer[e]]
    /\ UNCHANGED <<attempts, topic, committed, consumer, books>>
-----------------------------------------------------------------------------
(* MeteringConsumer.Start.                                                 *)

\* Bug: the offset committed is that of the whole batch fetched.
ReadBatch ==
    /\ stage = "reading" /\ ~ cancelled
    /\ committed < Len(topic)
    /\ current' = topic[committed + 1]
    /\ committed' = Len(topic)
    /\ stage' = "redis"
    /\ UNCHANGED <<producer, topic, cancelled, books, trouble>>

\* ReadMessage commits the offset before it returns the message.  Once the
\* context is cancelled it returns one only if the goroutine is held up for so
\* long that the commit's answer is there before it looks at the context.
ReadMessage ==
    /\ stage = "reading"
    /\ IF cancelled THEN Fault ELSE UNCHANGED trouble
    /\ committed < Len(topic)
    /\ current' = topic[committed + 1]
    /\ committed' = committed + 1
    /\ stage' = "redis"
    /\ UNCHANGED <<producer, topic, cancelled, books>>

\* Its commit fails (whether or not the offset was stored): no message is
\* returned, the loop breaks and main returns.
CommitFails(stored) ==
    /\ stage = "reading" /\ ~ cancelled
    /\ committed < Len(topic)
    /\ Fault
    /\ committed' = IF stored THEN committed + 1 ELSE committed
    /\ stage' = "down"
    /\ UNCHANGED <<producer, topic, current, cancelled, books>>

Add(counter, e) == [counter EXCEPT ![e] = @ + 1]

UpdateRealtimeBudget ==
    /\ stage = "redis" /\ ~ cancelled
    /\ total' = Add(total, current)
    /\ daily' = Add(daily, current)
    /\ stage' = "postgres"
    /\ UNCHANGED <<producer, topic, committed, current, cancelled, booked, trouble>>

\* The pipeline is no MULTI: its increments fail one by one.  An error is
\* logged and the loop goes on.
RedisFails(done) ==
    /\ stage = "redis"
    /\ IF cancelled THEN done = {} /\ UNCHANGED trouble ELSE Fault
    /\ total' = IF "total" \in done THEN Add(total, current) ELSE total
    /\ daily' = IF "daily" \in done THEN Add(daily, current) ELSE daily
    /\ stage' = "postgres"
    /\ UNCHANGED <<producer, topic, committed, current, cancelled, booked>>

\* A reply is lost: go-redis sends the whole pipeline again, increments that
\* were done included.
RedisRetries(done) ==
    /\ stage = "redis" /\ ~ cancelled
    /\ Fault
    /\ total' = IF "total" \in done THEN Add(total, current) ELSE total
    /\ daily' = IF "daily" \in done THEN Add(daily, current) ELSE daily
    /\ UNCHANGED <<producer, topic, committed, consumer, booked>>

NextMessage == stage' = "reading" /\ current' = NoEvent

\* The budget and both ledger entries, in one database transaction.
UpdateBudgetAndLedger ==
    /\ stage = "postgres" /\ ~ cancelled
    /\ current \notin Rejected
    /\ booked' = Add(booked, current)
    /\ NextMessage
    /\ UNCHANGED <<producer, topic, committed, cancelled, total, daily, trouble>>

\* Bug: what the tables reject is tried again.
PostgresRejectsForEver ==
    /\ stage = "postgres"
    /\ current \in Rejected
    /\ UNCHANGED vars

\* A constraint: rolled back, logged, forgotten.
PostgresRejects ==
    /\ stage = "postgres"
    /\ current \in Rejected
    /\ NextMessage
    /\ UNCHANGED <<producer, topic, committed, cancelled, books, trouble>>

\* Bugs: the loop goes on with the event still in hand; an event that the
\* database did not take is processed again.
PostgresFailsAndSkips(stored) ==
    /\ stage = "postgres"
    /\ IF cancelled THEN ~ stored /\ UNCHANGED trouble ELSE Fault
    /\ booked' = IF stored /\ current \notin Rejected THEN Add(booked, current) ELSE booked
    /\ stage' = "reading"
    /\ UNCHANGED <<producer, topic, committed, current, cancelled, total, daily>>

PostgresFailsAndRetries(stored) ==
    /\ stage = "postgres"
    /\ IF cancelled THEN ~ stored /\ UNCHANGED trouble ELSE Fault
    /\ booked' = IF stored /\ current \notin Rejected THEN Add(booked, current) ELSE booked
    /\ stage' = "redis" /\ UNCHANGED current
    /\ UNCHANGED <<producer, topic, committed, cancelled, total, daily>>

\* The database is away, or the answer to COMMIT is lost: logged as well.
PostgresFails(stored) ==
    /\ stage = "postgres"
    /\ IF cancelled THEN ~ stored /\ UNCHANGED trouble ELSE Fault
    /\ booked' = IF stored /\ current \notin Rejected THEN Add(booked, current) ELSE booked
    /\ NextMessage
    /\ UNCHANGED <<producer, topic, committed, cancelled, total, daily>>

\* SIGTERM: what is in hand goes through the loop with a cancelled context.
Shutdown ==
    /\ stage # "down" /\ ~ cancelled
    /\ faults < MaxFaults /\ faults' = faults + 1 /\ sigterms' = sigterms + 1
    /\ cancelled' = TRUE
    /\ UNCHANGED <<producer, topic, committed, stage, current, books>>

\* ReadMessage returns the context's error, which ends the loop.  It selects
\* among what is ready, so it may have taken a message first and have sent the
\* commit of its offset.
LoopBreaks(taken) ==
    /\ stage = "reading" /\ cancelled
    /\ taken => committed < Len(topic)
    /\ committed' = IF taken THEN committed + 1 ELSE committed
    /\ stage' = "down"
    /\ UNCHANGED <<producer, topic, current, cancelled, books, trouble>>

ConsumerCrashes ==
    /\ stage # "down"
    /\ Fault
    /\ stage' = "down"
    /\ current' = NoEvent
    /\ UNCHANGED <<producer, topic, committed, cancelled, books>>

\* The container is started again and goes on at the committed offset.
Restart ==
    /\ stage = "down"
    /\ stage' = "reading"
    /\ cancelled' = FALSE
    /\ UNCHANGED <<producer, topic, committed, current, books, trouble>>

Consume ==
    \/ ReadMessage \/ UpdateRealtimeBudget \/ UpdateBudgetAndLedger
    \/ PostgresRejects \/ Restart
    \/ \E taken \in BOOLEAN : LoopBreaks(taken)
    \/ cancelled /\ RedisFails({})
    \/ cancelled /\ PostgresFails(FALSE)

Next ==
    \/ \E e \in Event :
           \/ PublishFinancialEvent(e) \/ PublishFails(e) \/ Write(e)
           \/ \E stored, temporary \in BOOLEAN : WriteFails(e, stored, temporary)
    \/ OrchestrationCrashes
    \/ Consume
    \/ \E stored \in BOOLEAN : CommitFails(stored) \/ PostgresFails(stored)
    \/ \E done \in SUBSET {"total", "daily"} : RedisFails(done) \/ RedisRetries(done)
    \/ Shutdown \/ ConsumerCrashes

Spec == Init /\ [][Next]_vars

\* The writer's goroutine and the consumer's loop run; nothing in the
\* repository restarts a container that has stopped.
FairSpec == Spec /\ WF_vars(Consume /\ stage # "down") /\ \A e \in Event : WF_vars(Write(e))
-----------------------------------------------------------------------------
\* Copies of e that the consumer has taken from the topic.
Consumed(e) == Cardinality({i \in 1 .. committed : topic[i] = e})
InHand(e, stages) == IF current = e /\ stage \in stages THEN 1 ELSE 0

\* A copy in the topic is booked at most once, through crashes, restarts and
\* errors: only copies the writer itself made are booked twice.
BookedAtMostOnce ==
    \A e \in Event : booked[e] + InHand(e, {"redis", "postgres"}) <= Consumed(e)

Gap(m, n) == IF m > n THEN m - n ELSE n - m

\* Copies of e that should be in a store filled after the given stages.
Due(e, stages) == Consumed(e) - InHand(e, stages)

\* The events among those in scope that a counter is off by, each as often as it is.
Drift(counter, stages, scope) ==
    UNION {{e} \X (1 .. Gap(Due(e, stages), counter[e])) : e \in scope}

\* Each of the counters (the daily ones summed over the days) and the tables
\* is off by at most one event for a fault, by two for a SIGTERM: the event in
\* hand and the one that the last ReadMessage takes.  What the tables reject is
\* missing from them only: without faults Redis and Postgres agree with the
\* topic.
FaultsBoundDrift ==
    /\ Cardinality(Drift(total, {"redis"}, Event)) <= faults + sigterms
    /\ Cardinality(Drift(daily, {"redis"}, Event)) <= faults + sigterms
    /\ Cardinality(Drift(booked, {"redis", "postgres"}, Event \ Rejected)) <= faults + sigterms

\* While it runs, the consumer catches up with the topic, whatever the stores
\* refuse: no event holds up the next ones.
ConsumerCatchesUp ==
    \A n \in 1 .. Cardinality(Event) :
        Len(topic) >= n ~> committed >= n \/ stage = "down"
=============================================================================
