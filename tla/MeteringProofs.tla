--------------------------- MODULE MeteringProofs ---------------------------
(***************************************************************************)
(* Theorems about Metering, for any events, attempts and faults.           *)
(***************************************************************************)
EXTENDS Metering, FiniteSetTheorems, TLAPS

\* A buffered event has an attempt left.
WriterInv ==
    \A e \in Event : /\ writer[e] = "none" => attempts[e] = 0
                     /\ writer[e] = "buffered" => attempts[e] < MaxAttempts

\* A SIGTERM that has cancelled the context has been counted.
TypeInv == TypeOK /\ WriterInv /\ (cancelled => sigterms # 0)

LEMMA InitType == Init => TypeInv
<1> SUFFICES ASSUME Init PROVE TypeInv
  OBVIOUS
<1> USE DEF Init
<1>1. topic \in Seq(Event) /\ committed \in 0 .. Len(topic)
  OBVIOUS
<1>2. /\ writer \in [Event -> {"none", "buffered", "written", "dropped"}]
      /\ attempts \in [Event -> 0 .. MaxAttempts]
      /\ faults \in 0 .. MaxFaults /\ sigterms \in 0 .. faults /\ ~ cancelled
  BY MeteringAssumption
<1>3. total \in [Event -> Nat] /\ daily \in [Event -> Nat] /\ booked \in [Event -> Nat]
  OBVIOUS
<1>4. WriterInv
  BY MeteringAssumption DEF WriterInv
<1> QED
  BY <1>1, <1>2, <1>3, <1>4 DEF TypeInv, TypeOK

\* Adding one to a counter leaves it one.
LEMMA AddCounter ==
    ASSUME NEW counter \in [Event -> Nat], NEW e \in Event
    PROVE  /\ Add(counter, e) \in [Event -> Nat]
           /\ Add(counter, e)[e] = counter[e] + 1
           /\ \A d \in Event \ {e} : Add(counter, e)[d] = counter[d]
BY DEF Add

LEMMA TypeStep == TypeInv /\ [Next]_vars => TypeInv'
<1> SUFFICES ASSUME TypeInv, [Next]_vars PROVE TypeInv'
  OBVIOUS
<1> USE MeteringAssumption DEF TypeInv, TypeOK
<1>w. ASSUME UNCHANGED producer PROVE WriterInv'
  BY <1>w DEF WriterInv, producer
<1> DEFINE Counted == faults' \in 0 .. MaxFaults /\ sigterms' \in 0 .. faults'
                      /\ sigterms' = sigterms
<1>f. Fault \/ UNCHANGED trouble => Counted
  BY DEF Fault, trouble
<1>a. ASSUME NEW e \in Event
      PROVE  /\ Append(topic, e) \in Seq(Event)
             /\ committed \in 0 .. Len(Append(topic, e))
  OBVIOUS
<1>c. stage \in {"redis", "postgres"} => current \in Event
  OBVIOUS
<1>1. ASSUME NEW e \in Event, PublishFinancialEvent(e) PROVE TypeInv'
  BY <1>1, <1>f DEF PublishFinancialEvent, consumer, books, WriterInv
<1>p. ASSUME NEW e \in Event, PublishFails(e) PROVE TypeInv'
  BY <1>p, <1>f DEF PublishFails, consumer, books, WriterInv
<1>2. ASSUME NEW e \in Event, Write(e) PROVE TypeInv'
  <2>1. attempts[e] + 1 \in 0 .. MaxAttempts
    BY <1>2 DEF Write, WriterInv
  <2> QED
    BY <1>2, <1>a, <1>f, <2>1 DEF Write, consumer, books, WriterInv
<1>3. ASSUME NEW e \in Event, NEW stored \in BOOLEAN, NEW temporary \in BOOLEAN,
             WriteFails(e, stored, temporary)
      PROVE  TypeInv'
  <2>1. attempts[e] + 1 \in 0 .. MaxAttempts
    BY <1>3 DEF WriteFails, WriterInv
  <2>2. attempts' = [attempts EXCEPT ![e] = @ + 1] /\ attempts'[e] = attempts[e] + 1
    BY <1>3 DEF WriteFails
  <2>3. topic' \in Seq(Event) /\ committed' \in 0 .. Len(topic')
    BY <1>3, <1>a DEF WriteFails
  <2>4. WriterInv'
    BY <1>3, <2>1, <2>2 DEF WriteFails, WriterInv
  <2>5. writer' \in [Event -> {"none", "buffered", "written", "dropped"}]
    BY <1>3 DEF WriteFails
  <2>6. UNCHANGED <<stage, current, cancelled, total, daily, booked>>
    BY <1>3 DEF WriteFails, consumer, books
  <2>7. Counted
    BY <1>3, <1>f DEF WriteFails
  <2> QED
    BY <2>1, <2>2, <2>3, <2>4, <2>5, <2>6, <2>7
<1>4. CASE OrchestrationCrashes
  BY <1>4, <1>f DEF OrchestrationCrashes, consumer, books, WriterInv
<1>5. CASE ReadMessage
  <2>1. /\ stage = "reading" /\ committed < Len(topic) /\ current' = topic[committed + 1]
        /\ committed' = committed + 1 /\ stage' = "redis"
        /\ UNCHANGED <<producer, topic, cancelled, books>> /\ Counted
    BY <1>5, <1>f DEF ReadMessage
  <2>2. committed + 1 \in 1 .. Len(topic) /\ committed + 1 \in 0 .. Len(topic)
    BY <2>1
  <2>3. topic[committed + 1] \in Event
    BY <2>2
  <2>4. current' \in Event /\ current' # NoEvent
    BY <2>1, <2>3
  <2> QED
    BY <1>w, <2>1, <2>2, <2>4 DEF producer, books
<1>6. ASSUME NEW stored \in BOOLEAN, CommitFails(stored) PROVE TypeInv'
  BY <1>6, <1>w, <1>f DEF CommitFails, producer, books
<1>7. CASE UpdateRealtimeBudget
  BY <1>7, <1>w, <1>c, <1>f, AddCounter DEF UpdateRealtimeBudget, producer
<1>8. ASSUME NEW done \in SUBSET {"total", "daily"}, RedisFails(done) \/ RedisRetries(done)
      PROVE  TypeInv'
  <2>1. stage = "redis" /\ current \in Event
    BY <1>8, <1>c DEF RedisFails, RedisRetries
  <2>2. total' \in [Event -> Nat] /\ daily' \in [Event -> Nat]
    <3>1. Add(total, current) \in [Event -> Nat] /\ Add(daily, current) \in [Event -> Nat]
      BY <2>1, AddCounter
    <3>2. /\ total' = total \/ total' = Add(total, current)
          /\ daily' = daily \/ daily' = Add(daily, current)
      BY <1>8 DEF RedisFails, RedisRetries
    <3> QED
      BY <3>1, <3>2
  <2>3. Counted
    BY <1>8, <1>f DEF RedisFails, RedisRetries
  <2>4. UNCHANGED <<producer, topic, committed, current, cancelled, booked>>
        /\ stage' \in {"redis", "postgres"}
    BY <1>8, <2>1 DEF RedisFails, RedisRetries, consumer
  <2> QED
    BY <1>w, <2>1, <2>2, <2>3, <2>4 DEF producer
<1>9. CASE UpdateBudgetAndLedger \/ PostgresRejects
  <2>1. stage = "postgres" /\ current \in Event
    BY <1>9, <1>c DEF UpdateBudgetAndLedger, PostgresRejects
  <2>2. /\ UNCHANGED <<producer, topic, committed, cancelled, total, daily>> /\ Counted
        /\ stage' = "reading" /\ current' = NoEvent
        /\ booked' = booked \/ booked' = Add(booked, current)
    BY <1>9, <1>f DEF UpdateBudgetAndLedger, PostgresRejects, NextMessage, books
  <2>3. booked' \in [Event -> Nat]
    <3>1. Add(booked, current) \in [Event -> Nat]
      BY <2>1, AddCounter
    <3> QED
      BY <2>2, <3>1
  <2> QED
    BY <1>w, <2>2, <2>3 DEF producer
<1>10. ASSUME NEW stored \in BOOLEAN, PostgresFails(stored) PROVE TypeInv'
  <2>1. current \in Event
    BY <1>10, <1>c DEF PostgresFails
  <2>2. booked' \in [Event -> Nat]
    <3>1. Add(booked, current) \in [Event -> Nat]
      BY <2>1, AddCounter
    <3>2. booked' = booked \/ booked' = Add(booked, current)
      BY <1>10 DEF PostgresFails
    <3> QED
      BY <3>1, <3>2
  <2>3. Counted
    BY <1>10, <1>f DEF PostgresFails
  <2>4. UNCHANGED <<producer, topic, committed, cancelled, total, daily>>
        /\ stage' = "reading" /\ current' = NoEvent
    BY <1>10 DEF PostgresFails, NextMessage
  <2> QED
    BY <1>w, <2>2, <2>3, <2>4 DEF producer
<1>14. CASE Shutdown
  <2>1. /\ faults' = faults + 1 /\ sigterms' = sigterms + 1 /\ faults < MaxFaults
        /\ UNCHANGED <<producer, topic, committed, stage, current, books>> /\ cancelled' = TRUE
    BY <1>14 DEF Shutdown
  <2>2. faults' \in 0 .. MaxFaults /\ sigterms' \in 0 .. faults' /\ sigterms' # 0
    BY <2>1
  <2> QED
    BY <1>w, <2>1, <2>2 DEF producer, books
<1>11. CASE ConsumerCrashes
  BY <1>11, <1>w, <1>f DEF ConsumerCrashes, producer, books
<1>15. CASE Restart
  BY <1>15, <1>w, <1>f DEF Restart, producer, books
<1>13. ASSUME NEW taken \in BOOLEAN, LoopBreaks(taken) PROVE TypeInv'
  <2>1. committed' \in 0 .. Len(topic)
    BY <1>13 DEF LoopBreaks
  <2>2. /\ UNCHANGED <<producer, topic, current, cancelled, books>> /\ Counted
        /\ stage = "reading" /\ stage' = "down"
    BY <1>13, <1>f DEF LoopBreaks
  <2> QED
    BY <1>w, <2>1, <2>2 DEF producer, books
<1>12. CASE UNCHANGED vars
  BY <1>12, <1>w, <1>f DEF vars, producer, consumer, books
<1>16. \/ \E e \in Event :
              \/ PublishFinancialEvent(e) \/ PublishFails(e) \/ Write(e)
              \/ \E stored, temporary \in BOOLEAN : WriteFails(e, stored, temporary)
       \/ OrchestrationCrashes \/ ReadMessage \/ UpdateRealtimeBudget
       \/ UpdateBudgetAndLedger \/ PostgresRejects \/ Restart
       \/ \E b \in BOOLEAN : LoopBreaks(b) \/ CommitFails(b) \/ PostgresFails(b)
       \/ \E done \in SUBSET {"total", "daily"} : RedisFails(done) \/ RedisRetries(done)
       \/ Shutdown \/ ConsumerCrashes \/ UNCHANGED vars
  BY DEF Next, Consume
<1> HIDE DEF TypeInv
<1> QED
  BY <1>1, <1>p, <1>13, <1>14, <1>15, <1>2, <1>3, <1>4, <1>5, <1>6, <1>7, <1>8, <1>9,
     <1>10, <1>11, <1>12, <1>16

\* Places of e among the first n messages of s.
Taken(s, n, e) == {i \in 1 .. n : s[i] = e}

LEMMA TakenFinite ==
    ASSUME NEW s, NEW n \in Nat, NEW e
    PROVE  IsFiniteSet(Taken(s, n, e)) /\ Cardinality(Taken(s, n, e)) \in Nat
<1>1. IsFiniteSet(1 .. n)
  BY FS_Interval
<1>2. Taken(s, n, e) \in SUBSET (1 .. n)
  BY DEF Taken
<1> QED
  BY <1>1, <1>2, FS_Subset, FS_CardinalityType

\* What the consumer has taken grows by what it takes.
LEMMA TakenNext ==
    ASSUME NEW s, NEW n \in Nat, NEW e
    PROVE  Cardinality(Taken(s, n + 1, e))
               = Cardinality(Taken(s, n, e)) + IF s[n + 1] = e THEN 1 ELSE 0
<1>1. Taken(s, n + 1, e) = IF s[n + 1] = e THEN Taken(s, n, e) \cup {n + 1} ELSE Taken(s, n, e)
  BY DEF Taken
<1>2. n + 1 \notin Taken(s, n, e)
  BY DEF Taken
<1>3. IsFiniteSet(Taken(s, n, e)) /\ Cardinality(Taken(s, n, e)) \in Nat
  BY TakenFinite
<1>4. Cardinality(Taken(s, n, e) \cup {n + 1}) = Cardinality(Taken(s, n, e)) + 1
  BY <1>2, <1>3, FS_AddElement
<1> QED
  BY <1>1, <1>3, <1>4

LEMMA ConsumedTaken == \A e : Consumed(e) = Cardinality(Taken(topic, committed, e))
BY DEF Consumed, Taken

LEMMA BookedInit == Init => BookedAtMostOnce
<1> SUFFICES ASSUME Init, NEW e \in Event
             PROVE  booked[e] + InHand(e, {"redis", "postgres"}) <= Consumed(e)
  BY DEF BookedAtMostOnce
<1>1. Consumed(e) \in Nat
  BY ConsumedTaken, TakenFinite DEF Init
<1>2. booked[e] = 0 /\ InHand(e, {"redis", "postgres"}) = 0
  BY DEF Init, InHand
<1> QED
  BY <1>1, <1>2

LEMMA BookedStep == TypeInv /\ BookedAtMostOnce /\ [Next]_vars => BookedAtMostOnce'
<1> SUFFICES ASSUME TypeInv, BookedAtMostOnce, [Next]_vars, NEW e \in Event
             PROVE  booked'[e] + InHand(e, {"redis", "postgres"})' <= Consumed(e)'
  BY DEF BookedAtMostOnce
<1>0. /\ committed \in Nat /\ committed <= Len(topic) /\ topic \in Seq(Event)
      /\ booked \in [Event -> Nat]
      /\ stage \in {"redis", "postgres"} => current \in Event
  BY MeteringAssumption DEF TypeInv, TypeOK
<1> DEFINE h == InHand(e, {"redis", "postgres"})
           h2 == InHand(e, {"redis", "postgres"})'
           n == Consumed(e)
           n2 == Consumed(e)'
<1> SUFFICES booked'[e] + h2 <= n2
  OBVIOUS
<1>1. h \in {0, 1} /\ h2 \in {0, 1}
  BY DEF InHand
<1>t. n = Cardinality(Taken(topic, committed, e)) /\ n2 = Cardinality(Taken(topic', committed', e))
  BY DEF Consumed, Taken
<1>2. n \in Nat
  BY <1>0, <1>t, TakenFinite
<1>3. booked[e] \in Nat /\ booked[e] + h <= n
  BY <1>0 DEF BookedAtMostOnce
<1>4. committed' = committed /\ topic' = topic => n2 = n
  BY DEF Consumed
<1>5. UNCHANGED <<stage, current>> => h2 = h
  BY DEF InHand
<1>6. stage' \in {"reading", "down"} => h2 = 0
  BY DEF h2, InHand
<1>7. stage \in {"redis", "postgres"} /\ current = e => h = 1
  BY DEF InHand
<1> HIDE DEF h, h2, n, n2
<1>8. ASSUME n2 = n, booked' = booked, h2 <= h PROVE booked'[e] + h2 <= n2
  BY <1>1, <1>2, <1>3, <1>8
<1>9. ASSUME NEW d \in Event, topic' = Append(topic, d), committed' = committed
      PROVE  n2 = n
  <2>1. \A i \in 1 .. committed : topic'[i] = topic[i]
    BY <1>0, <1>9
  <2>2. Taken(topic', committed', e) = Taken(topic, committed, e)
    BY <1>9, <2>1 DEF Taken
  <2> QED
    BY <1>t, <2>2
<1>10. CASE \E d \in Event :
                \/ PublishFinancialEvent(d) \/ PublishFails(d) \/ Write(d)
                \/ \E stored, temporary \in BOOLEAN : WriteFails(d, stored, temporary)
  <2>1. PICK d \in Event :
                \/ PublishFinancialEvent(d) \/ PublishFails(d) \/ Write(d)
                \/ \E stored, temporary \in BOOLEAN : WriteFails(d, stored, temporary)
    BY <1>10
  <2>2. /\ committed' = committed /\ UNCHANGED <<stage, current>> /\ booked' = booked
        /\ topic' = topic \/ topic' = Append(topic, d)
    BY <2>1 DEF PublishFinancialEvent, PublishFails, Write, WriteFails, consumer, books
  <2>3. n2 = n
    BY <1>4, <1>9, <2>2
  <2> QED
    BY <1>1, <1>5, <1>8, <2>2, <2>3
<1>11. CASE ReadMessage
  <2>1. /\ committed' = committed + 1 /\ topic' = topic /\ stage = "reading"
        /\ current' = topic[committed + 1] /\ stage' = "redis" /\ booked' = booked
    BY <1>11 DEF ReadMessage, books
  <2>2. n2 = n + IF topic[committed + 1] = e THEN 1 ELSE 0
    BY <1>0, <1>t, <2>1, TakenNext
  <2>3. h2 = IF topic[committed + 1] = e THEN 1 ELSE 0
    BY <2>1 DEF h2, InHand
  <2> QED
    BY <1>1, <1>2, <1>3, <2>1, <2>2, <2>3
<1>12. ASSUME NEW lost \in BOOLEAN, CommitFails(lost) \/ LoopBreaks(lost)
       PROVE  booked'[e] + h2 <= n2
  <2>1. /\ committed' = committed + 1 \/ committed' = committed
        /\ topic' = topic /\ stage' = "down" /\ booked' = booked
    BY <1>12 DEF CommitFails, LoopBreaks, books
  <2>2. committed' = committed + 1 => n2 = n + IF topic[committed + 1] = e THEN 1 ELSE 0
    BY <1>0, <1>t, <2>1, TakenNext
  <2>3. n2 \in Nat /\ n <= n2
    BY <1>2, <1>4, <2>1, <2>2
  <2> QED
    BY <1>1, <1>2, <1>3, <1>6, <2>1, <2>3
<1>13. CASE UpdateRealtimeBudget \/ PostgresRejects \/ Restart
            \/ OrchestrationCrashes \/ Shutdown \/ ConsumerCrashes \/ UNCHANGED vars
  <2>1. /\ committed' = committed /\ topic' = topic /\ booked' = booked
        /\ \/ UNCHANGED <<stage, current>> \/ stage' \in {"reading", "down"}
           \/ stage = "redis" /\ stage' = "postgres" /\ current' = current
    BY <1>13 DEF UpdateRealtimeBudget, PostgresRejects, Restart, Shutdown,
                 OrchestrationCrashes, ConsumerCrashes, NextMessage, vars, consumer, books
  <2>2. stage = "redis" /\ stage' = "postgres" /\ current' = current => h2 = h
    BY DEF h, h2, InHand
  <2> QED
    BY <1>1, <1>4, <1>5, <1>6, <1>8, <2>1, <2>2
<1>14. ASSUME NEW done \in SUBSET {"total", "daily"}, RedisFails(done) \/ RedisRetries(done)
       PROVE  booked'[e] + h2 <= n2
  <2>1. /\ committed' = committed /\ topic' = topic /\ booked' = booked
        /\ current' = current /\ stage = "redis" /\ stage' \in {"redis", "postgres"}
    BY <1>14 DEF RedisFails, RedisRetries, consumer
  <2>2. h2 = h
    BY <2>1 DEF h, h2, InHand
  <2> QED
    BY <1>1, <1>4, <1>8, <2>1, <2>2
<1>15. CASE UpdateBudgetAndLedger \/ \E stored \in BOOLEAN : PostgresFails(stored)
  <2>1. /\ committed' = committed /\ topic' = topic /\ stage = "postgres" /\ stage' = "reading"
        /\ booked' = booked \/ booked' = Add(booked, current)
    BY <1>15 DEF UpdateBudgetAndLedger, PostgresFails, NextMessage
  <2>2. booked'[e] = booked[e] \/ (current = e /\ booked'[e] = booked[e] + 1)
    <3>1. current \in Event
      BY <1>0, <2>1
    <3>2. Add(booked, current)[e] = IF current = e THEN booked[e] + 1 ELSE booked[e]
      BY <1>0, <3>1, AddCounter
    <3> QED
      BY <2>1, <3>2
  <2>3. h2 = 0 /\ n2 = n /\ (current = e => h = 1)
    BY <1>4, <1>6, <1>7, <2>1
  <2> QED
    BY <1>1, <1>2, <1>3, <2>2, <2>3
<1> QED
  BY <1>10, <1>11, <1>12, <1>13, <1>14, <1>15 DEF Next, Consume

\* Whatever fails between the writer and the tables, variables keep their types.
THEOREM TypeCorrect == Spec => []TypeOK
<1>1. TypeInv => TypeOK
  BY DEF TypeInv
<1> QED
  BY <1>1, InitType, TypeStep, PTL DEF Spec

\* For any number of events, faults, crashes and restarts: the ledger has each
\* copy of an event that the consumer has taken at most once.
THEOREM BookedOnce == Spec => []BookedAtMostOnce
BY InitType, TypeStep, BookedInit, BookedStep, PTL DEF Spec

-----------------------------------------------------------------------------
(* What a fault costs: FaultsBoundDrift.                                   *)

\* The faults that are paid for: one for each of them and another for each
\* SIGTERM, except that of the SIGTERM after which the consumer still reads.
Bill == faults + sigterms - (IF cancelled /\ stage # "down" THEN 1 ELSE 0)

\* The steps that take a copy from the topic and never look at it.
Loses == CommitFails(TRUE) \/ LoopBreaks(TRUE)

\* The bill only grows, and it does for every fault and for a lost copy.
LEMMA BillStep ==
    ASSUME TypeInv, TypeInv', [Next]_vars
    PROVE  /\ Bill \in Nat /\ Bill' \in Nat /\ Bill' >= Bill
           /\ Fault \/ faults' = faults + 1 \/ Loses => Bill' >= Bill + 1
<1> DEFINE owing == IF cancelled /\ stage # "down" THEN 1 ELSE 0
           owing2 == IF cancelled' /\ stage' # "down" THEN 1 ELSE 0
<1>b. Bill = faults + sigterms - owing /\ Bill' = faults' + sigterms' - owing2
  BY DEF Bill
<1>1. /\ faults \in Nat /\ sigterms \in Nat /\ faults' \in Nat /\ sigterms' \in Nat
      /\ owing \in {0, 1} /\ owing2 \in {0, 1}
      /\ sigterms = 0 => owing = 0
      /\ sigterms' = 0 => owing2 = 0
  BY MeteringAssumption DEF TypeInv, TypeOK
<1>2. CASE Shutdown
  <2>1. faults' = faults + 1 /\ sigterms' = sigterms + 1 /\ owing = 0
    BY <1>2 DEF Shutdown
  <2> HIDE DEF owing, owing2
  <2> QED
    BY <1>b, <1>1, <2>1
<1>3. CASE LoopBreaks(TRUE) \/ LoopBreaks(FALSE)
  <2>1. owing = 1 /\ owing2 = 0 /\ faults' = faults /\ sigterms' = sigterms
    BY <1>3 DEF LoopBreaks, trouble
  <2> HIDE DEF owing, owing2
  <2> QED
    BY <1>b, <1>1, <2>1
<1>4. CASE ~ (Shutdown \/ LoopBreaks(TRUE) \/ LoopBreaks(FALSE))
  <2>1. UNCHANGED trouble \/ Fault
    BY <1>4 DEF Next, Consume, vars, CommitFails,
         PublishFinancialEvent, PublishFails, Write, WriteFails, OrchestrationCrashes,
         UpdateRealtimeBudget, RedisFails, RedisRetries, UpdateBudgetAndLedger,
         PostgresRejects, PostgresFails, ConsumerCrashes, Restart, ReadMessage
  <2>2. \/ cancelled' = cancelled /\ (stage = "down" => stage' = "down")
        \/ stage' = "down" \/ cancelled' = FALSE
    BY <1>4 DEF Next, Consume, vars, consumer, NextMessage, CommitFails,
         PublishFinancialEvent, PublishFails, Write, WriteFails, OrchestrationCrashes,
         UpdateRealtimeBudget, RedisFails, RedisRetries, UpdateBudgetAndLedger,
         PostgresRejects, PostgresFails, ConsumerCrashes, Restart, ReadMessage
  <2>3. owing2 = 0 \/ owing = 1
    <3>1. cancelled \in BOOLEAN /\ cancelled' \in BOOLEAN
      BY DEF TypeInv, TypeOK
    <3> QED
      BY <2>2, <3>1
  <2>4. Loses => Fault
    BY <1>4 DEF Loses, CommitFails
  <2>5. \/ faults' = faults /\ sigterms' = sigterms /\ ~ Loses /\ ~ Fault
        \/ faults' = faults + 1 /\ sigterms' = sigterms
    <3>1. Fault => faults' = faults + 1 /\ sigterms' = sigterms
      BY DEF Fault
    <3>2. UNCHANGED trouble => faults' = faults /\ sigterms' = sigterms
      BY DEF trouble
    <3> QED
      BY <2>1, <2>4, <3>1, <3>2
  <2> HIDE DEF owing, owing2
  <2>6. owing2 <= owing
    BY <1>1, <2>3
  <2>7. CASE faults' = faults /\ sigterms' = sigterms /\ ~ Loses /\ ~ Fault
    BY <1>b, <1>1, <2>6, <2>7
  <2>8. CASE faults' = faults + 1 /\ sigterms' = sigterms
    BY <1>b, <1>1, <2>6, <2>8
  <2> QED
    BY <2>5, <2>7, <2>8
<1> QED
  BY <1>2, <1>3, <1>4

\* A cancelled consumer with an event in hand is about to lose it.
Doomed(stages, scope) ==
    IF cancelled /\ stage \in stages /\ current \in scope THEN 1 ELSE 0

Affordable(counter, stages, scope) ==
    /\ IsFiniteSet(Drift(counter, stages, scope))
    /\ Cardinality(Drift(counter, stages, scope)) + Doomed(stages, scope) <= Bill

DriftInv ==
    /\ Affordable(total, {"redis"}, Event)
    /\ Affordable(daily, {"redis"}, Event)
    /\ Affordable(booked, {"redis", "postgres"}, Event \ Rejected)

\* Drift as a function of the gaps alone.
Pairs(gap, scope) == UNION {{e} \X (1 .. gap[e]) : e \in scope}

\* What one event more costs: one gap grows by one, and no other does.
LEMMA OnePairMore ==
    ASSUME NEW E, NEW scope \in SUBSET E, NEW g \in [E -> Nat], NEW h \in [E -> Nat],
           NEW d \in E, \A e \in scope \ {d} : h[e] <= g[e], h[d] <= g[d] + 1,
           IsFiniteSet(Pairs(g, scope))
    PROVE  /\ IsFiniteSet(Pairs(h, scope))
           /\ Cardinality(Pairs(h, scope)) <= Cardinality(Pairs(g, scope)) + 1
<1> DEFINE more == <<d, g[d] + 1>>
<1>1. Pairs(h, scope) \subseteq Pairs(g, scope) \cup {more}
  <2> SUFFICES ASSUME NEW e \in scope, NEW i \in 1 .. h[e], <<e, i>> # more
               PROVE  <<e, i>> \in Pairs(g, scope)
    BY DEF Pairs
  <2>1. i \in 1 .. g[e]
    OBVIOUS
  <2> QED
    BY <2>1 DEF Pairs
<1>2. /\ IsFiniteSet(Pairs(g, scope) \cup {more})
      /\ Cardinality(Pairs(g, scope) \cup {more}) <= Cardinality(Pairs(g, scope)) + 1
  <2>1. Cardinality(Pairs(g, scope)) \in Nat
    BY FS_CardinalityType
  <2>2. /\ IsFiniteSet(Pairs(g, scope) \cup {more})
        /\ \/ Cardinality(Pairs(g, scope) \cup {more}) = Cardinality(Pairs(g, scope))
           \/ Cardinality(Pairs(g, scope) \cup {more}) = Cardinality(Pairs(g, scope)) + 1
    BY FS_AddElement, Zenon
  <2> HIDE DEF more
  <2> QED
    BY <2>1, <2>2
<1>3. /\ IsFiniteSet(Pairs(h, scope))
      /\ Cardinality(Pairs(h, scope)) <= Cardinality(Pairs(g, scope) \cup {more})
  BY <1>1, <1>2, FS_Subset
<1> QED
  BY <1>2, <1>3, FS_CardinalityType

\* No gap grows: nothing more is off.
LEMMA NoPairMore ==
    ASSUME NEW E, NEW scope \in SUBSET E, NEW g \in [E -> Nat], NEW h \in [E -> Nat],
           \A e \in scope : h[e] <= g[e], IsFiniteSet(Pairs(g, scope))
    PROVE  /\ IsFiniteSet(Pairs(h, scope))
           /\ Cardinality(Pairs(h, scope)) <= Cardinality(Pairs(g, scope))
<1>1. Pairs(h, scope) \subseteq Pairs(g, scope)
  <2> SUFFICES ASSUME NEW e \in scope, NEW i \in 1 .. h[e]
               PROVE  <<e, i>> \in Pairs(g, scope)
    BY DEF Pairs
  <2>1. i \in 1 .. g[e]
    OBVIOUS
  <2> QED
    BY <2>1 DEF Pairs
<1> QED
  BY <1>1, FS_Subset

\* What the consumer has taken changes with the offset only.
LEMMA ConsumedStep ==
    ASSUME TypeInv, [Next]_vars
    PROVE  IF ReadMessage \/ Loses
           THEN \A e \in Event : Consumed(e)' =
                    Consumed(e) + IF e = topic[committed + 1] THEN 1 ELSE 0
           ELSE \A e \in Event : Consumed(e)' = Consumed(e)
<1>0. committed \in Nat /\ committed <= Len(topic) /\ topic \in Seq(Event)
  BY DEF TypeInv, TypeOK
<1>1. ASSUME committed' = committed, topic' = topic \/ \E d \in Event : topic' = Append(topic, d)
      PROVE  \A e \in Event : Consumed(e)' = Consumed(e)
  <2>1. \A i \in 1 .. committed : topic'[i] = topic[i]
    BY <1>0, <1>1
  <2> QED
    BY <1>1, <2>1 DEF Consumed
<1>2. CASE ReadMessage \/ Loses
  <2>1. committed' = committed + 1 /\ topic' = topic
    BY <1>2 DEF ReadMessage, Loses, CommitFails, LoopBreaks
  <2>2. \A e \in Event : Consumed(e) = Cardinality(Taken(topic, committed, e))
                         /\ Consumed(e)' = Cardinality(Taken(topic', committed', e))
    BY DEF Consumed, Taken
  <2>3. \A e \in Event : Cardinality(Taken(topic, committed + 1, e))
            = Cardinality(Taken(topic, committed, e)) + IF topic[committed + 1] = e THEN 1 ELSE 0
    BY <1>0, TakenNext
  <2> QED
    BY <1>2, <2>1, <2>2, <2>3
<1>3. CASE ~ (ReadMessage \/ Loses)
  <2>1. committed' = committed /\ (topic' = topic \/ \E d \in Event : topic' = Append(topic, d))
    BY <1>3 DEF Loses, Next, Consume, vars, consumer, books,
         PublishFinancialEvent, PublishFails, Write, WriteFails, OrchestrationCrashes, CommitFails,
         UpdateRealtimeBudget, RedisFails, RedisRetries, UpdateBudgetAndLedger,
         PostgresRejects, PostgresFails, Shutdown, LoopBreaks, ConsumerCrashes, Restart
  <2> QED
    BY <1>1, <1>3, <2>1
<1> QED
  BY <1>2, <1>3
\* How many copies of e are due stays within the naturals.
LEMMA DueNat ==
    ASSUME TypeInv, BookedAtMostOnce, NEW e \in Event
    PROVE  /\ Due(e, {"redis"}) \in Nat /\ Due(e, {"redis", "postgres"}) \in Nat
           /\ Consumed(e) \in Nat
<1>1. Consumed(e) \in Nat
  BY ConsumedTaken, TakenFinite DEF TypeInv, TypeOK
<1>2. booked[e] \in Nat /\ booked[e] + InHand(e, {"redis", "postgres"}) <= Consumed(e)
  BY DEF TypeInv, TypeOK, BookedAtMostOnce
<1>3. /\ InHand(e, {"redis"}) \in {0, 1} /\ InHand(e, {"redis", "postgres"}) \in {0, 1}
      /\ InHand(e, {"redis"}) <= InHand(e, {"redis", "postgres"})
  BY DEF InHand
<1> QED
  BY <1>1, <1>2, <1>3 DEF Due

DuesNat ==
    \A e \in Event : Due(e, {"redis"}) \in Nat /\ Due(e, {"redis", "postgres"}) \in Nat

LEMMA DuesAreNat == TypeInv /\ BookedAtMostOnce => DuesNat
BY DueNat DEF DuesNat

\* A store's gaps before and after a step: none grows and no more faults are
\* spoken for than have come, or one grows by one and a fault pays for it.
Covered(g, h, scope, owed, owed2, f, f2) ==
    \/ (\A e \in scope : h[e] <= g[e]) /\ owed2 + f <= owed + f2
    \/ /\ \E d \in scope : h[d] <= g[d] + 1 /\ \A e \in scope \ {d} : h[e] <= g[e]
       /\ owed2 + f + 1 <= owed + f2

\* A step that is covered by its faults keeps the account.
LEMMA CoveredKeeps ==
    ASSUME NEW scope \in SUBSET Event, NEW g \in [Event -> Nat], NEW h \in [Event -> Nat],
           NEW owed \in Nat, NEW owed2 \in Nat, NEW f \in Nat, NEW f2 \in Nat,
           Covered(g, h, scope, owed, owed2, f, f2),
           IsFiniteSet(Pairs(g, scope)), Cardinality(Pairs(g, scope)) + owed <= f
    PROVE  IsFiniteSet(Pairs(h, scope)) /\ Cardinality(Pairs(h, scope)) + owed2 <= f2
<1>0. Cardinality(Pairs(g, scope)) \in Nat
  BY FS_CardinalityType
<1>1. CASE (\A e \in scope : h[e] <= g[e]) /\ owed2 + f <= owed + f2
  <2>1. IsFiniteSet(Pairs(h, scope)) /\ Cardinality(Pairs(h, scope)) <= Cardinality(Pairs(g, scope))
    BY <1>1, NoPairMore
  <2> QED
    BY <1>0, <1>1, <2>1, FS_CardinalityType
<1>2. ASSUME NEW d \in scope, h[d] <= g[d] + 1, \A e \in scope \ {d} : h[e] <= g[e],
             owed2 + f + 1 <= owed + f2
      PROVE  IsFiniteSet(Pairs(h, scope)) /\ Cardinality(Pairs(h, scope)) + owed2 <= f2
  <2>1. /\ IsFiniteSet(Pairs(h, scope))
        /\ Cardinality(Pairs(h, scope)) <= Cardinality(Pairs(g, scope)) + 1
    BY <1>2, OnePairMore
  <2> QED
    BY <1>0, <1>2, <2>1, FS_CardinalityType
<1> QED
  BY <1>1, <1>2 DEF Covered

\* What is due moves by one copy of the event d.
Comes(D, D2, d) == \A e \in Event : D2[e] = D[e] + IF e = d THEN 1 ELSE 0

\* Due(e, stages), before and after a step.
LEMMA DueStep ==
    ASSUME TypeInv, BookedAtMostOnce, TypeInv', BookedAtMostOnce', [Next]_vars,
           NEW stages \in {{"redis"}, {"redis", "postgres"}}
    PROVE  LET D == [e \in Event |-> Due(e, stages)]
               D2 == [e \in Event |-> Due(e, stages)'] IN
           /\ D \in [Event -> Nat] /\ D2 \in [Event -> Nat]
           /\ IF stage \in stages /\ stage' \notin stages THEN Comes(D, D2, current)
              ELSE IF Loses THEN \E d \in Event : Comes(D, D2, d)
              ELSE D2 = D
<1> DEFINE D == [e \in Event |-> Due(e, stages)]
           D2 == [e \in Event |-> Due(e, stages)']
<1> SUFFICES /\ D \in [Event -> Nat] /\ D2 \in [Event -> Nat]
             /\ IF stage \in stages /\ stage' \notin stages THEN Comes(D, D2, current)
                ELSE IF Loses THEN \E d \in Event : Comes(D, D2, d)
                ELSE D2 = D
  OBVIOUS
<1>0. D \in [Event -> Nat] /\ D2 \in [Event -> Nat]
  <2>1. \A e \in Event : Due(e, stages) \in Nat
    BY DueNat
  <2>2. DuesNat'
    BY DuesAreNat, PTL
  <2>3. \A e \in Event : Due(e, stages)' \in Nat
    BY <2>2 DEF DuesNat
  <2> QED
    BY <2>1, <2>3
<1>1. \A e \in Event : D[e] = Consumed(e) - InHand(e, stages)
                       /\ D2[e] = Consumed(e)' - InHand(e, stages)'
  BY DEF Due
<1>2. \A e \in Event : Consumed(e) \in Nat
  BY DueNat
<1>3. \A e \in Event : /\ InHand(e, stages) = IF current = e /\ stage \in stages THEN 1 ELSE 0
                       /\ InHand(e, stages)' = IF current' = e /\ stage' \in stages THEN 1 ELSE 0
  BY DEF InHand
<1>t. "redis" \in stages /\ "reading" \notin stages /\ "down" \notin stages
  OBVIOUS
<1>5. D \in [Event -> Nat] /\ D2 \in [Event -> Nat] /\ DOMAIN D = Event /\ DOMAIN D2 = Event
  BY <1>0
<1>e. (\A e \in Event : D2[e] = D[e]) => D2 = D
  BY <1>5
<1> HIDE DEF D, D2
<1> DEFINE d == topic[committed + 1]
<1>6. CASE ReadMessage
  <2>1. \A e \in Event : Consumed(e)' = Consumed(e) + IF e = d THEN 1 ELSE 0
    BY <1>6, ConsumedStep
  <2>2. stage = "reading" /\ stage' = "redis" /\ current' = d
    BY <1>6 DEF ReadMessage
  <2>3. \A e \in Event : InHand(e, stages) = 0
                         /\ InHand(e, stages)' = IF e = d THEN 1 ELSE 0
    BY <1>3, <1>t, <2>2
  <2>4. \A e \in Event : D2[e] = D[e]
    BY <1>1, <1>2, <2>1, <2>3
  <2> QED
    BY <1>0, <1>e, <1>t, <1>6, <2>2, <2>4 DEF Loses, CommitFails, LoopBreaks
<1>7. CASE Loses
  <2>1. \A e \in Event : Consumed(e)' = Consumed(e) + IF e = d THEN 1 ELSE 0
    BY <1>7, ConsumedStep
  <2>2. stage = "reading" /\ stage' = "down" /\ committed < Len(topic)
    BY <1>7 DEF Loses, CommitFails, LoopBreaks
  <2>5. d \in Event
    <3>1. committed \in Nat /\ topic \in Seq(Event)
      BY DEF TypeInv, TypeOK
    <3>2. committed + 1 \in 1 .. Len(topic)
      BY <2>2, <3>1
    <3> QED
      BY <3>1, <3>2
  <2>4. \A e \in Event : InHand(e, stages) = 0 /\ InHand(e, stages)' = 0
    BY <1>3, <1>t, <2>2
  <2>3. Comes(D, D2, d)
    BY <1>1, <1>2, <2>1, <2>4 DEF Comes
  <2> QED
    BY <1>0, <1>7, <1>t, <2>2, <2>5, <2>3
<1>8. CASE ~ (ReadMessage \/ Loses)
  <2>1. \A e \in Event : Consumed(e)' = Consumed(e)
    BY <1>8, ConsumedStep
  <2>2. CASE \/ stage \in stages /\ stage' \in stages /\ current' = current
             \/ stage \notin stages /\ stage' \notin stages
    <3>1. \A e \in Event : /\ InHand(e, stages)' = InHand(e, stages)
                           /\ InHand(e, stages) \in {0, 1}
      BY <1>3, <2>2
    <3>2. \A e \in Event : D2[e] = D[e]
      BY <1>1, <1>2, <2>1, <3>1
    <3> QED
      BY <1>0, <1>8, <1>e, <2>2, <3>2
  <2>4. CASE stage \in stages /\ stage' \notin stages
    <3>1. \A e \in Event : /\ InHand(e, stages) = IF e = current THEN 1 ELSE 0
                           /\ InHand(e, stages)' = 0
      BY <1>3, <2>4
    <3>2. Comes(D, D2, current)
      BY <1>1, <1>2, <2>1, <3>1 DEF Comes
    <3> QED
      BY <1>0, <2>4, <3>2
  <2>5. \/ stage \in stages /\ stage' \in stages /\ current' = current
        \/ stage \notin stages /\ stage' \notin stages
        \/ stage \in stages /\ stage' \notin stages
    BY <1>8, <1>t DEF Loses, Next, Consume, vars, consumer, books, NextMessage,
         PublishFinancialEvent, PublishFails, Write, WriteFails, OrchestrationCrashes, CommitFails,
         UpdateRealtimeBudget, RedisFails, RedisRetries, UpdateBudgetAndLedger,
         PostgresRejects, PostgresFails, Shutdown, LoopBreaks, ConsumerCrashes, Restart
  <2> QED
    BY <2>2, <2>4, <2>5
<1> QED
  BY <1>6, <1>7, <1>8
\* What is due (D) and counted (c) moves at the event d: together, outside the
\* scope, or at the price of a fault.
Moves(scope, D, D2, c, c2, owed, owed2, f, f2, d) ==
    /\ D2 = D \/ Comes(D, D2, d)
    /\ c2 = c \/ c2 = Add(c, d)
    /\ \/ /\ (D2 = D /\ c2 = c) \/ (Comes(D, D2, d) /\ c2 = Add(c, d)) \/ d \notin scope
          /\ owed2 + f <= owed + f2
       \/ owed2 + f + 1 <= owed + f2

\* Such a move is covered.
LEMMA StepCosts ==
    ASSUME NEW scope \in SUBSET Event,
           NEW D \in [Event -> Nat], NEW D2 \in [Event -> Nat],
           NEW c \in [Event -> Nat], NEW c2 \in [Event -> Nat],
           NEW owed \in Nat, NEW owed2 \in Nat, NEW f \in Nat, NEW f2 \in Nat,
           NEW d \in Event, Moves(scope, D, D2, c, c2, owed, owed2, f, f2, d)
    PROVE  Covered([e \in Event |-> Gap(D[e], c[e])], [e \in Event |-> Gap(D2[e], c2[e])],
                scope, owed, owed2, f, f2)
<1> DEFINE g == [e \in Event |-> Gap(D[e], c[e])]
           h == [e \in Event |-> Gap(D2[e], c2[e])]
<1> SUFFICES Covered(g, h, scope, owed, owed2, f, f2)
  OBVIOUS
<1>0. Moves(scope, D, D2, c, c2, owed, owed2, f, f2, d)!1
      /\ Moves(scope, D, D2, c, c2, owed, owed2, f, f2, d)!2
  BY DEF Moves
<1>1. \A e \in Event \ {d} : D2[e] = D[e] /\ c2[e] = c[e]
  BY <1>0, AddCounter DEF Comes
<1>2. D[d] \in Nat /\ c[d] \in Nat /\ D2[d] \in {D[d], D[d] + 1} /\ c2[d] \in {c[d], c[d] + 1}
  BY <1>0, AddCounter DEF Comes
<1>3. Comes(D, D2, d) /\ c2 = Add(c, d) => D2[d] = D[d] + 1 /\ c2[d] = c[d] + 1
  BY AddCounter DEF Comes
<1>x. /\ Gap(D[d], c[d]) \in Nat /\ Gap(D[d] + 1, c[d]) \in Nat /\ Gap(D[d], c[d] + 1) \in Nat
      /\ Gap(D[d] + 1, c[d] + 1) = Gap(D[d], c[d])
      /\ Gap(D[d] + 1, c[d]) <= Gap(D[d], c[d]) + 1
      /\ Gap(D[d], c[d] + 1) <= Gap(D[d], c[d]) + 1
  BY <1>2 DEF Gap
<1>g. \A e \in Event : g[e] = Gap(D[e], c[e]) /\ h[e] = Gap(D2[e], c2[e])
  OBVIOUS
<1> HIDE DEF g, h
<1>4. \A e \in Event : g[e] \in Nat
  BY <1>g DEF Gap
<1>5. \A e \in Event \ {d} : h[e] = g[e]
  BY <1>1, <1>g
<1>6. D2[d] = D[d] + 1 /\ c2[d] = c[d] + 1 => h[d] = g[d]
  BY <1>x, <1>g
<1>7. h[d] \in {g[d], Gap(D[d] + 1, c[d]), Gap(D[d], c[d] + 1)}
  BY <1>2, <1>x, <1>g, Zenon
<1>m. h[d] \in Nat /\ h[d] <= g[d] + 1
  <2>1. /\ Gap(D[d] + 1, c[d]) <= g[d] + 1 /\ Gap(D[d], c[d] + 1) <= g[d] + 1
        /\ Gap(D[d] + 1, c[d]) \in Nat /\ Gap(D[d], c[d] + 1) \in Nat /\ g[d] \in Nat
    BY <1>x, <1>g
  <2> QED
    BY <1>7, <2>1
<1>8. CASE /\ (D2 = D /\ c2 = c) \/ (Comes(D, D2, d) /\ c2 = Add(c, d)) \/ d \notin scope
           /\ owed2 + f <= owed + f2
  <2>1. \A e \in scope : h[e] = g[e]
    BY <1>3, <1>5, <1>6, <1>8, <1>g
  <2> QED
    BY <1>4, <1>8, <2>1 DEF Covered
<1>9. CASE d \in scope /\ owed2 + f + 1 <= owed + f2
  BY <1>4, <1>5, <1>m, <1>9 DEF Covered
<1>10. CASE d \notin scope /\ owed2 + f + 1 <= owed + f2
  <2>1. owed2 + f <= owed + f2
    BY <1>10
  <2> QED
    BY <1>4, <1>5, <1>10, <2>1 DEF Covered
<1> QED
  BY <1>8, <1>9, <1>10 DEF Moves

\* What can be done to the counters of Redis in a step.
RedisStep(c, c2) ==
    \/ c2 = c /\ ~ UpdateRealtimeBudget
    \/ c2 = Add(c, current) /\ UpdateRealtimeBudget
    \/ /\ c2 = Add(c, current)
       /\ \E done \in SUBSET {"total", "daily"} : RedisFails(done) \/ RedisRetries(done)

\* What a step costs a counter of Redis.
LEMMA RedisCosts ==
    ASSUME TypeInv, BookedAtMostOnce, TypeInv', BookedAtMostOnce', [Next]_vars,
           NEW c \in [Event -> Nat], NEW c2 \in [Event -> Nat], RedisStep(c, c2)
    PROVE  Covered([e \in Event |-> Gap(Due(e, {"redis"}), c[e])],
                [e \in Event |-> Gap(Due(e, {"redis"})', c2[e])], Event,
                Doomed({"redis"}, Event), Doomed({"redis"}, Event)', Bill, Bill')
<1> DEFINE D == [e \in Event |-> Due(e, {"redis"})]
           D2 == [e \in Event |-> Due(e, {"redis"})']
           owed == Doomed({"redis"}, Event)
           owed2 == Doomed({"redis"}, Event)'
           f == Bill
           f2 == Bill'
           Goal == Covered([e \in Event |-> Gap(D[e], c[e])], [e \in Event |-> Gap(D2[e], c2[e])],
                        Event, owed, owed2, f, f2)
<1>1. /\ D \in [Event -> Nat] /\ D2 \in [Event -> Nat]
      /\ IF stage = "redis" /\ stage' # "redis" THEN Comes(D, D2, current)
         ELSE IF Loses THEN \E d \in Event : Comes(D, D2, d)
         ELSE D2 = D
  BY DueStep
<1>2. f \in Nat /\ f2 \in Nat /\ (stage = "redis" => current \in Event)
  BY BillStep, MeteringAssumption DEF TypeInv, TypeOK
<1>3. /\ owed = IF cancelled /\ stage = "redis" THEN 1 ELSE 0
      /\ owed2 = IF cancelled' /\ stage' = "redis" THEN 1 ELSE 0
  BY MeteringAssumption DEF Doomed, TypeInv, TypeOK
<1>f. /\ f2 >= f
      /\ Fault \/ faults' = faults + 1 \/ Loses => f2 >= f + 1
  BY BillStep
<1> SUFFICES Goal
  OBVIOUS
<1> HIDE DEF D, D2, owed, owed2, f, f2
<1>4. CASE D2 = D /\ c2 = c /\ owed2 + f <= owed + f2
  <2>1. \A e \in Event : Gap(D[e], c[e]) <= Gap(D[e], c[e])
    BY <1>1 DEF Gap
  <2> QED
    BY <1>4, <2>1 DEF Covered
<1>5. ASSUME NEW d \in Event, D2 = D \/ Comes(D, D2, d), c2 = c \/ c2 = Add(c, d),
             \/ Comes(D, D2, d) /\ c2 = Add(c, d) /\ owed2 + f <= owed + f2
             \/ owed2 + f + 1 <= owed + f2
      PROVE  Goal
  <2>1. owed \in Nat /\ owed2 \in Nat
    BY <1>3
  <2>2. Moves(Event, D, D2, c, c2, owed, owed2, f, f2, d)
    BY <1>5 DEF Moves
  <2> QED
    BY <1>1, <1>2, <2>1, <2>2, StepCosts
<1> HIDE DEF Goal
<1>6. CASE Loses
  <2>1. stage = "reading" /\ stage' = "down" /\ f2 >= f + 1
    BY <1>6, <1>f DEF Loses, CommitFails, LoopBreaks
  <2>2. c2 = c
    BY <2>1 DEF RedisStep, UpdateRealtimeBudget, RedisFails, RedisRetries
  <2>3. PICK d \in Event : Comes(D, D2, d)
    BY <1>1, <1>6, <2>1
  <2> QED
    BY <1>2, <1>3, <1>5, <2>1, <2>2, <2>3
<1>7. CASE UpdateRealtimeBudget
  <2>1. /\ stage = "redis" /\ stage' = "postgres" /\ f2 >= f /\ ~ cancelled
    BY <1>7, <1>f DEF UpdateRealtimeBudget
  <2>2. c2 = Add(c, current)
    BY <1>7 DEF RedisStep
  <2> QED
    BY <1>1, <1>2, <1>3, <1>5, <2>1, <2>2
<1>8. ASSUME NEW done \in SUBSET {"total", "daily"}, RedisFails(done) PROVE Goal
  <2>1. /\ stage = "redis" /\ stage' = "postgres"
        /\ IF cancelled THEN f2 >= f ELSE f2 >= f + 1
    BY <1>8, <1>f DEF RedisFails
  <2>2. c2 = c \/ c2 = Add(c, current)
    BY DEF RedisStep
  <2>3. owed2 + f + 1 <= owed + f2
    <3>1. owed2 = 0 /\ (cancelled => owed = 1) /\ owed \in {0, 1}
      BY <1>3, <2>1
    <3>2. (owed = 1 /\ f2 >= f) \/ f2 >= f + 1
      BY <2>1, <3>1, Zenon
    <3>3. f \in Nat /\ f2 \in Nat
      BY <1>2
    <3> QED
      BY <3>1, <3>2, <3>3
  <2> QED
    BY <1>1, <1>2, <1>5, <2>1, <2>2, <2>3
<1>9. ASSUME NEW done \in SUBSET {"total", "daily"}, RedisRetries(done) PROVE Goal
  <2>1. /\ stage = "redis" /\ stage' = stage /\ ~ cancelled /\ cancelled' = cancelled
        /\ f2 >= f + 1 /\ ~ Loses
    BY <1>9, <1>f DEF RedisRetries, consumer, Loses, CommitFails, LoopBreaks
  <2>2. c2 = c \/ c2 = Add(c, current)
    BY DEF RedisStep
  <2> QED
    BY <1>1, <1>2, <1>3, <1>5, <2>1, <2>2
<1>10. CASE ConsumerCrashes
  <2>1. stage' = "down" /\ f2 >= f + 1
    BY <1>10, <1>f DEF ConsumerCrashes
  <2>2. CASE stage = "redis"
    <3>1. c2 = c \/ c2 = Add(c, current)
      BY DEF RedisStep
    <3> QED
      BY <1>1, <1>2, <1>3, <1>5, <2>1, <2>2, <3>1
  <2>3. CASE stage # "redis"
    <3>1. c2 = c
      BY <2>3 DEF RedisStep, UpdateRealtimeBudget, RedisFails, RedisRetries
    <3>2. ~ Loses => D2 = D
      BY <1>1, <2>3
    <3>3. owed2 + f <= owed + f2
      BY <1>2, <1>3, <2>1, <2>3
    <3> QED
      BY <1>4, <1>6, <3>1, <3>2, <3>3
  <2> QED
    BY <2>2, <2>3
<1>11. CASE ~ (\/ Loses \/ UpdateRealtimeBudget \/ ConsumerCrashes
               \/ \E done \in SUBSET {"total", "daily"} : RedisFails(done) \/ RedisRetries(done))
  <2>1. c2 = c
    BY <1>11 DEF RedisStep
  <2>2. /\ stage = "redis" => stage' = "redis"
        /\ \/ (cancelled' => cancelled) /\ (stage' = "redis" => stage = "redis" \/ ~ cancelled')
           \/ Fault \/ faults' = faults + 1
    BY <1>11 DEF Loses, Next, Consume, vars, trouble, consumer, books, NextMessage,
         PublishFinancialEvent, PublishFails, Write, WriteFails, OrchestrationCrashes, CommitFails,
         UpdateBudgetAndLedger, PostgresRejects, PostgresFails, Shutdown, LoopBreaks,
         Restart, ReadMessage
  <2>3. D2 = D
    BY <1>1, <1>11, <2>2
  <2>4. owed2 + f <= owed + f2
    <3>1. owed \in {0, 1} /\ owed2 \in {0, 1}
      BY <1>3
    <3>2. \/ owed2 = 0 \/ owed = 1
          \/ Fault \/ faults' = faults + 1
      BY <1>2, <1>3, <2>2
    <3>3. (f2 >= f /\ (owed2 = 0 \/ owed = 1)) \/ f2 >= f + 1
      BY <1>f, <3>2, Zenon
    <3>4. f \in Nat /\ f2 \in Nat
      BY <1>2
    <3> QED
      BY <3>1, <3>3, <3>4
  <2> QED
    BY <1>4, <2>1, <2>3, <2>4
<1> QED
  BY <1>6, <1>7, <1>8, <1>9, <1>10, <1>11

\* What a step costs the tables, which are not expected to have what they reject.
LEMMA TablesCost ==
    ASSUME TypeInv, BookedAtMostOnce, TypeInv', BookedAtMostOnce', [Next]_vars
    PROVE  Covered([e \in Event |-> Gap(Due(e, {"redis", "postgres"}), booked[e])],
                [e \in Event |-> Gap(Due(e, {"redis", "postgres"})', booked'[e])],
                Event \ Rejected, Doomed({"redis", "postgres"}, Event \ Rejected),
                Doomed({"redis", "postgres"}, Event \ Rejected)', Bill, Bill')
<1> DEFINE D == [e \in Event |-> Due(e, {"redis", "postgres"})]
           D2 == [e \in Event |-> Due(e, {"redis", "postgres"})']
           owed == Doomed({"redis", "postgres"}, Event \ Rejected)
           owed2 == Doomed({"redis", "postgres"}, Event \ Rejected)'
           inHand == stage \in {"redis", "postgres"}
           f == Bill
           f2 == Bill'
           Goal == Covered([e \in Event |-> Gap(D[e], booked[e])],
                        [e \in Event |-> Gap(D2[e], booked'[e])],
                        Event \ Rejected, owed, owed2, f, f2)
<1>1. /\ D \in [Event -> Nat] /\ D2 \in [Event -> Nat]
      /\ IF inHand /\ ~ inHand' THEN Comes(D, D2, current)
         ELSE IF Loses THEN \E d \in Event : Comes(D, D2, d)
         ELSE D2 = D
  BY DueStep
<1>2. /\ f \in Nat /\ f2 \in Nat /\ (inHand => current \in Event)
      /\ booked \in [Event -> Nat] /\ booked' \in [Event -> Nat]
  BY BillStep, MeteringAssumption DEF TypeInv, TypeOK
<1>3. /\ owed = IF cancelled /\ inHand /\ current \notin Rejected THEN 1 ELSE 0
      /\ owed2 = IF cancelled' /\ inHand' /\ current' \notin Rejected THEN 1 ELSE 0
  BY MeteringAssumption DEF Doomed, TypeInv, TypeOK
<1>n. owed \in {0, 1} /\ owed2 \in {0, 1}
  BY <1>3
<1>f. /\ f2 >= f
      /\ Fault \/ faults' = faults + 1 \/ Loses => f2 >= f + 1
  BY BillStep
<1> SUFFICES Goal
  OBVIOUS
<1> HIDE DEF D, D2, owed, owed2, f, f2
<1>4. CASE D2 = D /\ booked' = booked /\ owed2 + f <= owed + f2
  <2>1. \A e \in Event : Gap(D[e], booked[e]) <= Gap(D[e], booked[e])
    BY <1>1, <1>2 DEF Gap
  <2> QED
    BY <1>4, <2>1 DEF Covered
<1>5. ASSUME NEW d \in Event, Moves(Event \ Rejected, D, D2, booked, booked', owed, owed2,
                                    f, f2, d)
      PROVE  Goal
  <2>1. owed \in Nat /\ owed2 \in Nat
    BY <1>n
  <2> QED
    BY <1>1, <1>2, <1>5, <2>1, StepCosts
<1> HIDE DEF Goal
<1>6. CASE Loses
  <2>1. stage = "reading" /\ stage' = "down" /\ f2 >= f + 1 /\ booked' = booked
    BY <1>6, <1>f DEF Loses, CommitFails, LoopBreaks, books
  <2>2. PICK d \in Event : Comes(D, D2, d)
    BY <1>1, <1>6, <2>1
  <2>3. owed2 + f + 1 <= owed + f2
    BY <1>2, <1>3, <2>1
  <2>4. Moves(Event \ Rejected, D, D2, booked, booked', owed, owed2, f, f2, d)
    BY <2>1, <2>2, <2>3 DEF Moves
  <2> QED
    BY <1>5, <2>4
<1>7. CASE UpdateBudgetAndLedger
  <2>1. /\ stage = "postgres" /\ stage' = "reading" /\ f2 >= f /\ ~ cancelled
        /\ booked' = Add(booked, current)
    BY <1>7, <1>f DEF UpdateBudgetAndLedger, NextMessage
  <2>2. current \in Event /\ Comes(D, D2, current)
    BY <1>1, <1>2, <2>1
  <2>3. owed2 + f <= owed + f2
    BY <1>2, <1>3, <2>1
  <2>4. Moves(Event \ Rejected, D, D2, booked, booked', owed, owed2, f, f2, current)
    BY <2>1, <2>2, <2>3 DEF Moves
  <2> QED
    BY <1>5, <2>2, <2>4
<1>8. CASE PostgresRejects
  <2>1. /\ stage = "postgres" /\ stage' = "reading" /\ f2 >= f /\ booked' = booked
        /\ current \in Rejected
    BY <1>8, <1>f DEF PostgresRejects, NextMessage, books
  <2>2. current \in Event /\ Comes(D, D2, current)
    BY <1>1, <1>2, <2>1
  <2>3. owed2 + f <= owed + f2
    BY <1>2, <1>3, <2>1
  <2>4. Moves(Event \ Rejected, D, D2, booked, booked', owed, owed2, f, f2, current)
    BY <2>1, <2>2, <2>3 DEF Moves
  <2> QED
    BY <1>5, <2>2, <2>4
<1>9. ASSUME NEW stored \in BOOLEAN, PostgresFails(stored) PROVE Goal
  <2>1. /\ stage = "postgres" /\ stage' = "reading"
        /\ booked' = booked \/ booked' = Add(booked, current)
        /\ IF cancelled THEN f2 >= f ELSE f2 >= f + 1
    BY <1>9, <1>f DEF PostgresFails, NextMessage
  <2>2. current \in Event /\ Comes(D, D2, current)
    BY <1>1, <1>2, <2>1
  <2>3. owed2 = 0 /\ (cancelled /\ current \notin Rejected => owed = 1)
    BY <1>3, <2>1
  <2>4. \/ owed = 1 /\ f2 >= f
        \/ current \in Rejected /\ f2 >= f
        \/ f2 >= f + 1
    BY <2>1, <2>3, Zenon
  <2>5. \/ owed2 + f + 1 <= owed + f2
        \/ current \in Rejected /\ owed2 + f <= owed + f2
    <3>1. f \in Nat /\ f2 \in Nat /\ owed \in {0, 1} /\ owed2 = 0
      BY <1>2, <1>n, <2>3
    <3> QED
      BY <2>4, <3>1
  <2>6. Moves(Event \ Rejected, D, D2, booked, booked', owed, owed2, f, f2, current)
    BY <2>1, <2>2, <2>5 DEF Moves
  <2> QED
    BY <1>5, <2>2, <2>6
<1>10. CASE ConsumerCrashes
  <2>1. stage' = "down" /\ f2 >= f + 1 /\ booked' = booked
    BY <1>10, <1>f DEF ConsumerCrashes, books
  <2>2. owed2 = 0
    BY <1>3, <2>1
  <2>3. CASE inHand
    <3>1. current \in Event /\ Comes(D, D2, current)
      BY <1>1, <1>2, <2>1, <2>3
    <3>2. owed2 + f + 1 <= owed + f2
      BY <1>2, <1>n, <2>1, <2>2
    <3>3. Moves(Event \ Rejected, D, D2, booked, booked', owed, owed2, f, f2, current)
      BY <2>1, <3>1, <3>2 DEF Moves
    <3> QED
      BY <1>5, <3>1, <3>3
  <2>4. CASE ~ inHand
    <3>1. ~ Loses => D2 = D
      BY <1>1, <2>4
    <3>2. owed2 + f <= owed + f2
      BY <1>2, <1>n, <2>1, <2>2
    <3> QED
      BY <1>4, <1>6, <2>1, <3>1, <3>2
  <2> QED
    BY <2>3, <2>4
<1>11. CASE ~ (\/ Loses \/ UpdateBudgetAndLedger \/ PostgresRejects
               \/ ConsumerCrashes \/ \E stored \in BOOLEAN : PostgresFails(stored))
  <2>1. booked' = booked
    BY <1>11 DEF Next, Consume, vars, consumer, books,
         PublishFinancialEvent, PublishFails, Write, WriteFails, OrchestrationCrashes, CommitFails,
         UpdateRealtimeBudget, RedisFails, RedisRetries, Shutdown, LoopBreaks, Restart,
         ReadMessage
  <2>2. inHand => inHand' /\ current' = current
    BY <1>11 DEF Next, Consume, vars, consumer, books,
         PublishFinancialEvent, PublishFails, Write, WriteFails, OrchestrationCrashes, CommitFails,
         UpdateRealtimeBudget, RedisFails, RedisRetries, Shutdown, LoopBreaks, Restart,
         ReadMessage
  <2>f. \/ cancelled' /\ inHand' => cancelled /\ inHand
        \/ Fault \/ faults' = faults + 1
    BY <1>11 DEF Loses, Next, Consume, vars, trouble, consumer, books,
         PublishFinancialEvent, PublishFails, Write, WriteFails, OrchestrationCrashes, CommitFails,
         UpdateRealtimeBudget, RedisFails, RedisRetries, Shutdown, LoopBreaks, Restart,
         ReadMessage
  <2>3. D2 = D
    BY <1>1, <1>11, <2>2
  <2>4. owed2 + f <= owed + f2
    <3>2. \/ owed2 = 0 \/ owed = 1
          \/ Fault \/ faults' = faults + 1
      BY <1>2, <1>3, <2>2, <2>f
    <3>3. (f2 >= f /\ (owed2 = 0 \/ owed = 1)) \/ f2 >= f + 1
      BY <1>f, <3>2, Zenon
    <3>4. f \in Nat /\ f2 \in Nat
      BY <1>2
    <3> QED
      BY <1>n, <3>3, <3>4
  <2> QED
    BY <1>4, <2>1, <2>3, <2>4
<1> QED
  BY <1>6, <1>7, <1>8, <1>9, <1>10, <1>11

\* Nothing consumed, nothing counted, nothing off.
LEMMA DriftInit == Init => DriftInv
<1> SUFFICES ASSUME Init PROVE DriftInv
  OBVIOUS
<1>1. ASSUME NEW counter, counter = [e \in Event |-> 0],
             NEW stages, NEW scope \in SUBSET Event
      PROVE  Affordable(counter, stages, scope)
  <2>1. \A e \in Event : Consumed(e) = 0 /\ InHand(e, stages) = 0
    <3>1. ASSUME NEW e \in Event PROVE Consumed(e) = 0
      <4>1. {i \in 1 .. committed : topic[i] = e} = {}
        BY DEF Init
      <4> QED
        BY <4>1, FS_EmptySet DEF Consumed
    <3>2. \A e \in Event : current # e
      BY MeteringAssumption DEF Init
    <3> QED
      BY <3>1, <3>2 DEF InHand
  <2>2. \A e \in scope : Gap(Due(e, stages), counter[e]) = 0
    BY <1>1, <2>1 DEF Gap, Due
  <2>3. Drift(counter, stages, scope) = {}
    BY <2>2 DEF Drift
  <2>4. Doomed(stages, scope) = 0 /\ Bill = 0
    <3>1. faults = 0 /\ sigterms = 0 /\ ~ cancelled
      BY DEF Init
    <3>2. Bill = 0 + 0 - 0
      BY <3>1, Zenon DEF Bill
    <3> QED
      BY <3>1, <3>2 DEF Doomed
  <2> QED
    BY <2>3, <2>4, FS_EmptySet DEF Affordable
<1> QED
  BY <1>1, MeteringAssumption DEF Init, DriftInv

\* Every step covers what it sets off.
LEMMA DriftStep ==
    TypeInv /\ BookedAtMostOnce /\ DriftInv /\ [Next]_vars => DriftInv'
<1> SUFFICES ASSUME TypeInv, BookedAtMostOnce, DriftInv, [Next]_vars PROVE DriftInv'
  OBVIOUS
<1>1. TypeInv' /\ BookedAtMostOnce'
  BY TypeStep, BookedStep
<1>2. /\ Bill \in Nat /\ Bill' \in Nat
      /\ total \in [Event -> Nat] /\ daily \in [Event -> Nat] /\ booked \in [Event -> Nat]
      /\ total' \in [Event -> Nat] /\ daily' \in [Event -> Nat] /\ booked' \in [Event -> Nat]
  BY <1>1, BillStep DEF TypeInv, TypeOK
<1>3. \A stages, scope : Doomed(stages, scope) \in Nat /\ Doomed(stages, scope)' \in Nat
  BY DEF Doomed
<1>4. ASSUME NEW stages \in {{"redis"}, {"redis", "postgres"}}, NEW scope \in SUBSET Event,
             NEW c \in [Event -> Nat], NEW c2 \in [Event -> Nat],
             Affordable(c, stages, scope),
             Covered([e \in Event |-> Gap(Due(e, stages), c[e])],
                  [e \in Event |-> Gap(Due(e, stages)', c2[e])], scope,
                  Doomed(stages, scope), Doomed(stages, scope)', Bill, Bill')
      PROVE  LET after == UNION {{e} \X (1 .. Gap(Due(e, stages)', c2[e])) : e \in scope} IN
             IsFiniteSet(after) /\ Cardinality(after) + Doomed(stages, scope)' <= Bill'
  <2> DEFINE g == [e \in Event |-> Gap(Due(e, stages), c[e])]
             h == [e \in Event |-> Gap(Due(e, stages)', c2[e])]
  <2>1. g \in [Event -> Nat] /\ h \in [Event -> Nat]
    <3>1. \A e \in Event : Due(e, stages) \in Nat
      BY DueNat
    <3>2. DuesNat'
      BY <1>1, DuesAreNat, PTL
    <3>3. \A e \in Event : Due(e, stages)' \in Nat
      BY <3>2 DEF DuesNat
    <3> QED
      BY <1>4, <3>1, <3>3 DEF Gap
  <2>2. /\ Pairs(g, scope) = Drift(c, stages, scope)
        /\ Pairs(h, scope) = UNION {{e} \X (1 .. Gap(Due(e, stages)', c2[e])) : e \in scope}
    BY DEF Pairs, Drift
  <2>3. IsFiniteSet(Pairs(g, scope)) /\ Cardinality(Pairs(g, scope)) + Doomed(stages, scope) <= Bill
    BY <1>4, <2>2 DEF Affordable
  <2>4. Covered(g, h, scope, Doomed(stages, scope), Doomed(stages, scope)', Bill, Bill')
    BY <1>4
  <2> HIDE DEF g, h
  <2>5. IsFiniteSet(Pairs(h, scope)) /\ Cardinality(Pairs(h, scope)) + Doomed(stages, scope)' <= Bill'
    BY <1>2, <1>3, <2>1, <2>3, <2>4, CoveredKeeps
  <2> QED
    BY <2>2, <2>5
<1>5. RedisStep(total, total') /\ RedisStep(daily, daily')
  <2>1. CASE UpdateRealtimeBudget
    BY <2>1 DEF RedisStep, UpdateRealtimeBudget
  <2>2. CASE ~ UpdateRealtimeBudget /\ UNCHANGED <<total, daily>>
    BY <2>2 DEF RedisStep
  <2>3. ASSUME NEW done \in SUBSET {"total", "daily"}, RedisFails(done) \/ RedisRetries(done)
        PROVE  RedisStep(total, total') /\ RedisStep(daily, daily')
    <3>1. ~ UpdateRealtimeBudget => /\ total' = total \/ total' = Add(total, current)
                                    /\ daily' = daily \/ daily' = Add(daily, current)
      BY <2>3 DEF RedisFails, RedisRetries
    <3> QED
      BY <2>1, <2>3, <3>1 DEF RedisStep
  <2>4. \/ UpdateRealtimeBudget
        \/ \E done \in SUBSET {"total", "daily"} : RedisFails(done) \/ RedisRetries(done)
        \/ UNCHANGED <<total, daily>>
    BY DEF Next, Consume, vars, books,
         PublishFinancialEvent, PublishFails, Write, WriteFails, OrchestrationCrashes, CommitFails,
         UpdateBudgetAndLedger, PostgresRejects, PostgresFails, Shutdown, LoopBreaks,
         Restart, ReadMessage, ConsumerCrashes
  <2> QED
    BY <2>1, <2>2, <2>3, <2>4
<1>6. Affordable(total, {"redis"}, Event)'
  <2>1. Affordable(total, {"redis"}, Event)
    BY DEF DriftInv
  <2>2. Covered([e \in Event |-> Gap(Due(e, {"redis"}), total[e])],
             [e \in Event |-> Gap(Due(e, {"redis"})', total'[e])], Event,
             Doomed({"redis"}, Event), Doomed({"redis"}, Event)', Bill, Bill')
    BY <1>1, <1>2, <1>5, RedisCosts
  <2> QED
    BY <1>2, <1>4, <2>1, <2>2 DEF Affordable, Drift
<1>7. Affordable(daily, {"redis"}, Event)'
  <2>1. Affordable(daily, {"redis"}, Event)
    BY DEF DriftInv
  <2>2. Covered([e \in Event |-> Gap(Due(e, {"redis"}), daily[e])],
             [e \in Event |-> Gap(Due(e, {"redis"})', daily'[e])], Event,
             Doomed({"redis"}, Event), Doomed({"redis"}, Event)', Bill, Bill')
    BY <1>1, <1>2, <1>5, RedisCosts
  <2> QED
    BY <1>2, <1>4, <2>1, <2>2 DEF Affordable, Drift
<1>8. Affordable(booked, {"redis", "postgres"}, Event \ Rejected)'
  <2>1. Affordable(booked, {"redis", "postgres"}, Event \ Rejected)
    BY DEF DriftInv
  <2>2. Covered([e \in Event |-> Gap(Due(e, {"redis", "postgres"}), booked[e])],
             [e \in Event |-> Gap(Due(e, {"redis", "postgres"})', booked'[e])],
             Event \ Rejected, Doomed({"redis", "postgres"}, Event \ Rejected),
             Doomed({"redis", "postgres"}, Event \ Rejected)', Bill, Bill')
    BY <1>1, TablesCost
  <2> QED
    BY <1>2, <1>4, <2>1, <2>2 DEF Affordable, Drift
<1> QED
  BY <1>6, <1>7, <1>8 DEF DriftInv

\* For any number of events, faults, crashes and restarts: each of the counters
\* and the tables is off by no more events than there were faults, a SIGTERM
\* counted twice.
THEOREM DriftBounded == Spec => []FaultsBoundDrift
<1>1. TypeInv /\ DriftInv => FaultsBoundDrift
  <2> SUFFICES ASSUME TypeInv, NEW counter, NEW stages, NEW scope,
                      Affordable(counter, stages, scope)
               PROVE  Cardinality(Drift(counter, stages, scope)) <= faults + sigterms
    BY DEF DriftInv, FaultsBoundDrift
  <2>1. Doomed(stages, scope) \in Nat
    BY DEF Doomed
  <2>2. Cardinality(Drift(counter, stages, scope)) \in Nat
    BY FS_CardinalityType DEF Affordable
  <2>3. Bill \in Int /\ Bill <= faults + sigterms /\ faults \in Nat /\ sigterms \in Nat
    BY MeteringAssumption DEF Bill, TypeInv, TypeOK
  <2> QED
    BY <2>1, <2>2, <2>3 DEF Affordable
<1> QED
  BY <1>1, InitType, TypeStep, BookedInit, BookedStep, DriftInit, DriftStep, PTL DEF Spec
=============================================================================
