---------------------------- MODULE SpendProofs -----------------------------
(***************************************************************************)
(* Theorems about Spend, for any calls, retries, rails and faults.         *)
(***************************************************************************)
EXTENDS Spend, FiniteSetTheorems, TLAPS

TypeInv == TypeOK /\ try \in [Call -> Nat]

\* What has become of an attempt's transaction is known from its stage.
StageInv ==
    \A a \in Attempt :
        /\ stage[a] \in {"none", "sent", "badrequest"} => status[a] = "new"
        /\ stage[a] = "saga" <=> status[a] = "open"
        /\ stage[a] \in {"none", "sent", "saga", "storing"} => reply[a] = NoTx
        /\ stage[a] = "storing" => status[a] = "executed"
        /\ stage[a] = "replied" =>
               \/ reply[a] = a
               \/ reply[a] # NoTx /\ status[a] = "new"
               \/ reply[a] = NoTx /\ status[a] = "failed"

\* Rails that report what they did are charged once at most, and an executed
\* transaction that they were paid for names the rail.
MoneyInv ==
    \A a \in Attempt :
        /\ status[a] \in {"new", "failed"} => ~ Paid(a)
        /\ \A r \in Rail \ UnsureRails : charges[a][r] \in {0, 1}
        /\ status[a] = "executed" /\ Paid(a) => charges[a][provider[a]] = 1

\* b can answer a request of a, if its transaction is executed in outcomes.
Answers(a, b, outcomes) ==
    /\ KeyOfAttempt(b) = KeyOfAttempt(a)
    /\ KeyOfAttempt(a) = NoKey => b = a
    /\ outcomes[b] = "executed"

AnswerInv ==
    /\ \A k \in Key : cache[k] # NoTx =>
           KeyOfAttempt(cache[k]) = k /\ status[cache[k]] = "executed"
    /\ \A a \in Attempt : reply[a] # NoTx => Answers(a, reply[a], status)
    /\ \A c \in Call : result[c] # NoTx =>
           /\ KeyOfAttempt(result[c]) = KeyOf[c]
           /\ KeyOf[c] = NoKey => result[c][1] = c
           /\ status[result[c]] = "executed"

Active(a) == stage[a] \in {"sent", "saga", "storing"}

\* The client waits for a, has its answer, failed to parse it or has given a
\* up, or a's handler is dead.
Awaited(a) ==
    \/ phase[a[1]] = "waiting" /\ a = Current(a[1])
    \/ result[a[1]] = a
    \/ phase[a[1]] = "unparsed" /\ a = Current(a[1]) /\ reply[a] = a
    \/ a \in lost
    \/ stage[a] = "dead"

ClientInv ==
    /\ \A c \in Call : phase[c] \in {"idle", "waiting", "unparsed"} => result[c] = NoTx
    /\ \A a \in Attempt : stage[a] # "none" => phase[a[1]] # "idle" /\ a[2] <= try[a[1]]
    /\ \A a \in Attempt : Active(a) \/ Paid(a) => Awaited(a)

\* A handler that dies in a panic has paid nothing for certain.
DeathInv == \A a \in Attempt : stage[a] = "dead" /\ Paid(a) => crashes > 0

LEMMA RetriesNat == \A c \in Call : Retries(c) \in Nat
BY SpendAssumption DEF Retries

LEMMA AttemptIs ==
    /\ \A a \in Attempt : a[1] \in Call /\ a[2] \in 0 .. Retries(a[1]) /\ a = <<a[1], a[2]>>
    /\ \A c \in Call : \A i \in 0 .. Retries(c) : <<c, i>> \in Attempt
<1>1. ASSUME NEW a \in Attempt
      PROVE  a[1] \in Call /\ a[2] \in 0 .. Retries(a[1]) /\ a = <<a[1], a[2]>>
  <2>1. PICK c \in Call : a \in {c} \X (0 .. Retries(c))
    BY DEF Attempt
  <2> QED
    BY <2>1
<1>2. ASSUME NEW c \in Call, NEW i \in 0 .. Retries(c) PROVE <<c, i>> \in Attempt
  <2>1. <<c, i>> \in {c} \X (0 .. Retries(c))
    OBVIOUS
  <2> QED
    BY <2>1 DEF Attempt
<1> QED
  BY <1>1, <1>2

LEMMA CurrentIs ==
    ASSUME TypeOK, NEW c \in Call
    PROVE  /\ Current(c) \in Attempt /\ Current(c)[1] = c /\ Current(c)[2] = try[c]
           /\ try[c] \in 0 .. Retries(c) /\ Retries(c) \in Nat
           /\ try[c] < Retries(c) => <<c, try[c] + 1>> \in Attempt
<1>1. try[c] \in 0 .. Retries(c) /\ Retries(c) \in Nat
  BY RetriesNat DEF TypeOK
<1>2. try[c] < Retries(c) => try[c] + 1 \in 0 .. Retries(c)
  BY <1>1
<1> QED
  BY <1>1, <1>2, AttemptIs DEF Current

LEMMA KeyOfAttemptIs == \A a \in Attempt : KeyOfAttempt(a) = KeyOf[a[1]]
BY DEF KeyOfAttempt

LEMMA AtMostOne ==
    ASSUME NEW S, \A a, b \in S : a = b
    PROVE  Cardinality(S) <= 1
<1>1. CASE S = {}
  BY <1>1, FS_EmptySet
<1>2. CASE S # {}
  <2>1. PICK a \in S : TRUE
    BY <1>2
  <2>2. S = {a} /\ Cardinality({a}) = 1
    BY <2>1, FS_Singleton
  <2>3. Cardinality(S) = 1
    BY <2>2
  <2> QED
    BY <2>3
<1> QED
  BY <1>1, <1>2
-----------------------------------------------------------------------------
(* What steps do to the parts of the state.                                *)

\* The contract of the transactions moves as PaymentContract says.
LEMMA ContractMoves ==
    ASSUME [Next]_vars
    PROVE  \/ UNCHANGED contract
           \/ \E a \in Attempt : Contract!Open(a) \/ Contract!Fail(a) \/ Contract!Abandon(a)
           \/ \E a \in Attempt, r \in Rail : Charge(a, r) \/ Contract!Execute(a, r)
           \/ Contract!Stop
<1>1. CASE \E c \in Call : Begin(c) \/ Client(c) \/ TimesOut(c) \/ GatewayRefuses(c)
  BY <1>1 DEF Begin, Client, Returns, CannotParse, ServerError, ClientError, BadGateway,
              ConnectionReset, TimesOut, TryAgain, GatewayRefuses
<1>2. ASSUME NEW a \in Attempt, Serve(a)
      PROVE  \/ UNCHANGED contract
             \/ Contract!Open(a) \/ Contract!Fail(a)
             \/ \E r \in Rail : Contract!Execute(a, r)
  BY <1>2 DEF Serve, RejectBody, Replay, OpenSaga, Fail, Execute, Respond
<1>3. ASSUME NEW a \in Attempt, Panic(a) PROVE Contract!Abandon(a)
  BY <1>3 DEF Panic
<1>4. CASE (\E a \in Attempt : Disconnect(a)) \/ (\E k \in Key : Expire(k)) \/ UNCHANGED vars
  BY <1>4 DEF Disconnect, Expire, vars
<1>5. CASE Crash
  BY <1>5 DEF Crash
<1> QED
  BY <1>1, <1>2, <1>3, <1>4, <1>5 DEF Next

\* Whatever happens, an executed transaction stays as it is, and a
\* certain payment is made in a saga only.
LEMMA ContractKeeps ==
    ASSUME TypeOK, MoneyInv, [Next]_vars
    PROVE  /\ MoneyInv'
           /\ \A a \in Attempt : status[a] = "executed" =>
                  status'[a] = "executed" /\ Paid(a)' = Paid(a)
           /\ \A a \in Attempt : Paid(a)' => Paid(a) \/ status[a] = "open"
<1>0. /\ status \in [Attempt -> {"new", "open", "executed", "failed", "abandoned"}]
      /\ charges \in [Attempt -> [Rail -> 0 .. MaxCharges]] /\ MaxCharges \in Nat
      /\ provider \in [Attempt -> Rail \cup {NoRail}] /\ UnsureRails \subseteq Rail
  BY SpendAssumption DEF TypeOK
<1>1. CASE UNCHANGED contract
  BY <1>1 DEF contract, MoneyInv, Paid
<1>2. ASSUME NEW a \in Attempt, Contract!Open(a) \/ Contract!Fail(a) \/ Contract!Abandon(a)
      PROVE  /\ MoneyInv'
             /\ \A b \in Attempt : status[b] = "executed" =>
                    status'[b] = "executed" /\ Paid(b)' = Paid(b)
             /\ \A b \in Attempt : Paid(b)' => Paid(b) \/ status[b] = "open"
  <2>1. /\ charges' = charges /\ provider' = provider
        /\ \A b \in Attempt \ {a} : status'[b] = status[b]
        /\ status[a] \in {"new", "open"} /\ status'[a] \in {"open", "failed", "abandoned"}
        /\ status'[a] = "failed" => \A r \in Rail \ UnsureRails : charges[a][r] = 0
    BY <1>0, <1>2 DEF Contract!Open, Contract!Fail, Contract!Abandon, Contract!NothingCertain
  <2>2. \A b \in Attempt : Paid(b)' = Paid(b)
    BY <2>1 DEF Paid
  <2>3. status'[a] = "failed" => ~ Paid(a)
    BY <1>0, <2>1 DEF Paid
  <2> QED
    BY <2>1, <2>2, <2>3 DEF MoneyInv
<1>3. ASSUME NEW a \in Attempt, NEW r \in Rail, Charge(a, r)
      PROVE  /\ MoneyInv'
             /\ \A b \in Attempt : status[b] = "executed" =>
                    status'[b] = "executed" /\ Paid(b)' = Paid(b)
             /\ \A b \in Attempt : Paid(b)' => Paid(b) \/ status[b] = "open"
  <2>1. /\ status' = status /\ provider' = provider /\ status[a] = "open"
        /\ charges' = [charges EXCEPT ![a][r] = @ + 1]
        /\ \A q \in Rail \ UnsureRails : charges[a][q] = 0
    BY <1>3 DEF Charge, Contract!Charge, Contract!NothingCertain
  <2>2. /\ \A b \in Attempt \ {a} : charges'[b] = charges[b]
        /\ \A q \in Rail \ UnsureRails : charges'[a][q] \in {0, 1}
    BY <1>0, <2>1
  <2>3. \A b \in Attempt \ {a} : Paid(b)' = Paid(b)
    BY <2>2 DEF Paid
  <2> QED
    BY <2>1, <2>2, <2>3 DEF MoneyInv
<1>4. ASSUME NEW a \in Attempt, NEW r \in Rail, Contract!Execute(a, r)
      PROVE  /\ MoneyInv'
             /\ \A b \in Attempt : status[b] = "executed" =>
                    status'[b] = "executed" /\ Paid(b)' = Paid(b)
             /\ \A b \in Attempt : Paid(b)' => Paid(b) \/ status[b] = "open"
  <2>1. /\ charges' = charges /\ status[a] = "open"
        /\ status' = [status EXCEPT ![a] = "executed"]
        /\ provider' = [provider EXCEPT ![a] = r]
        /\ \A q \in Rail \ (UnsureRails \cup {r}) : charges[a][q] = 0
    BY <1>4 DEF Contract!Execute
  <2>2. \A b \in Attempt : Paid(b)' = Paid(b)
    BY <2>1 DEF Paid
  <2>3. Paid(a) => charges[a][r] = 1
    <3> SUFFICES ASSUME Paid(a) PROVE charges[a][r] = 1
      OBVIOUS
    <3>1. PICK q \in Rail \ UnsureRails : charges[a][q] > 0
      BY DEF Paid
    <3>2. charges[a][q] = 1 /\ q = r
      BY <1>0, <2>1, <3>1 DEF MoneyInv
    <3> QED
      BY <3>2
  <2>4. status'[a] = "executed" /\ provider'[a] = r
    BY <1>0, <2>1
  <2>5. \A b \in Attempt \ {a} : status'[b] = status[b] /\ provider'[b] = provider[b]
    BY <1>0, <2>1
  <2> QED
    BY <2>1, <2>2, <2>3, <2>4, <2>5 DEF MoneyInv
<1>5. CASE Contract!Stop
  <2>1. /\ charges' = charges /\ provider' = provider
        /\ \A b \in Attempt : status'[b] = status[b] \/ (status[b] = "open" /\ status'[b] = "abandoned")
    BY <1>0, <1>5 DEF Contract!Stop
  <2>2. \A b \in Attempt : Paid(b)' = Paid(b)
    BY <2>1 DEF Paid
  <2> QED
    BY <2>1, <2>2 DEF MoneyInv
<1> QED
  BY <1>1, <1>2, <1>3, <1>4, <1>5, ContractMoves

\* The request that c has sent last is over for it.
Over(c) ==
    \/ Current(c) \in lost'
    \/ stage[Current(c)] \in {"badrequest", "dead"}
    \/ stage[Current(c)] = "replied" /\ reply[Current(c)] = NoTx

\* A client sends the first or the next request, ends with an exception,
\* returns the answer or cannot parse it, or is refused by the gateway.
LEMMA ClientMoves ==
    ASSUME TypeInv, ClientInv, NEW c \in Call,
           Begin(c) \/ Client(c) \/ TimesOut(c) \/ GatewayRefuses(c)
    PROVE  /\ UNCHANGED <<gone, reply, store, contract, crashes>>
           /\ lost' = lost \/ lost' = lost \cup {Current(c)}
           /\ phase[c] \in {"idle", "waiting"}
           /\ \E end \in {"waiting"} \cup Ended : phase' = [phase EXCEPT ![c] = end]
           /\ \/ /\ phase[c] = "waiting" => Over(c)
                 /\ phase'[c] = "waiting" /\ UNCHANGED result
                 /\ try' = try \/ try' = [try EXCEPT ![c] = @ + 1]
                 /\ try'[c] \in 0 .. Retries(c) /\ try[c] <= try'[c]
                 /\ stage[<<c, try'[c]>>] = "none"
                 /\ stage' = [stage EXCEPT ![<<c, try'[c]>>] = "sent"]
              \/ /\ phase[c] = "waiting" /\ Over(c)
                 /\ UNCHANGED <<try, stage, result>> /\ phase'[c] \in Ended
              \/ /\ phase[c] = "waiting" /\ stage[Current(c)] = "replied"
                 /\ reply[Current(c)] # NoTx /\ phase'[c] \in Ended
                 /\ UNCHANGED <<try, stage, lost>>
                 /\ \/ phase'[c] = "returned" /\ result' = [result EXCEPT ![c] = reply[Current(c)]]
                    \/ phase'[c] = "unparsed" /\ UNCHANGED result
              \/ /\ phase[c] = "waiting" /\ stage[Current(c)] = "sent" /\ phase'[c] \in Ended
                 /\ stage' = [stage EXCEPT ![Current(c)] = "dead"]
                 /\ UNCHANGED <<try, result, lost>>
<1>0. /\ phase \in [Call -> {"idle", "waiting"} \cup Ended] /\ try \in [Call -> Nat]
      /\ stage \in [Attempt -> Stages] /\ TypeOK
  BY DEF TypeInv, TypeOK
<1>1. /\ Current(c) \in Attempt /\ Current(c)[1] = c /\ Current(c)[2] = try[c]
      /\ try[c] \in 0 .. Retries(c) /\ Retries(c) \in Nat /\ Current(c) = <<c, try[c]>>
      /\ try[c] < Retries(c) => <<c, try[c] + 1>> \in Attempt
  BY <1>0, CurrentIs DEF Current
<1>2. ASSUME NEW exception \in Ended, TryAgain(c, exception), phase[c] = "waiting", Over(c),
             lost' = lost \/ lost' = lost \cup {Current(c)}
      PROVE  /\ UNCHANGED <<result, gone, reply, store, contract, crashes>>
             /\ \E end \in {"waiting"} \cup Ended : phase' = [phase EXCEPT ![c] = end]
             /\ \/ /\ phase'[c] = "waiting" /\ try' = [try EXCEPT ![c] = @ + 1]
                   /\ try'[c] \in 0 .. Retries(c) /\ try[c] <= try'[c]
                   /\ stage[<<c, try'[c]>>] = "none"
                   /\ stage' = [stage EXCEPT ![<<c, try'[c]>>] = "sent"]
                \/ UNCHANGED <<try, stage>> /\ phase'[c] \in Ended
  <2>1. CASE try[c] < Retries(c)
    <3>1. /\ try' = [try EXCEPT ![c] = @ + 1] /\ phase' = phase
          /\ stage' = [stage EXCEPT ![<<c, try[c] + 1>>] = "sent"]
          /\ UNCHANGED <<result, gone, reply, store, contract, crashes>>
      BY <1>2, <2>1 DEF TryAgain
    <3>2. try'[c] = try[c] + 1 /\ try'[c] \in 0 .. Retries(c) /\ try[c] <= try'[c]
      BY <1>0, <1>1, <2>1, <3>1
    <3>3. stage[<<c, try[c] + 1>>] = "none"
      <4>1. <<c, try[c] + 1>> \in Attempt /\ try[c] \in Nat
        BY <1>0, <1>1, <2>1
      <4>2. <<c, try[c] + 1>>[1] = c /\ <<c, try[c] + 1>>[2] = try[c] + 1
        OBVIOUS
      <4> QED
        BY <4>1, <4>2 DEF ClientInv
    <3>4. phase' = [phase EXCEPT ![c] = "waiting"]
      BY <1>0, <1>2, <3>1
    <3> QED
      BY <1>0, <1>2, <3>1, <3>2, <3>3, <3>4
  <2>2. CASE ~ (try[c] < Retries(c))
    BY <1>0, <1>2, <2>2 DEF TryAgain
  <2> QED
    BY <2>1, <2>2
<1>3. {"railfailure", "error", "refused", "returned", "unparsed"} \subseteq Ended
  BY DEF Ended
<1>4. CASE Begin(c)
  <2>1. /\ phase[c] = "idle" /\ phase' = [phase EXCEPT ![c] = "waiting"]
        /\ stage' = [stage EXCEPT ![<<c, try[c]>>] = "sent"]
        /\ UNCHANGED <<try, result, lost, gone, reply, store, contract, crashes>>
    BY <1>1, <1>4 DEF Begin
  <2>2. stage[<<c, try[c]>>] = "none"
    BY <1>1, <2>1 DEF ClientInv
  <2>3. phase'[c] = "waiting" /\ \E end \in {"waiting"} \cup Ended : phase' = [phase EXCEPT ![c] = end]
    BY <1>0, <2>1
  <2>4. phase[c] # "waiting" /\ phase[c] \in {"idle", "waiting"} /\ try'[c] = try[c] /\ try[c] <= try[c]
    BY <1>0, <2>1
  <2>5. try'[c] \in 0 .. Retries(c) /\ try[c] <= try'[c]
    BY <1>1, <2>1, <2>4
  <2>6. stage[<<c, try'[c]>>] = "none" /\ stage' = [stage EXCEPT ![<<c, try'[c]>>] = "sent"]
    BY <2>1, <2>2, <2>4
  <2> QED
    BY <2>1, <2>3, <2>4, <2>5, <2>6
<1>5. CASE Returns(c) \/ CannotParse(c)
  BY <1>0, <1>3, <1>5 DEF Returns, CannotParse, handler
<1>6. CASE \/ ServerError(c) \/ ClientError(c) \/ BadGateway(c)
           \/ ConnectionReset(c) \/ TimesOut(c)
  <2>1. \E exception \in Ended : TryAgain(c, exception)
    BY <1>3, <1>6 DEF ServerError, ClientError, BadGateway, ConnectionReset, TimesOut
  <2>2. phase[c] = "waiting" /\ Over(c) /\ (lost' = lost \/ lost' = lost \cup {Current(c)})
    BY <1>6 DEF ServerError, ClientError, BadGateway, ConnectionReset, TimesOut, Over
  <2> QED
    BY <1>2, <2>1, <2>2
<1>7. CASE GatewayRefuses(c)
  BY <1>0, <1>3, <1>7 DEF GatewayRefuses
<1> QED
  BY <1>4, <1>5, <1>6, <1>7 DEF Client

\* The handlers and what is around them leave the clients alone, and move
\* an attempt from stage to stage.
LEMMA ServerMoves ==
    ASSUME TypeOK, StageInv,
           \/ \E a \in Attempt : \/ Serve(a) \/ Panic(a) \/ Disconnect(a)
                                 \/ \E r \in Rail : Charge(a, r)
           \/ \E k \in Key : Expire(k)
           \/ Crash \/ UNCHANGED vars
    PROVE  /\ UNCHANGED client
           /\ stage' \in [Attempt -> Stages]
           /\ \A b \in Attempt : /\ stage[b] = "none" <=> stage'[b] = "none"
                                 /\ Active(b)' => Active(b)
                                 /\ stage'[b] # stage[b] => Active(b)
<1>0. stage \in [Attempt -> Stages]
  BY DEF TypeOK
<1>1. CASE stage' = stage /\ UNCHANGED client
  BY <1>0, <1>1 DEF Active
<1>2. ASSUME NEW a \in Attempt, UNCHANGED client, NEW next \in Stages \ {"none", "sent"},
             Active(a), stage' = [stage EXCEPT ![a] = next]
      PROVE  /\ UNCHANGED client
             /\ stage' \in [Attempt -> Stages]
             /\ \A b \in Attempt : /\ stage[b] = "none" <=> stage'[b] = "none"
                                   /\ Active(b)' => Active(b)
                                   /\ stage'[b] # stage[b] => Active(b)
  BY <1>0, <1>2 DEF Active
<1>3. ASSUME NEW a \in Attempt, Serve(a) \/ Panic(a)
      PROVE  /\ UNCHANGED client /\ Active(a)
             /\ \E next \in Stages \ {"none", "sent"} : stage' = [stage EXCEPT ![a] = next]
  <2>1. status[a] = "open" => Active(a)
    BY DEF StageInv, Active
  <2>2. {"saga", "storing", "replied", "badrequest", "dead"} \subseteq Stages \ {"none", "sent"}
    BY DEF Stages
  <2> QED
    BY <1>3, <2>1, <2>2
       DEF Serve, RejectBody, Replay, OpenSaga, Fail, Execute, Respond, Panic, Active,
           Contract!Fail, Contract!Execute, Contract!Abandon
<1>4. ASSUME NEW a \in Attempt, Disconnect(a) \/ \E r \in Rail : Charge(a, r)
      PROVE  stage' = stage /\ UNCHANGED client
  BY <1>4 DEF Disconnect, Charge, handler
<1>5. CASE (\E k \in Key : Expire(k)) \/ UNCHANGED vars
  BY <1>1, <1>5 DEF Expire, handler, vars
<1>6. CASE Crash
  <2>1. /\ UNCHANGED client
        /\ stage' = [a \in Attempt |->
              IF stage[a] \in {"sent", "saga", "storing"} THEN "dead" ELSE stage[a]]
    BY <1>6 DEF Crash
  <2>2. "dead" \in Stages
    BY DEF Stages
  <2> QED
    BY <1>0, <2>1, <2>2 DEF Active
<1> QED
  BY <1>1, <1>2, <1>3, <1>4, <1>5, <1>6
-----------------------------------------------------------------------------
(* Each step keeps each part of the invariant.                             *)

LEMMA ContractTypeStep ==
    ASSUME TypeOK, [Next]_vars
    PROVE  /\ status' \in [Attempt -> {"new", "open", "executed", "failed", "abandoned"}]
           /\ charges' \in [Attempt -> [Rail -> 0 .. MaxCharges]]
           /\ provider' \in [Attempt -> Rail \cup {NoRail}]
           /\ billing' \in [Attempt -> {"none", "sent", "published", "dropped"}]
<1>0. /\ status \in [Attempt -> {"new", "open", "executed", "failed", "abandoned"}]
      /\ charges \in [Attempt -> [Rail -> 0 .. MaxCharges]] /\ MaxCharges \in Nat
      /\ provider \in [Attempt -> Rail \cup {NoRail}]
      /\ billing \in [Attempt -> {"none", "sent", "published", "dropped"}]
  BY SpendAssumption DEF TypeOK
<1>1. CASE UNCHANGED contract
  BY <1>0, <1>1 DEF contract
<1>2. CASE \E a \in Attempt : Contract!Open(a) \/ Contract!Fail(a) \/ Contract!Abandon(a)
  BY <1>0, <1>2 DEF Contract!Open, Contract!Fail, Contract!Abandon
<1>3. ASSUME NEW a \in Attempt, NEW r \in Rail, Charge(a, r)
      PROVE  charges' \in [Attempt -> [Rail -> 0 .. MaxCharges]] /\ UNCHANGED <<status, provider, billing>>
  <2>1. /\ charges[a][r] < MaxCharges /\ charges' = [charges EXCEPT ![a][r] = @ + 1]
        /\ UNCHANGED <<status, provider, billing>>
    BY <1>3 DEF Charge, Contract!Charge
  <2>2. charges[a] \in [Rail -> 0 .. MaxCharges] /\ charges[a][r] + 1 \in 0 .. MaxCharges
    BY <1>0, <2>1
  <2>3. [charges[a] EXCEPT ![r] = @ + 1] \in [Rail -> 0 .. MaxCharges]
    BY <2>2
  <2>4. charges' = [charges EXCEPT ![a] = [charges[a] EXCEPT ![r] = @ + 1]]
    BY <1>0, <2>1
  <2> QED
    BY <1>0, <2>1, <2>3, <2>4
<1>4. CASE \E a \in Attempt, r \in Rail : Contract!Execute(a, r)
  BY <1>0, <1>4 DEF Contract!Execute
<1>5. CASE Contract!Stop
  BY <1>0, <1>5 DEF Contract!Stop
<1> QED
  BY <1>0, <1>1, <1>2, <1>3, <1>4, <1>5, ContractMoves

\* Which part of the system a step belongs to.
LEMMA WhoMoves ==
    ASSUME [Next]_vars
    PROVE  \/ \E c \in Call : Begin(c) \/ Client(c) \/ TimesOut(c) \/ GatewayRefuses(c)
           \/ \E a \in Attempt : \/ Serve(a) \/ Panic(a) \/ Disconnect(a)
                                 \/ \E r \in Rail : Charge(a, r)
           \/ \E k \in Key : Expire(k)
           \/ Crash \/ UNCHANGED vars
BY DEF Next

\* What a server's step does to replies, to the cache and to the rest.
LEMMA StoreMoves ==
    ASSUME TypeOK,
           \/ \E a \in Attempt : \/ Serve(a) \/ Panic(a) \/ Disconnect(a)
                                 \/ \E r \in Rail : Charge(a, r)
           \/ \E k \in Key : Expire(k)
           \/ Crash \/ UNCHANGED vars
    PROVE  /\ gone' \subseteq Attempt /\ expired' \subseteq Attempt
           /\ crashes' \in 0 .. MaxCrashes
           /\ \/ UNCHANGED <<reply, cache>>
              \/ \E k \in Key : reply' = reply /\ cache' = [cache EXCEPT ![k] = NoTx]
              \/ \E a \in Attempt :
                     /\ stage[a] = "sent" /\ KeyOfAttempt(a) # NoKey
                     /\ cache' = cache /\ cache[KeyOfAttempt(a)] # NoTx
                     /\ reply' = [reply EXCEPT ![a] = cache[KeyOfAttempt(a)]]
              \/ \E a \in Attempt :
                     /\ stage[a] = "storing" /\ reply' = [reply EXCEPT ![a] = a]
                     /\ \/ cache' = cache
                        \/ KeyOfAttempt(a) # NoKey /\ cache' = [cache EXCEPT ![KeyOfAttempt(a)] = a]
<1>0. gone \subseteq Attempt /\ expired \subseteq Attempt /\ crashes \in 0 .. MaxCrashes /\ MaxCrashes \in Nat
  BY SpendAssumption DEF TypeOK
<1>1. ASSUME NEW a \in Attempt, Replay(a)
      PROVE  /\ UNCHANGED <<gone, expired, crashes>>
             /\ stage[a] = "sent" /\ KeyOfAttempt(a) # NoKey
             /\ cache' = cache /\ cache[KeyOfAttempt(a)] # NoTx
             /\ reply' = [reply EXCEPT ![a] = cache[KeyOfAttempt(a)]]
  BY <1>1 DEF Replay, store
<1>2. ASSUME NEW a \in Attempt, NEW saved \in BOOLEAN, Respond(a, saved)
      PROVE  /\ UNCHANGED <<gone, expired, crashes>>
             /\ stage[a] = "storing" /\ reply' = [reply EXCEPT ![a] = a]
             /\ \/ cache' = cache
                \/ KeyOfAttempt(a) # NoKey /\ cache' = [cache EXCEPT ![KeyOfAttempt(a)] = a]
  BY <1>2 DEF Respond
<1>3. ASSUME NEW a \in Attempt,
             \/ RejectBody(a) \/ OpenSaga(a) \/ Fail(a) \/ Panic(a)
             \/ \E r \in Rail : Execute(a, r) \/ Charge(a, r)
      PROVE  UNCHANGED <<gone, expired, crashes, reply, cache>>
  BY <1>3 DEF RejectBody, OpenSaga, Fail, Panic, Execute, Charge, store, handler
<1>4. ASSUME NEW a \in Attempt, Disconnect(a)
      PROVE  gone' \subseteq Attempt /\ UNCHANGED <<expired, crashes, reply, cache>>
  BY <1>0, <1>4 DEF Disconnect, store
<1>5. ASSUME NEW k \in Key, Expire(k)
      PROVE  /\ expired' \subseteq Attempt /\ UNCHANGED <<gone, crashes, reply>>
             /\ cache' = [cache EXCEPT ![k] = NoTx]
  BY <1>0, <1>5 DEF Expire, handler, AttemptsOf
<1>6. CASE Crash
  BY <1>0, <1>6 DEF Crash, store
<1>7. CASE UNCHANGED vars
  BY <1>0, <1>7 DEF vars, handler, store
<1> QED
  BY <1>0, <1>1, <1>2, <1>3, <1>4, <1>5, <1>6, <1>7 DEF Serve

LEMMA TypeStep ==
    ASSUME TypeInv, StageInv, ClientInv, [Next]_vars
    PROVE  TypeInv'
<1>0. /\ TypeOK /\ try \in [Call -> Nat]
      /\ phase \in [Call -> {"idle", "waiting"} \cup Ended]
      /\ \A c \in Call : try[c] \in 0 .. Retries(c)
      /\ result \in [Call -> Attempt \cup {NoTx}] /\ lost \subseteq Attempt
      /\ stage \in [Attempt -> Stages]
      /\ reply \in [Attempt -> Attempt \cup {NoTx}] /\ cache \in [Key -> Attempt \cup {NoTx}]
  BY DEF TypeInv, TypeOK
<1>1. /\ status' \in [Attempt -> {"new", "open", "executed", "failed", "abandoned"}]
      /\ charges' \in [Attempt -> [Rail -> 0 .. MaxCharges]]
      /\ provider' \in [Attempt -> Rail \cup {NoRail}]
      /\ billing' \in [Attempt -> {"none", "sent", "published", "dropped"}]
  BY <1>0, ContractTypeStep
<1>2. ASSUME NEW c \in Call, Begin(c) \/ Client(c) \/ TimesOut(c) \/ GatewayRefuses(c)
      PROVE  TypeInv'
  <2>1. /\ UNCHANGED <<gone, reply, cache, expired, crashes>>
        /\ lost' = lost \/ lost' = lost \cup {Current(c)}
        /\ \E end \in {"waiting"} \cup Ended : phase' = [phase EXCEPT ![c] = end]
    BY <1>2, ClientMoves DEF store
  <2>2. Current(c) \in Attempt
    BY <1>0, CurrentIs
  <2>3. try' \in [Call -> Nat] /\ \A d \in Call : try'[d] \in 0 .. Retries(d)
    <3>1. try' = try \/ (try' = [try EXCEPT ![c] = @ + 1] /\ try'[c] \in 0 .. Retries(c))
      BY <1>2, ClientMoves
    <3> QED
      BY <1>0, <3>1
  <2>4. stage' \in [Attempt -> Stages]
    <3>1. \/ stage' = stage
          \/ \E a \in Attempt, next \in {"sent", "dead"} : stage' = [stage EXCEPT ![a] = next]
      <4>1. try'[c] \in 0 .. Retries(c) => <<c, try'[c]>> \in Attempt
        BY AttemptIs
      <4> QED
        BY <1>2, <2>2, <4>1, ClientMoves
    <3> QED
      BY <1>0, <3>1 DEF Stages
  <2>5. result' \in [Call -> Attempt \cup {NoTx}]
    <3>1. result' = result \/ result' = [result EXCEPT ![c] = reply[Current(c)]]
      BY <1>2, ClientMoves
    <3> QED
      BY <1>0, <2>2, <3>1
  <2>6. phase' \in [Call -> {"idle", "waiting"} \cup Ended]
    BY <1>0, <2>1
  <2> QED
    BY <1>0, <1>1, <2>1, <2>2, <2>3, <2>4, <2>5, <2>6 DEF TypeInv, TypeOK
<1>3. ASSUME \/ \E a \in Attempt : \/ Serve(a) \/ Panic(a) \/ Disconnect(a)
                                   \/ \E r \in Rail : Charge(a, r)
             \/ \E k \in Key : Expire(k)
             \/ Crash \/ UNCHANGED vars
      PROVE  TypeInv'
  <2>1. UNCHANGED <<phase, try, result, lost>> /\ stage' \in [Attempt -> Stages]
    BY <1>0, <1>3, ServerMoves DEF client
  <2>2. gone' \subseteq Attempt /\ expired' \subseteq Attempt /\ crashes' \in 0 .. MaxCrashes
    BY <1>0, <1>3, StoreMoves
  <2>3. reply' \in [Attempt -> Attempt \cup {NoTx}] /\ cache' \in [Key -> Attempt \cup {NoTx}]
    <3>1. \A a \in Attempt : KeyOfAttempt(a) # NoKey => KeyOfAttempt(a) \in Key
      BY AttemptIs, SpendAssumption DEF KeyOfAttempt
    <3>2. \/ UNCHANGED <<reply, cache>>
          \/ \E k \in Key : reply' = reply /\ cache' = [cache EXCEPT ![k] = NoTx]
          \/ \E a \in Attempt :
                 /\ KeyOfAttempt(a) # NoKey /\ cache' = cache
                 /\ reply' = [reply EXCEPT ![a] = cache[KeyOfAttempt(a)]]
          \/ \E a \in Attempt :
                 /\ reply' = [reply EXCEPT ![a] = a]
                 /\ \/ cache' = cache
                    \/ KeyOfAttempt(a) # NoKey /\ cache' = [cache EXCEPT ![KeyOfAttempt(a)] = a]
      BY <1>0, <1>3, StoreMoves
    <3> QED
      BY <1>0, <3>1, <3>2
  <2> QED
    BY <1>0, <1>1, <2>1, <2>2, <2>3 DEF TypeInv, TypeOK
<1> QED
  BY <1>2, <1>3, WhoMoves

LEMMA StageStep ==
    ASSUME TypeInv, StageInv, ClientInv, [Next]_vars
    PROVE  StageInv'
<1>0. /\ TypeOK /\ stage \in [Attempt -> Stages]
      /\ status \in [Attempt -> {"new", "open", "executed", "failed", "abandoned"}]
      /\ reply \in [Attempt -> Attempt \cup {NoTx}]
  BY DEF TypeInv, TypeOK
<1>1. ASSUME NEW c \in Call, Begin(c) \/ Client(c) \/ TimesOut(c) \/ GatewayRefuses(c)
      PROVE  StageInv'
  <2>1. status' = status /\ reply' = reply
    BY <1>1, ClientMoves DEF contract
  <2>2. \/ stage' = stage
        \/ \E a \in Attempt : stage[a] = "none" /\ stage' = [stage EXCEPT ![a] = "sent"]
        \/ \E a \in Attempt : stage[a] = "sent" /\ stage' = [stage EXCEPT ![a] = "dead"]
    <3>1. Current(c) \in Attempt /\ (try'[c] \in 0 .. Retries(c) => <<c, try'[c]>> \in Attempt)
      BY <1>0, AttemptIs, CurrentIs
    <3> QED
      BY <1>1, <3>1, ClientMoves
  <2> QED
    BY <1>0, <2>1, <2>2 DEF StageInv
<1>2. ASSUME NEW a \in Attempt, RejectBody(a) PROVE StageInv'
  BY <1>0, <1>2 DEF RejectBody, contract, StageInv
<1>3. ASSUME NEW a \in Attempt, Replay(a) PROVE StageInv'
  <2>1. /\ stage[a] = "sent" /\ cache[KeyOfAttempt(a)] # NoTx
        /\ stage' = [stage EXCEPT ![a] = "replied"]
        /\ reply' = [reply EXCEPT ![a] = cache[KeyOfAttempt(a)]]
        /\ status' = status
    BY <1>3 DEF Replay, contract
  <2> QED
    BY <1>0, <2>1 DEF StageInv
<1>4. ASSUME NEW a \in Attempt, OpenSaga(a) PROVE StageInv'
  BY <1>0, <1>4 DEF OpenSaga, Contract!Open, StageInv
<1>5. ASSUME NEW a \in Attempt, NEW r \in Rail, Charge(a, r) \/ Execute(a, r) PROVE StageInv'
  BY <1>0, <1>5 DEF Charge, Execute, Contract!Charge, Contract!Execute, handler, StageInv
<1>6. ASSUME NEW a \in Attempt, Fail(a) PROVE StageInv'
  <2>1. /\ status[a] = "open" /\ status' = [status EXCEPT ![a] = "failed"]
        /\ stage' = [stage EXCEPT ![a] = "replied"] /\ reply' = reply
    BY <1>6 DEF Fail, Contract!Fail
  <2>2. reply[a] = NoTx
    BY <2>1 DEF StageInv
  <2> QED
    BY <1>0, <2>1, <2>2 DEF StageInv
<1>7. ASSUME NEW a \in Attempt, Panic(a) PROVE StageInv'
  BY <1>0, <1>7 DEF Panic, Contract!Abandon, StageInv
<1>8. ASSUME NEW a \in Attempt, NEW saved \in BOOLEAN, Respond(a, saved) PROVE StageInv'
  BY <1>0, <1>8 DEF Respond, contract, StageInv
<1>9. ASSUME NEW a \in Attempt, Disconnect(a) PROVE StageInv'
  BY <1>0, <1>9 DEF Disconnect, contract, StageInv
<1>10. ASSUME NEW k \in Key, Expire(k) PROVE StageInv'
  BY <1>0, <1>10 DEF Expire, contract, handler, StageInv
<1>11. CASE Crash
  BY <1>0, <1>11 DEF Crash, Contract!Stop, StageInv
<1>12. CASE UNCHANGED vars
  BY <1>0, <1>12 DEF vars, contract, handler, StageInv
<1> QED
  BY <1>1, <1>2, <1>3, <1>4, <1>5, <1>6, <1>7, <1>8, <1>9, <1>10, <1>11, <1>12 DEF Next, Serve

LEMMA AnswerStep ==
    ASSUME TypeInv, StageInv, MoneyInv, AnswerInv, ClientInv, [Next]_vars
    PROVE  AnswerInv'
<1>0. /\ TypeOK /\ reply \in [Attempt -> Attempt \cup {NoTx}]
      /\ cache \in [Key -> Attempt \cup {NoTx}] /\ result \in [Call -> Attempt \cup {NoTx}]
      /\ NoTx \notin Attempt
  BY NoTxAssumption DEF TypeInv, TypeOK
<1>1. \A a \in Attempt : status[a] = "executed" => status'[a] = "executed"
  BY <1>0, ContractKeeps
<1>2. \A a, b \in Attempt : Answers(a, b, status) => Answers(a, b, status')
  BY <1>1 DEF Answers, KeyOfAttempt
<1>3. ASSUME NEW c \in Call, Begin(c) \/ Client(c) \/ TimesOut(c) \/ GatewayRefuses(c)
      PROVE  AnswerInv'
  <2>1. /\ reply' = reply /\ cache' = cache
        /\ \/ result' = result
           \/ reply[Current(c)] # NoTx /\ result' = [result EXCEPT ![c] = reply[Current(c)]]
    BY <1>3, ClientMoves DEF store
  <2>2. Current(c) \in Attempt /\ Current(c)[1] = c
    BY <1>0, CurrentIs
  <2>3. reply[Current(c)] # NoTx =>
            /\ KeyOfAttempt(reply[Current(c)]) = KeyOf[c]
            /\ KeyOf[c] = NoKey => reply[Current(c)][1] = c
            /\ status'[reply[Current(c)]] = "executed"
    BY <1>0, <1>1, <2>2 DEF AnswerInv, Answers, KeyOfAttempt
  <2>4. \A d \in Call : result'[d] # NoTx =>
            /\ KeyOfAttempt(result'[d]) = KeyOf[d]
            /\ KeyOf[d] = NoKey => result'[d][1] = d
            /\ status'[result'[d]] = "executed"
    BY <1>0, <1>1, <2>1, <2>3 DEF AnswerInv
  <2>5. \A k \in Key : cache'[k] # NoTx =>
            KeyOfAttempt(cache'[k]) = k /\ status'[cache'[k]] = "executed"
    BY <1>0, <1>1, <2>1 DEF AnswerInv
  <2>6. \A a \in Attempt : reply'[a] # NoTx => Answers(a, reply'[a], status')
    BY <1>0, <1>2, <2>1 DEF AnswerInv
  <2> QED
    BY <2>4, <2>5, <2>6 DEF AnswerInv, KeyOfAttempt, Answers
<1>4. ASSUME \/ \E a \in Attempt : \/ Serve(a) \/ Panic(a) \/ Disconnect(a)
                                   \/ \E r \in Rail : Charge(a, r)
             \/ \E k \in Key : Expire(k)
             \/ Crash \/ UNCHANGED vars
      PROVE  AnswerInv'
  <2>1. result' = result
    BY <1>0, <1>4, ServerMoves DEF client
  <2>2. \A d \in Call : result'[d] # NoTx =>
            /\ KeyOfAttempt(result'[d]) = KeyOf[d]
            /\ KeyOf[d] = NoKey => result'[d][1] = d
            /\ status'[result'[d]] = "executed"
    BY <1>0, <1>1, <2>1 DEF AnswerInv
  <2>3. \A k \in Key : cache[k] # NoTx =>
            KeyOfAttempt(cache[k]) = k /\ status'[cache[k]] = "executed"
    BY <1>0, <1>1 DEF AnswerInv
  <2>4. \A a \in Attempt : reply[a] # NoTx => Answers(a, reply[a], status')
    BY <1>0, <1>2 DEF AnswerInv
  <2>5. CASE UNCHANGED <<reply, cache>>
    BY <2>2, <2>3, <2>4, <2>5 DEF AnswerInv, KeyOfAttempt, Answers
  <2>6. ASSUME NEW k \in Key, reply' = reply, cache' = [cache EXCEPT ![k] = NoTx]
        PROVE  AnswerInv'
    <3>1. \A l \in Key : cache'[l] # NoTx =>
              KeyOfAttempt(cache'[l]) = l /\ status'[cache'[l]] = "executed"
      BY <1>0, <2>3, <2>6
    <3> QED
      BY <2>2, <2>4, <2>6, <3>1 DEF AnswerInv, KeyOfAttempt, Answers
  <2>7. ASSUME NEW a \in Attempt, KeyOfAttempt(a) # NoKey, cache' = cache,
               cache[KeyOfAttempt(a)] # NoTx, reply' = [reply EXCEPT ![a] = cache[KeyOfAttempt(a)]]
        PROVE  AnswerInv'
    <3>1. KeyOfAttempt(a) \in Key
      BY <2>7, AttemptIs, SpendAssumption DEF KeyOfAttempt
    <3>2. Answers(a, cache[KeyOfAttempt(a)], status')
      BY <2>3, <2>7, <3>1 DEF Answers, KeyOfAttempt
    <3>3. \A b \in Attempt : reply'[b] = reply[b] \/ (b = a /\ reply'[b] = cache[KeyOfAttempt(a)])
      BY <1>0, <2>7
    <3>4. \A b \in Attempt : reply'[b] # NoTx => Answers(b, reply'[b], status')
      BY <2>4, <3>2, <3>3
    <3> QED
      BY <2>2, <2>3, <2>7, <3>4 DEF AnswerInv, KeyOfAttempt, Answers
  <2>8. ASSUME NEW a \in Attempt, stage[a] = "storing", reply' = [reply EXCEPT ![a] = a],
               \/ cache' = cache
               \/ KeyOfAttempt(a) # NoKey /\ cache' = [cache EXCEPT ![KeyOfAttempt(a)] = a]
        PROVE  AnswerInv'
    <3>1. status'[a] = "executed"
      BY <1>1, <2>8 DEF StageInv
    <3>2. Answers(a, a, status')
      BY <3>1 DEF Answers
    <3>3. \A b \in Attempt : reply'[b] = reply[b] \/ (b = a /\ reply'[b] = a)
      BY <1>0, <2>8
    <3>4. \A b \in Attempt : reply'[b] # NoTx => Answers(b, reply'[b], status')
      BY <2>4, <3>2, <3>3
    <3>5. \A k \in Key : cache'[k] = cache[k] \/ (k = KeyOfAttempt(a) /\ cache'[k] = a)
      BY <1>0, <2>8
    <3>6. \A k \in Key : cache'[k] # NoTx =>
              KeyOfAttempt(cache'[k]) = k /\ status'[cache'[k]] = "executed"
      BY <2>3, <3>1, <3>5
    <3> QED
      BY <2>2, <3>4, <3>6 DEF AnswerInv, KeyOfAttempt, Answers
  <2> QED
    BY <1>0, <1>4, <2>5, <2>6, <2>7, <2>8, StoreMoves
<1> QED
  BY <1>3, <1>4, WhoMoves

LEMMA ClientStep ==
    ASSUME TypeInv, StageInv, MoneyInv, ClientInv, [Next]_vars
    PROVE  ClientInv'
<1>0. /\ TypeOK /\ NoTx \notin Attempt
      /\ phase \in [Call -> {"idle", "waiting"} \cup Ended] /\ try \in [Call -> Nat]
      /\ result \in [Call -> Attempt \cup {NoTx}] /\ stage \in [Attempt -> Stages]
  BY NoTxAssumption DEF TypeInv, TypeOK
<1>1. ASSUME NEW c \in Call, Begin(c) \/ Client(c) \/ TimesOut(c) \/ GatewayRefuses(c)
      PROVE  ClientInv'
  <2>1. /\ UNCHANGED <<reply, status, charges>> /\ lost \subseteq lost'
        /\ phase[c] \in {"idle", "waiting"} /\ phase'[c] \in {"waiting"} \cup Ended
        /\ \A d \in Call \ {c} : phase'[d] = phase[d]
    BY <1>0, <1>1, ClientMoves DEF contract
  <2>2. /\ Current(c) \in Attempt /\ Current(c)[1] = c /\ Current(c)[2] = try[c]
        /\ result[c] = NoTx /\ Ended \cap {"idle", "waiting"} = {}
    BY <1>0, <2>1, CurrentIs DEF ClientInv, Ended
  <2>3. \A d \in Call \ {c} : try'[d] = try[d] /\ result'[d] = result[d]
    <3>1. /\ try' = try \/ try' = [try EXCEPT ![c] = @ + 1]
          /\ result' = result \/ result' = [result EXCEPT ![c] = reply[Current(c)]]
      BY <1>1, ClientMoves
    <3> QED
      BY <1>0, <3>1
  <2>4. try[c] <= try'[c] /\ try'[c] \in Nat
    <3>1. try' = try \/ (try[c] <= try'[c] /\ try'[c] \in 0 .. Retries(c))
      BY <1>1, ClientMoves
    <3>2. Retries(c) \in Nat /\ try[c] \in Nat
      BY <1>0, RetriesNat
    <3> QED
      BY <3>1, <3>2
  <2>5. \A a \in Attempt : a[1] \in Call /\ a[2] \in Nat
    BY AttemptIs, RetriesNat
  <2>6. \A a \in Attempt : Paid(a)' <=> Paid(a)
    BY <2>1 DEF Paid
  <2>7. \A a \in Attempt : stage[a] \in {"none", "sent", "badrequest"} => ~ Paid(a)
    BY DEF StageInv, MoneyInv
  <2>0. \A a \in Attempt : stage[a] = "dead" => stage'[a] = "dead"
    <3>1. \/ stage' = stage
          \/ \E a \in Attempt : stage[a] = "none" /\ stage' = [stage EXCEPT ![a] = "sent"]
          \/ \E a \in Attempt : stage' = [stage EXCEPT ![a] = "dead"]
      BY <1>1, <2>2, AttemptIs, ClientMoves
    <3> QED
      BY <1>0, <3>1
  <2>8. \A a \in Attempt : a[1] # c /\ Awaited(a) => Awaited(a)'
    BY <2>0, <2>1, <2>3, <2>5 DEF Awaited, Current
  \* Of c's own requests only the last can still be active or paid, unless given up.
  <2>9. \A a \in Attempt : a[1] = c /\ (Active(a) \/ Paid(a)) =>
            \/ a \in lost \/ stage[a] = "dead"
            \/ phase[c] = "waiting" /\ a = Current(c)
    BY <1>0, <2>1, <2>2 DEF ClientInv, Awaited
  <2>10. Over(c) => \/ Current(c) \in lost' \/ stage[Current(c)] = "dead"
                    \/ ~ (Active(Current(c)) \/ Paid(Current(c)))
    BY <1>0, <2>2, <2>7 DEF Over, StageInv, MoneyInv, Active
  \* What c does with the request it has sent.
  <2>11. CASE /\ phase[c] = "waiting" => Over(c)
              /\ phase'[c] = "waiting" /\ UNCHANGED result
              /\ stage[<<c, try'[c]>>] = "none" /\ try'[c] \in 0 .. Retries(c)
              /\ stage' = [stage EXCEPT ![<<c, try'[c]>>] = "sent"]
    <3> DEFINE next == <<c, try'[c]>>
    <3>1. next \in Attempt /\ next[1] = c /\ next[2] = try'[c]
      BY <2>11, AttemptIs
    <3>2. stage'[next] = "sent" /\ \A a \in Attempt \ {next} : stage'[a] = stage[a]
      BY <1>0, <2>11, <3>1
    <3> HIDE DEF next
    <3>3. \A d \in Call : phase'[d] \in {"idle", "waiting", "unparsed"} => result'[d] = NoTx
      BY <2>1, <2>2, <2>11 DEF ClientInv
    <3>4. \A a \in Attempt : stage'[a] # "none" => phase'[a[1]] # "idle" /\ a[2] <= try'[a[1]]
      BY <1>0, <2>1, <2>3, <2>4, <2>5, <2>11, <3>1, <3>2 DEF ClientInv
    <3>5. ASSUME NEW a \in Attempt, Active(a)' \/ Paid(a)' PROVE Awaited(a)'
      <4>1. CASE a = next
        BY <2>11, <3>1, <4>1 DEF Awaited, Current, next
      <4>2. CASE a # next
        <5>1. Active(a) \/ Paid(a)
          BY <2>6, <3>2, <3>5, <4>2 DEF Active
        <5>2. CASE a[1] # c
          BY <2>8, <5>1, <5>2 DEF ClientInv
        <5>3. CASE a[1] = c
          BY <2>0, <2>1, <2>9, <2>10, <2>11, <5>1, <5>3 DEF Awaited
        <5> QED
          BY <5>2, <5>3
      <4> QED
        BY <4>1, <4>2
    <3> QED
      BY <3>3, <3>4, <3>5 DEF ClientInv
  \* What c does when it ends.
  <2>12. ASSUME UNCHANGED try, phase'[c] \in Ended,
                phase'[c] = "unparsed" => result'[c] = NoTx,
                \A a \in Attempt : stage'[a] # "none" => stage[a] # "none",
                \A a \in Attempt : Active(a)' => Active(a),
                \A a \in Attempt : a = Current(c) /\ (Active(a)' \/ Paid(a)) => Awaited(a)'
         PROVE  ClientInv'
    <3>1. \A d \in Call : phase'[d] \in {"idle", "waiting", "unparsed"} => result'[d] = NoTx
      BY <2>1, <2>2, <2>3, <2>12 DEF ClientInv
    <3>2. \A a \in Attempt : stage'[a] # "none" => phase'[a[1]] # "idle" /\ a[2] <= try'[a[1]]
      BY <2>1, <2>2, <2>5, <2>12 DEF ClientInv
    <3>3. ASSUME NEW a \in Attempt, Active(a)' \/ Paid(a)' PROVE Awaited(a)'
      <4>1. Active(a) \/ Paid(a)
        BY <2>6, <2>12, <3>3
      <4>2. CASE a[1] # c
        BY <2>8, <4>1, <4>2 DEF ClientInv
      <4>3. CASE a[1] = c
        BY <2>0, <2>1, <2>6, <2>9, <2>12, <3>3, <4>1, <4>3 DEF Awaited
      <4> QED
        BY <4>2, <4>3
    <3> QED
      BY <3>1, <3>2, <3>3 DEF ClientInv
  <2>13. CASE /\ phase[c] = "waiting" /\ Over(c)
              /\ UNCHANGED <<try, stage, result>> /\ phase'[c] \in Ended
    <3>1. \A a \in Attempt : Active(a)' = Active(a)
      BY <2>13 DEF Active
    <3>2. \A a \in Attempt : a = Current(c) /\ (Active(a) \/ Paid(a)) => Awaited(a)'
      BY <2>10, <2>13 DEF Awaited
    <3> QED
      BY <2>2, <2>12, <2>13, <3>1, <3>2
  <2>14. CASE /\ phase[c] = "waiting" /\ stage[Current(c)] = "replied"
              /\ reply[Current(c)] # NoTx /\ phase'[c] \in Ended
              /\ UNCHANGED <<try, stage, lost>>
              /\ \/ phase'[c] = "returned" /\ result' = [result EXCEPT ![c] = reply[Current(c)]]
                 \/ phase'[c] = "unparsed" /\ UNCHANGED result
    <3>1. /\ Current(c)' = Current(c)
          /\ result'[c] = reply[Current(c)] \/ (phase'[c] = "unparsed" /\ result'[c] = NoTx)
          /\ phase'[c] = "unparsed" => result'[c] = NoTx
      BY <1>0, <2>2, <2>14 DEF Current
    <3>2. ~ Active(Current(c)) /\ (Paid(Current(c)) => reply[Current(c)] = Current(c))
      BY <1>0, <2>2, <2>14 DEF StageInv, MoneyInv, Active
    <3>3. \A a \in Attempt : a = Current(c) /\ (Active(a)' \/ Paid(a)) => Awaited(a)'
      BY <2>1, <2>2, <2>14, <3>1, <3>2 DEF Active, Awaited
    <3> QED
      BY <2>12, <2>14, <3>1, <3>3 DEF Active
  <2>15. CASE /\ phase[c] = "waiting" /\ stage[Current(c)] = "sent" /\ phase'[c] \in Ended
              /\ stage' = [stage EXCEPT ![Current(c)] = "dead"]
              /\ UNCHANGED <<try, result, lost>>
    <3>1. stage'[Current(c)] = "dead" /\ \A a \in Attempt \ {Current(c)} : stage'[a] = stage[a]
      BY <1>0, <2>2, <2>15
    <3>2. \A a \in Attempt : a = Current(c) => ~ Paid(a) /\ ~ Active(a)'
      BY <2>7, <2>15, <3>1 DEF Active
    <3>3. \A a \in Attempt : Active(a)' => Active(a)
      BY <3>1, <3>2 DEF Active
    <3>4. \A a \in Attempt : stage'[a] # "none" => stage[a] # "none"
      BY <2>15, <3>1
    <3> QED
      BY <2>2, <2>12, <2>15, <3>2, <3>3, <3>4
  <2> QED
    BY <1>1, <2>11, <2>13, <2>14, <2>15, ClientMoves
<1>2. ASSUME \/ \E a \in Attempt : \/ Serve(a) \/ Panic(a) \/ Disconnect(a)
                                   \/ \E r \in Rail : Charge(a, r)
             \/ \E k \in Key : Expire(k)
             \/ Crash \/ UNCHANGED vars
      PROVE  ClientInv'
  <2>1. UNCHANGED <<phase, try, result, lost>>
    BY <1>0, <1>2, ServerMoves DEF client
  <2>2. \A a \in Attempt : (stage[a] = "none" <=> stage'[a] = "none") /\ (Active(a)' => Active(a))
    BY <1>0, <1>2, ServerMoves
  <2>3. \A a \in Attempt : Paid(a)' => Paid(a) \/ Active(a)
    BY <1>0, ContractKeeps DEF StageInv, Active
  <2>4. \A a \in Attempt : stage[a] = "dead" => stage'[a] = "dead"
    BY <1>0, <1>2, ServerMoves DEF Active
  <2>5. \A a \in Attempt : reply[a] = a => reply'[a] = a
    <3>1. \A a \in Attempt : reply[a] = a => stage[a] \notin {"sent", "storing"}
      BY <1>0 DEF StageInv
    <3>2. reply \in [Attempt -> Attempt \cup {NoTx}]
      BY <1>0 DEF TypeOK
    <3>3. \A a \in Attempt : reply'[a] = reply[a] \/ stage[a] \in {"sent", "storing"}
      BY <1>0, <1>2, <3>2, StoreMoves
    <3> QED
      BY <3>1, <3>3
  <2>6. \A a \in Attempt : Awaited(a) => Awaited(a)'
    BY <2>1, <2>4, <2>5 DEF Awaited, Current
  <2> QED
    BY <2>1, <2>2, <2>3, <2>6 DEF ClientInv
<1> QED
  BY <1>1, <1>2, WhoMoves

LEMMA DeathStep ==
    ASSUME TypeInv, StageInv, MoneyInv, ClientInv, DeathInv, [Next]_vars
    PROVE  DeathInv'
<1>0. /\ TypeOK /\ stage \in [Attempt -> Stages] /\ crashes \in Nat
      /\ charges \in [Attempt -> [Rail -> 0 .. MaxCharges]] /\ MaxCharges \in Nat
  BY SpendAssumption DEF TypeInv, TypeOK
<1>1. ASSUME NEW c \in Call, Begin(c) \/ Client(c) \/ TimesOut(c) \/ GatewayRefuses(c)
      PROVE  DeathInv'
  <2>1. charges' = charges /\ crashes' = crashes
    BY <1>1, ClientMoves DEF contract
  <2>2. \A a \in Attempt : Paid(a)' <=> Paid(a)
    BY <2>1 DEF Paid
  <2>3. \A a \in Attempt : stage'[a] = "dead" => stage[a] \in {"sent", "dead"}
    <3>1. Current(c) \in Attempt /\ (try'[c] \in 0 .. Retries(c) => <<c, try'[c]>> \in Attempt)
      BY <1>0, AttemptIs, CurrentIs
    <3> QED
      BY <1>0, <1>1, <3>1, ClientMoves
  <2>4. \A a \in Attempt : stage[a] = "sent" => ~ Paid(a)
    BY DEF StageInv, MoneyInv
  <2> QED
    BY <2>1, <2>2, <2>3, <2>4 DEF DeathInv
<1>2. CASE Crash
  BY <1>0, <1>2 DEF Crash, DeathInv
<1>3. ASSUME NEW a \in Attempt, Panic(a) PROVE DeathInv'
  <2>1. /\ charges' = charges /\ crashes' = crashes
        /\ \A b \in Attempt \ {a} : stage'[b] = stage[b]
        /\ \A r \in Rail \ UnsureRails : charges[a][r] = 0
    BY <1>0, <1>3 DEF Panic, Contract!Abandon, Contract!NothingCertain
  <2>2. ~ Paid(a) /\ \A b \in Attempt : Paid(b)' <=> Paid(b)
    BY <1>0, <2>1 DEF Paid
  <2> QED
    BY <2>1, <2>2 DEF DeathInv
\* Other steps kill no handler, and pay only in sagas.
<1>4. ASSUME crashes' = crashes, \A b \in Attempt : stage'[b] = "dead" => stage[b] = "dead"
      PROVE  DeathInv'
  <2>1. \A b \in Attempt : stage[b] = "dead" => (Paid(b)' => Paid(b))
    BY <1>0, ContractKeeps DEF StageInv
  <2> QED
    BY <1>4, <2>1 DEF DeathInv
<1>5. ASSUME NEW a \in Attempt,
             Serve(a) \/ Disconnect(a) \/ \E r \in Rail : Charge(a, r)
      PROVE  DeathInv'
  <2>1. crashes' = crashes /\ \A b \in Attempt : stage'[b] = "dead" => stage[b] = "dead"
    BY <1>0, <1>5 DEF Serve, RejectBody, Replay, OpenSaga, Fail, Execute, Respond, Disconnect,
                      Charge, handler
  <2> QED
    BY <1>4, <2>1
<1>6. CASE (\E k \in Key : Expire(k)) \/ UNCHANGED vars
  BY <1>4, <1>6 DEF Expire, handler, vars
<1> QED
  BY <1>1, <1>2, <1>3, <1>5, <1>6, WhoMoves
-----------------------------------------------------------------------------
(* The theorems.                                                           *)

Inv == TypeInv /\ StageInv /\ MoneyInv /\ AnswerInv /\ ClientInv /\ DeathInv

LEMMA InvInit == ASSUME Init PROVE Inv
<1>1. \A c \in Call : 0 \in 0 .. Retries(c)
  BY RetriesNat
<1>2. 0 \in 0 .. MaxCharges /\ 0 \in 0 .. MaxCrashes
  BY SpendAssumption
<1>3. TypeInv
  BY <1>1, <1>2 DEF Init, Contract!CInit, TypeInv, TypeOK, Stages
<1>4. \A a \in Attempt : ~ Paid(a) /\ a[2] \in Nat
  BY AttemptIs, RetriesNat DEF Init, Contract!CInit, Paid
<1>5. StageInv /\ MoneyInv
  BY <1>4, SpendAssumption DEF Init, Contract!CInit, StageInv, MoneyInv
<1>6. AnswerInv
  BY DEF Init, AnswerInv
<1>7. ClientInv /\ DeathInv
  BY <1>4, AttemptIs DEF Init, ClientInv, DeathInv, Active
<1> QED
  BY <1>3, <1>5, <1>6, <1>7 DEF Inv

LEMMA InvStep == ASSUME Inv, [Next]_vars PROVE Inv'
BY TypeStep, StageStep, ContractKeeps, AnswerStep, ClientStep, DeathStep DEF Inv, TypeInv

LEMMA InvHolds == Spec => []Inv
BY InvInit, InvStep, PTL DEF Spec

\* Every variable keeps its type: no call makes more attempts than it was
\* configured for, and no rail more charges than the bound.
THEOREM TypeCorrect == Spec => []TypeOK
<1>1. Inv => TypeOK
  BY DEF Inv, TypeInv
<1> QED
  BY <1>1, InvHolds, PTL

\* Whatever is lost, overlaps, fails or crashes: what a TypeScript call returns
\* is an executed transaction of its own request_id, whose result is that of
\* the rail that was paid.  (No Python call returns one.)
THEOREM AnswersTrue == Spec => []AnswersTruthful
<1>1. ASSUME Inv PROVE AnswersTruthful
  BY <1>1 DEF Inv, TypeInv, TypeOK, AnswerInv, MoneyInv, AnswersTruthful
<1> QED
  BY <1>1, InvHolds, PTL

\* And no error of the service denies a payment: its call waits for it,
\* returned it, could not parse the answer that says so (Python), gave up
\* without one, or the process died with it.
THEOREM NeverDenied == Spec => []PaymentsNeverDenied
<1>1. ASSUME Inv PROVE PaymentsNeverDenied
  BY <1>1 DEF Inv, ClientInv, DeathInv, Awaited, PaymentsNeverDenied
<1> QED
  BY <1>1, InvHolds, PTL

\* An agent pays twice for one call only where an answer was lost: all the
\* payments but one are in attempts that the SDK gave up or whose handler died.
Unanswered == lost \cup {a \in Attempt : stage[a] = "dead"}
PaidOncePerCall ==
    \A c \in Call : Cardinality({a \in Attempt : a[1] = c /\ Paid(a)} \ Unanswered) <= 1

\* Whether its request_id repeats or is empty, whatever fails: of what a call
\* has paid, one payment at most was neither given up nor lost with the process.
THEOREM TwiceOnlyIfLost == Spec => []PaidOncePerCall
<1>1. ASSUME Inv, NEW c \in Call
      PROVE  Cardinality({a \in Attempt : a[1] = c /\ Paid(a)} \ Unanswered) <= 1
  <2> DEFINE P == {a \in Attempt : a[1] = c /\ Paid(a)} \ Unanswered
  <2>1. ASSUME NEW a \in P, NEW b \in P PROVE a = b
    <3>1. /\ a[1] = c /\ Awaited(a) /\ a \notin lost /\ stage[a] # "dead" /\ a # NoTx
          /\ b[1] = c /\ Awaited(b) /\ b \notin lost /\ stage[b] # "dead" /\ b # NoTx
      BY <1>1, NoTxAssumption DEF Inv, ClientInv, Unanswered
    <3>2. phase[c] \in {"waiting", "unparsed"} => result[c] = NoTx
      BY <1>1 DEF Inv, ClientInv
    <3> QED
      BY <3>1, <3>2 DEF Awaited
  <2> QED
    BY <2>1, AtMostOne
<1>2. Inv => PaidOncePerCall
  BY <1>1 DEF PaidOncePerCall
<1> QED
  BY <1>2, InvHolds, PTL

-----------------------------------------------------------------------------
(* A quiet environment.                                                    *)

\* No client gives up, no process dies, Redis answers, and calls with the same
\* request_id follow each other; the gateway may still refuse some.
Quiet == Faults \subseteq {"gateway"}

Waiting(a) == phase[a[1]] = "waiting" /\ a = Current(a[1])
InSaga(a) == stage[a] \in {"saga", "storing"}
Keyed(a) == KeyOfAttempt(a) # NoKey

\* Calls with the same request_id take turns, and a handler's client waits for it.
TurnInv ==
    /\ \A c, d \in Call :
           /\ phase[c] = "waiting" /\ phase[d] = "waiting"
           /\ KeyOf[c] = KeyOf[d] /\ KeyOf[c] # NoKey
           => c = d
    /\ \A a \in Attempt : Active(a) => Waiting(a)
    /\ \A a \in lost : stage[a] = "dead"
    /\ gone = {}

\* A payment is in Redis or in its saga, until its response has expired; a
\* saga runs only while nothing is in Redis; what a client is told is there.
KeptInv ==
    /\ \A a \in expired : Paid(a)
    /\ \A a \in Attempt : Keyed(a) =>
           /\ Paid(a) => a \in expired \/ InSaga(a) \/ cache[KeyOfAttempt(a)] = a
           /\ InSaga(a) => cache[KeyOfAttempt(a)] = NoTx
           /\ Waiting(a) /\ stage[a] = "replied" /\ reply[a] # NoTx =>
                  cache[KeyOfAttempt(a)] = reply[a]

\* Of two requests with the same request_id only one can be waited for.
LEMMA Alone ==
    ASSUME TurnInv, NEW a \in Attempt, NEW b \in Attempt, Waiting(a), Waiting(b),
           Keyed(a), KeyOfAttempt(a) = KeyOfAttempt(b)
    PROVE  a = b
<1>1. a[1] \in Call /\ b[1] \in Call
  BY AttemptIs
<1>2. a[1] = b[1]
  BY <1>1 DEF TurnInv, Waiting, Keyed, KeyOfAttempt
<1> QED
  BY <1>2 DEF Waiting

\* A quiet client gives a request up only when its connection is gone, and
\* begins only when no other call has its request_id.
LEMMA QuietClient ==
    ASSUME Quiet, NEW c \in Call, Begin(c) \/ Client(c) \/ TimesOut(c) \/ GatewayRefuses(c)
    PROVE  /\ lost' = lost \/ (lost' = lost \cup {Current(c)} /\ stage[Current(c)] = "dead")
           /\ phase[c] = "waiting" \/ KeyOf[c] = NoKey \/ UnderWay(KeyOf[c]) = {}
<1>1. "timeout" \notin Faults /\ "overlap" \notin Faults
  BY DEF Quiet
<1> QED
  BY <1>1 DEF Begin, Client, Returns, CannotParse, ServerError, ClientError, BadGateway,
              ConnectionReset, TimesOut, TryAgain, GatewayRefuses

\* Nothing goes wrong around the handlers.
LEMMA QuietServer ==
    ASSUME Quiet, TurnInv,
           \/ \E a \in Attempt : \/ Serve(a) \/ Panic(a) \/ Disconnect(a)
                                 \/ \E r \in Rail : Charge(a, r)
           \/ \E k \in Key : Expire(k)
           \/ Crash \/ UNCHANGED vars
    PROVE  /\ gone' = gone
           /\ ~ Crash /\ \A a \in Attempt : ~ Disconnect(a)
<1>1. ~ Crash
  BY DEF Quiet, Crash
<1>2. \A a \in Attempt : ~ Disconnect(a)
  BY DEF TurnInv, Disconnect
<1> QED
  BY <1>1, <1>2 DEF Serve, Replay, RejectBody, OpenSaga, Fail, Panic, Execute, Charge, Respond,
                    Expire, handler, vars

LEMMA TurnStep ==
    ASSUME Quiet, TypeInv, StageInv, ClientInv, TurnInv, [Next]_vars
    PROVE  TurnInv'
<1>0. /\ TypeOK /\ phase \in [Call -> {"idle", "waiting"} \cup Ended] /\ try \in [Call -> Nat]
      /\ stage \in [Attempt -> Stages] /\ lost \subseteq Attempt
  BY DEF TypeInv, TypeOK
<1>1. \A a \in Attempt : a[1] \in Call
  BY AttemptIs
<1>2. ASSUME NEW c \in Call, Begin(c) \/ Client(c) \/ TimesOut(c) \/ GatewayRefuses(c)
      PROVE  TurnInv'
  <2>1. /\ gone' = gone /\ phase'[c] \in {"waiting"} \cup Ended
        /\ \A d \in Call \ {c} : phase'[d] = phase[d]
    BY <1>0, <1>2, ClientMoves
  <2>2. /\ Current(c) \in Attempt /\ Current(c)[1] = c /\ Current(c) = <<c, try[c]>>
        /\ "waiting" \notin Ended
    BY <1>0, CurrentIs DEF Ended, Current
  <2>3. \A d \in Call \ {c} : try'[d] = try[d]
    <3>1. try' = try \/ try' = [try EXCEPT ![c] = @ + 1]
      BY <1>2, ClientMoves
    <3> QED
      BY <1>0, <3>1
  <2>4. lost' = lost \/ (lost' = lost \cup {Current(c)} /\ stage[Current(c)] = "dead")
    BY <1>2, QuietClient
  <2>5. \A a \in lost' : stage[a] = "dead" /\ a \in Attempt
    BY <1>0, <2>2, <2>4 DEF TurnInv
  <2>6. Over(c) => ~ Active(Current(c))
    BY <2>5 DEF Over, Active
  <2>7. \A d, e \in Call :
            /\ phase'[d] = "waiting" /\ phase'[e] = "waiting"
            /\ KeyOf[d] = KeyOf[e] /\ KeyOf[d] # NoKey
            => d = e
    <3>1. phase[c] = "waiting" \/ KeyOf[c] = NoKey
          \/ \A d \in Call : ~ (phase[d] = "waiting" /\ KeyOf[d] = KeyOf[c])
      BY <1>2, QuietClient DEF UnderWay
    <3> QED
      BY <2>1, <3>1 DEF TurnInv
  <2>8. \A a \in Attempt : a[1] # c /\ Waiting(a) => Waiting(a)'
    BY <1>1, <2>1, <2>3 DEF Waiting, Current
  <2>9. \A a \in Attempt : a[1] = c /\ Active(a) => a = Current(c) /\ phase[c] = "waiting"
    BY DEF TurnInv, Waiting
  <2>10. CASE /\ phase[c] = "waiting" => Over(c)
              /\ phase'[c] = "waiting"
              /\ stage[<<c, try'[c]>>] = "none" /\ try'[c] \in 0 .. Retries(c)
              /\ stage' = [stage EXCEPT ![<<c, try'[c]>>] = "sent"]
    <3> DEFINE next == <<c, try'[c]>>
    <3>1. next \in Attempt /\ next[1] = c
      BY <2>10, AttemptIs
    <3>2. stage'[next] = "sent" /\ \A a \in Attempt \ {next} : stage'[a] = stage[a]
      BY <1>0, <2>10, <3>1
    <3>3. next = <<c, try'[c]>> /\ phase'[c] = "waiting" /\ stage[next] = "none"
      BY <2>10
    <3> HIDE DEF next
    <3>5. ASSUME NEW a \in Attempt, Active(a)' PROVE Waiting(a)'
      <4>1. CASE a = next
        BY <3>1, <3>3, <4>1 DEF Waiting, Current
      <4>2. CASE a # next
        <5>1. Active(a)
          BY <3>2, <3>5, <4>2 DEF Active
        <5>2. a[1] # c
          BY <2>6, <2>9, <2>10, <5>1
        <5> QED
          BY <2>8, <5>1, <5>2 DEF TurnInv
      <4> QED
        BY <4>1, <4>2
    <3>6. \A a \in lost' : stage'[a] = "dead"
      BY <2>5, <3>2, <3>3
    <3> QED
      BY <2>1, <2>7, <3>5, <3>6 DEF TurnInv
  <2>11. ASSUME \A a \in Attempt : stage'[a] = stage[a] \/ stage'[a] = "dead",
                stage'[Current(c)] \notin {"sent", "saga", "storing"}
         PROVE  TurnInv'
    <3>1. ASSUME NEW a \in Attempt, Active(a)' PROVE Waiting(a)'
      <4>1. Active(a) /\ a # Current(c)
        BY <2>11, <3>1 DEF Active
      <4>2. a[1] # c
        BY <2>9, <4>1
      <4> QED
        BY <2>8, <4>1, <4>2 DEF TurnInv
    <3>2. \A a \in lost' : stage'[a] = "dead"
      BY <2>5, <2>11
    <3> QED
      BY <2>1, <2>7, <3>1, <3>2 DEF TurnInv
  <2>12. CASE Over(c) /\ UNCHANGED stage
    BY <2>6, <2>11, <2>12 DEF Active
  <2>13. CASE stage[Current(c)] = "replied" /\ UNCHANGED stage
    BY <2>11, <2>13
  <2>14. CASE stage' = [stage EXCEPT ![Current(c)] = "dead"]
    <3>1. stage'[Current(c)] = "dead" /\ \A a \in Attempt : stage'[a] = stage[a] \/ stage'[a] = "dead"
      BY <1>0, <2>2, <2>14
    <3> QED
      BY <2>11, <3>1
  <2> QED
    BY <1>2, <2>10, <2>12, <2>13, <2>14, ClientMoves
<1>3. ASSUME \/ \E a \in Attempt : \/ Serve(a) \/ Panic(a) \/ Disconnect(a)
                                   \/ \E r \in Rail : Charge(a, r)
             \/ \E k \in Key : Expire(k)
             \/ Crash \/ UNCHANGED vars
      PROVE  TurnInv'
  <2>1. UNCHANGED <<phase, try, lost, gone>>
    BY <1>0, <1>3, ServerMoves, QuietServer DEF client
  <2>2. \A a \in Attempt : (Active(a)' => Active(a)) /\ (stage'[a] # stage[a] => Active(a))
    BY <1>0, <1>3, ServerMoves
  <2>3. \A a \in Attempt : Waiting(a)' = Waiting(a)
    BY <2>1 DEF Waiting, Current
  <2>4. \A a \in lost' : stage'[a] = "dead"
    BY <1>0, <2>1, <2>2 DEF TurnInv, Active
  <2> QED
    BY <2>1, <2>2, <2>3, <2>4 DEF TurnInv
<1> QED
  BY <1>2, <1>3, WhoMoves

\* Payments are not taken back, and nothing is paid but by a charge in a saga.
LEMMA PaidStays ==
    ASSUME TypeOK, [Next]_vars
    PROVE  \A a \in Attempt : Paid(a) => Paid(a)'
<1>0. charges \in [Attempt -> [Rail -> 0 .. MaxCharges]] /\ MaxCharges \in Nat
  BY SpendAssumption DEF TypeOK
<1>1. CASE charges' = charges
  BY <1>1 DEF Paid
<1>2. ASSUME NEW a \in Attempt, NEW r \in Rail, Charge(a, r)
      PROVE  \A b \in Attempt : Paid(b) => Paid(b)'
  <2>1. charges' = [charges EXCEPT ![a][r] = @ + 1]
    BY <1>2 DEF Charge, Contract!Charge
  <2>2. \A b \in Attempt, q \in Rail : charges'[b][q] >= charges[b][q]
                                       /\ charges[b][q] \in Nat /\ charges'[b][q] \in Nat
    BY <1>0, <2>1
  <2> QED
    BY <2>2 DEF Paid
<1> QED
  BY <1>1, <1>2, ContractMoves
     DEF Contract!Open, Contract!Fail, Contract!Abandon, Contract!Execute, Contract!Stop, contract

LEMMA KeptStep ==
    ASSUME Quiet, TypeInv, StageInv, MoneyInv, ClientInv, TurnInv, TurnInv', KeptInv, [Next]_vars
    PROVE  KeptInv'
<1>0. /\ TypeOK /\ stage \in [Attempt -> Stages] /\ expired \subseteq Attempt
      /\ reply \in [Attempt -> Attempt \cup {NoTx}] /\ cache \in [Key -> Attempt \cup {NoTx}]
      /\ NoTx \notin Attempt /\ phase \in [Call -> {"idle", "waiting"} \cup Ended]
  BY NoTxAssumption DEF TypeInv, TypeOK
<1>1. \A a \in Attempt : Keyed(a) => KeyOfAttempt(a) \in Key
  BY AttemptIs, SpendAssumption DEF Keyed, KeyOfAttempt
<1>2. \A a \in Attempt : Paid(a) => Paid(a)'
  BY <1>0, PaidStays
<1>3. \A a \in Attempt : Paid(a)' => Paid(a) \/ stage[a] = "saga"
  BY <1>0, ContractKeeps DEF StageInv
<1>4. \A a \in Attempt : InSaga(a) => Waiting(a)
  BY DEF TurnInv, InSaga, Active
\* Steps that touch neither Redis nor what has expired.
<1>5. ASSUME cache' = cache, expired' = expired,
             \A a \in Attempt : InSaga(a)' => InSaga(a) \/ (Keyed(a) => cache[KeyOfAttempt(a)] = NoTx),
             \A a \in Attempt : InSaga(a) => InSaga(a)' \/ ~ Paid(a)',
             \A a \in Attempt : Waiting(a)' /\ stage'[a] = "replied" /\ reply'[a] # NoTx =>
                 \/ Waiting(a) /\ stage[a] = "replied" /\ reply'[a] = reply[a]
                 \/ ~ Keyed(a) \/ cache[KeyOfAttempt(a)] = reply'[a]
      PROVE  KeptInv'
  <2>1. \A a \in expired' : Paid(a)'
    BY <1>0, <1>2, <1>5 DEF KeptInv
  <2>2. ASSUME NEW a \in Attempt, Keyed(a)
        PROVE  /\ Paid(a)' => a \in expired' \/ InSaga(a)' \/ cache'[KeyOfAttempt(a)] = a
               /\ InSaga(a)' => cache'[KeyOfAttempt(a)] = NoTx
               /\ Waiting(a)' /\ stage'[a] = "replied" /\ reply'[a] # NoTx =>
                      cache'[KeyOfAttempt(a)] = reply'[a]
    <3>1. Paid(a)' => Paid(a) \/ InSaga(a)
      BY <1>3 DEF InSaga
    <3> QED
      BY <1>5, <2>2, <3>1 DEF KeptInv
  <2> QED
    BY <2>1, <2>2 DEF KeptInv, Keyed, KeyOfAttempt
<1>6. ASSUME NEW c \in Call, Begin(c) \/ Client(c) \/ TimesOut(c) \/ GatewayRefuses(c)
      PROVE  KeptInv'
  <2>1. /\ cache' = cache /\ expired' = expired /\ reply' = reply
        /\ \A d \in Call \ {c} : phase'[d] = phase[d]
    <3>1. /\ cache' = cache /\ expired' = expired /\ reply' = reply
          /\ \E end \in {"waiting"} \cup Ended : phase' = [phase EXCEPT ![c] = end]
      BY <1>6, ClientMoves DEF store
    <3> QED
      BY <1>0, <3>1
  <2>2. \A d \in Call \ {c} : try'[d] = try[d]
    <3>1. try' = try \/ try' = [try EXCEPT ![c] = @ + 1]
      BY <1>6, ClientMoves
    <3> QED
      BY <3>1 DEF TypeInv
  <2>3. \A a \in Attempt : a[1] # c => (Waiting(a)' <=> Waiting(a))
    BY <2>1, <2>2, AttemptIs DEF Waiting, Current
  <2>4. \A a \in Attempt : \/ stage'[a] = stage[a]
                           \/ stage[a] = "none" /\ stage'[a] = "sent"
                           \/ stage[a] = "sent" /\ stage'[a] = "dead"
    <3>1. Current(c) \in Attempt /\ (try'[c] \in 0 .. Retries(c) => <<c, try'[c]>> \in Attempt)
      BY <1>0, AttemptIs, CurrentIs
    <3> QED
      BY <1>0, <1>6, <3>1, ClientMoves
  <2>5. \A a \in Attempt : a[1] = c /\ Waiting(a)' => stage'[a] = "sent"
    <3>1. phase'[c] = "waiting" => try'[c] \in 0 .. Retries(c)
                                   /\ stage' = [stage EXCEPT ![<<c, try'[c]>>] = "sent"]
      BY <1>6, ClientMoves DEF Ended
    <3>2. try'[c] \in 0 .. Retries(c) => <<c, try'[c]>> \in Attempt
      BY AttemptIs
    <3> QED
      BY <1>0, <3>1, <3>2 DEF Waiting, Current
  <2>6. \A a \in Attempt : InSaga(a)' <=> InSaga(a)
    BY <2>4 DEF InSaga
  <2>7. \A a \in Attempt : Waiting(a)' /\ stage'[a] = "replied" =>
            Waiting(a) /\ stage[a] = "replied"
    BY <2>3, <2>4, <2>5
  <2> QED
    BY <1>5, <2>1, <2>6, <2>7
<1>7. ASSUME \/ \E a \in Attempt : \/ Serve(a) \/ Panic(a) \/ Disconnect(a)
                                   \/ \E r \in Rail : Charge(a, r)
             \/ \E k \in Key : Expire(k)
             \/ Crash \/ UNCHANGED vars
      PROVE  KeptInv'
  <2>1. UNCHANGED <<phase, try, lost, gone>> /\ gone = {}
    BY <1>0, <1>7, ServerMoves, QuietServer DEF client, TurnInv
  <2>2. \A a \in Attempt : Waiting(a)' <=> Waiting(a)
    BY <2>1 DEF Waiting, Current
  <2>3. ~ Crash /\ \A a \in Attempt : ~ Disconnect(a)
    BY <1>7, QuietServer
  <2>4. "redis" \notin Faults
    BY DEF Quiet
  <2>5. ASSUME NEW a \in Attempt, RejectBody(a) PROVE KeptInv'
    <3>1. /\ cache' = cache /\ expired' = expired /\ reply' = reply
          /\ stage[a] = "sent" /\ stage' = [stage EXCEPT ![a] = "badrequest"]
      BY <2>5 DEF RejectBody, store
    <3>2. \A b \in Attempt : (InSaga(b)' <=> InSaga(b)) /\ (stage'[b] = "replied" => stage[b] = "replied")
      BY <1>0, <3>1 DEF InSaga
    <3> QED
      BY <1>5, <2>2, <3>1, <3>2
  <2>6. ASSUME NEW a \in Attempt, Replay(a) PROVE KeptInv'
    <3>1. /\ cache' = cache /\ expired' = expired /\ stage[a] = "sent" /\ Keyed(a)
          /\ stage' = [stage EXCEPT ![a] = "replied"]
          /\ reply' = [reply EXCEPT ![a] = cache[KeyOfAttempt(a)]]
      BY <2>6 DEF Replay, store, Keyed
    <3>2. \A b \in Attempt : InSaga(b)' <=> InSaga(b)
      BY <1>0, <3>1 DEF InSaga
    <3>3. reply'[a] = cache[KeyOfAttempt(a)]
          /\ \A b \in Attempt \ {a} : reply'[b] = reply[b] /\ stage'[b] = stage[b]
      BY <1>0, <3>1
    <3> QED
      BY <1>5, <2>2, <3>1, <3>2, <3>3
  <2>7. ASSUME NEW a \in Attempt, OpenSaga(a) PROVE KeptInv'
    <3>1. /\ cache' = cache /\ expired' = expired /\ reply' = reply
          /\ stage[a] = "sent" /\ stage' = [stage EXCEPT ![a] = "saga"]
          /\ Keyed(a) => cache[KeyOfAttempt(a)] = NoTx
      BY <2>1, <2>4, <2>7 DEF OpenSaga, store, Keyed
    <3>2. \A b \in Attempt : /\ InSaga(b) => InSaga(b)'
                             /\ InSaga(b)' => InSaga(b) \/ b = a
                             /\ stage'[b] = "replied" => stage[b] = "replied"
      BY <1>0, <3>1 DEF InSaga
    <3> QED
      BY <1>5, <2>2, <3>1, <3>2
  <2>8. ASSUME NEW a \in Attempt, NEW r \in Rail, Charge(a, r) \/ Execute(a, r) PROVE KeptInv'
    <3>1. /\ cache' = cache /\ expired' = expired /\ reply' = reply
          /\ stage' = stage \/ (stage[a] = "saga" /\ stage' = [stage EXCEPT ![a] = "storing"])
      BY <2>8 DEF Charge, Execute, store, handler, StageInv, Contract!Execute
    <3>2. \A b \in Attempt : (InSaga(b)' <=> InSaga(b)) /\ (stage'[b] = "replied" => stage[b] = "replied")
      BY <1>0, <3>1 DEF InSaga
    <3> QED
      BY <1>5, <2>2, <3>1, <3>2
  <2>9. ASSUME NEW a \in Attempt, Fail(a) \/ Panic(a) PROVE KeptInv'
    <3>1. /\ cache' = cache /\ expired' = expired /\ reply' = reply /\ charges' = charges
          /\ stage[a] = "saga" /\ \A r \in Rail \ UnsureRails : charges[a][r] = 0
          /\ stage' = [stage EXCEPT ![a] = "replied"] \/ stage' = [stage EXCEPT ![a] = "dead"]
      BY <2>9 DEF Fail, Panic, store, StageInv, Contract!Fail, Contract!Abandon,
                  Contract!NothingCertain
    <3>2. ~ Paid(a)' /\ reply[a] = NoTx
      BY <1>0, <3>1 DEF Paid, StageInv
    <3>3. \A b \in Attempt : /\ InSaga(b)' => InSaga(b)
                             /\ InSaga(b) => InSaga(b)' \/ b = a
                             /\ stage'[b] = "replied" => stage[b] = "replied" \/ b = a
      BY <1>0, <3>1 DEF InSaga
    <3> QED
      BY <1>5, <2>2, <3>1, <3>2, <3>3
  <2>10. ASSUME NEW a \in Attempt, NEW saved \in BOOLEAN, Respond(a, saved) PROVE KeptInv'
    <3>1. /\ stage[a] = "storing" /\ stage' = [stage EXCEPT ![a] = "replied"]
          /\ reply' = [reply EXCEPT ![a] = a] /\ expired' = expired /\ charges' = charges
          /\ cache' = IF Keyed(a) THEN [cache EXCEPT ![KeyOfAttempt(a)] = a] ELSE cache
      BY <2>1, <2>4, <2>10 DEF Respond, Keyed, contract
    <3>2. /\ stage'[a] = "replied" /\ reply'[a] = a
          /\ \A b \in Attempt \ {a} : stage'[b] = stage[b] /\ reply'[b] = reply[b]
      BY <1>0, <3>1
    <3>3. InSaga(a) /\ ~ InSaga(a)' /\ \A b \in Attempt \ {a} : InSaga(b)' <=> InSaga(b)
      BY <3>1, <3>2 DEF InSaga
    <3>4. CASE ~ Keyed(a)
      <4>1. cache' = cache
        BY <3>1, <3>4
      <4>2. \A b \in expired' : Paid(b)'
        BY <1>0, <1>2, <3>1 DEF KeptInv
      <4>3. \A b \in Attempt : Keyed(b) => b # a
        BY <3>4
      <4>4. \A b \in Attempt : Paid(b)' <=> Paid(b)
        BY <3>1 DEF Paid
      <4> QED
        BY <2>2, <3>1, <3>2, <3>3, <4>1, <4>2, <4>3, <4>4 DEF KeptInv, Keyed, KeyOfAttempt
    <3>5. CASE Keyed(a)
      <4> DEFINE k == KeyOfAttempt(a)
      <4>1. k \in Key /\ cache'[k] = a /\ cache[k] = NoTx
            /\ \A l \in Key \ {k} : cache'[l] = cache[l]
        BY <1>0, <1>1, <3>1, <3>3, <3>5 DEF KeptInv
      <4>2. \A b \in Attempt : Paid(b)' <=> Paid(b)
        BY <3>1 DEF Paid
      <4>3. \A b \in expired' : Paid(b)'
        BY <1>0, <1>2, <3>1 DEF KeptInv
      <4>4. \A b \in Attempt \ {a} : KeyOfAttempt(b) = k => ~ Waiting(b) /\ ~ InSaga(b)
        BY <1>4, <3>3, <3>5, Alone DEF Keyed
      <4>5. ASSUME NEW b \in Attempt \ {a}, Keyed(b)
            PROVE  /\ Paid(b)' => b \in expired' \/ InSaga(b)' \/ cache'[KeyOfAttempt(b)] = b
                   /\ InSaga(b)' => cache'[KeyOfAttempt(b)] = NoTx
                   /\ Waiting(b)' /\ stage'[b] = "replied" /\ reply'[b] # NoTx =>
                          cache'[KeyOfAttempt(b)] = reply'[b]
        <5>1. CASE KeyOfAttempt(b) = k
          BY <1>0, <2>2, <3>1, <3>3, <4>1, <4>2, <4>4, <4>5, <5>1 DEF KeptInv
        <5>2. CASE KeyOfAttempt(b) # k
          <6>1. cache'[KeyOfAttempt(b)] = cache[KeyOfAttempt(b)]
            BY <1>1, <4>1, <4>5, <5>2
          <6> QED
            BY <2>2, <3>1, <3>2, <3>3, <4>2, <4>5, <6>1 DEF KeptInv
        <5> QED
          BY <5>1, <5>2
      <4>6. /\ cache'[KeyOfAttempt(a)] = a /\ reply'[a] = a /\ ~ InSaga(a)'
        BY <3>2, <3>3, <4>1
      <4> QED
        BY <4>3, <4>5, <4>6 DEF KeptInv, Keyed, KeyOfAttempt
    <3> QED
      BY <3>4, <3>5
  <2>11. ASSUME NEW k \in Key, Expire(k) PROVE KeptInv'
    <3>1. /\ cache' = [cache EXCEPT ![k] = NoTx] /\ UNCHANGED <<stage, reply, charges>>
          /\ expired' = expired \cup {a \in AttemptsOf(k) : Paid(a)}
          /\ \A c \in Call : ~ (phase[c] = "waiting" /\ KeyOf[c] = k)
      BY <2>11 DEF Expire, handler, contract, UnderWay
    <3>2. \A a \in Attempt : (Paid(a)' <=> Paid(a)) /\ (InSaga(a)' <=> InSaga(a))
      BY <3>1 DEF Paid, InSaga
    <3>3. \A a \in Attempt : KeyOfAttempt(a) = k => ~ Waiting(a) /\ ~ InSaga(a)
      BY <1>4, <3>1, AttemptIs DEF Waiting, KeyOfAttempt
    <3>4. \A a \in expired' : Paid(a)'
      BY <1>0, <3>1, <3>2 DEF KeptInv, AttemptsOf
    <3>5. \A l \in Key \ {k} : cache'[l] = cache[l]
      BY <1>0, <3>1
    <3>6. ASSUME NEW b \in Attempt, Keyed(b)
          PROVE  /\ Paid(b)' => b \in expired' \/ InSaga(b)' \/ cache'[KeyOfAttempt(b)] = b
                 /\ InSaga(b)' => cache'[KeyOfAttempt(b)] = NoTx
                 /\ Waiting(b)' /\ stage'[b] = "replied" /\ reply'[b] # NoTx =>
                        cache'[KeyOfAttempt(b)] = reply'[b]
      <4>1. CASE KeyOfAttempt(b) = k
        BY <2>2, <3>1, <3>2, <3>3, <4>1 DEF AttemptsOf
      <4>2. CASE KeyOfAttempt(b) # k
        <5>1. cache'[KeyOfAttempt(b)] = cache[KeyOfAttempt(b)]
          BY <1>1, <3>5, <3>6, <4>2
        <5> QED
          BY <2>2, <3>1, <3>2, <3>6, <5>1 DEF KeptInv
      <4> QED
        BY <4>1, <4>2
    <3> QED
      BY <3>4, <3>6 DEF KeptInv, Keyed, KeyOfAttempt
  <2>12. CASE UNCHANGED vars
    BY <1>5, <2>2, <2>12 DEF vars, store, handler, InSaga
  <2> QED
    BY <1>7, <2>3, <2>5, <2>6, <2>7, <2>8, <2>9, <2>10, <2>11, <2>12 DEF Serve
<1> QED
  BY <1>6, <1>7, WhoMoves
LEMMA QuietInit == ASSUME Init PROVE TurnInv /\ KeptInv
<1>1. \A a \in Attempt : stage[a] = "none" /\ ~ Paid(a)
  BY DEF Init, Contract!CInit, Paid
<1>2. \A c \in Call : phase[c] = "idle"
  BY DEF Init
<1>3. lost = {} /\ gone = {} /\ expired = {}
  BY DEF Init
<1> QED
  BY <1>1, <1>2, <1>3 DEF TurnInv, KeptInv, Active, InSaga

\* What the promise sees of the state.
PaidFor(k) == {a \in AttemptsOf(k) : Paid(a)}
Forgotten(k) == {a \in AttemptsOf(k) : a \in expired}
KeyedCall == {c \in Call : KeyOf[c] # NoKey}

LEMMA PromiseSees ==
    /\ Promise!PInit <=>
           /\ cache = [k \in Key |-> NoTx]
           /\ [k \in Key |-> PaidFor(k)] = [k \in Key |-> {}]
           /\ [k \in Key |-> Forgotten(k)] = [k \in Key |-> {}]
           /\ [c \in KeyedCall |-> result[c]] = [c \in KeyedCall |-> NoTx]
BY DEF Promise!PInit, PaidFor, Forgotten, KeyedCall

LEMMA PromiseInit == ASSUME Init PROVE Promise!PInit
<1>1. cache = [k \in Key |-> NoTx] /\ expired = {} /\ result = [c \in Call |-> NoTx]
  BY DEF Init
<1>2. \A a \in Attempt : ~ Paid(a)
  BY DEF Init, Contract!CInit, Paid
<1>3. \A k \in Key : PaidFor(k) = {} /\ Forgotten(k) = {}
  BY <1>1, <1>2 DEF PaidFor, Forgotten, AttemptsOf
<1>4. [c \in KeyedCall |-> result[c]] = [c \in KeyedCall |-> NoTx]
  BY <1>1 DEF KeyedCall
<1> QED
  BY <1>1, <1>3, <1>4, PromiseSees

\* The promise's variables after a step, key by key and call by call.
LEMMA PromiseStutters ==
    ASSUME cache' = cache, \A k \in Key : PaidFor(k)' = PaidFor(k),
           \A k \in Key : Forgotten(k)' = Forgotten(k),
           \A c \in KeyedCall : result'[c] = result[c]
    PROVE  UNCHANGED Promise!promise
<1>1. /\ [k \in Key |-> PaidFor(k)'] = [k \in Key |-> PaidFor(k)]
      /\ [k \in Key |-> Forgotten(k)'] = [k \in Key |-> Forgotten(k)]
      /\ [c \in KeyedCall |-> result'[c]] = [c \in KeyedCall |-> result[c]]
  OBVIOUS
<1> QED
  BY <1>1 DEF Promise!promise, PaidFor, Forgotten, KeyedCall

LEMMA PromisePays ==
    ASSUME NEW k \in Key, NEW a \in Attempt, cache' = cache,
           cache[k] = NoTx, PaidFor(k) \subseteq Forgotten(k),
           PaidFor(k)' = PaidFor(k) \cup {a},
           \A j \in Key \ {k} : PaidFor(j)' = PaidFor(j),
           \A j \in Key : Forgotten(j)' = Forgotten(j),
           \A c \in KeyedCall : result'[c] = result[c]
    PROVE  Promise!PNext
<1>1. /\ [j \in Key |-> PaidFor(j)'] =
             [[j \in Key |-> PaidFor(j)] EXCEPT ![k] = PaidFor(k) \cup {a}]
      /\ [j \in Key |-> Forgotten(j)'] = [j \in Key |-> Forgotten(j)]
      /\ [c \in KeyedCall |-> result'[c]] = [c \in KeyedCall |-> result[c]]
  OBVIOUS
<1>2. Promise!Pay(k, a)
  BY <1>1 DEF Promise!Pay, PaidFor, Forgotten, KeyedCall
<1> QED
  BY <1>2 DEF Promise!PNext

LEMMA PromiseRemembers ==
    ASSUME NEW k \in Key, NEW a \in Attempt, cache' = [cache EXCEPT ![k] = a],
           cache[k] = NoTx, PaidFor(k) \subseteq Forgotten(k) \cup {a},
           \A j \in Key : PaidFor(j)' = PaidFor(j) /\ Forgotten(j)' = Forgotten(j),
           \A c \in KeyedCall : result'[c] = result[c]
    PROVE  Promise!PNext
<1>1. /\ [j \in Key |-> PaidFor(j)'] = [j \in Key |-> PaidFor(j)]
      /\ [j \in Key |-> Forgotten(j)'] = [j \in Key |-> Forgotten(j)]
      /\ [c \in KeyedCall |-> result'[c]] = [c \in KeyedCall |-> result[c]]
  OBVIOUS
<1>2. Promise!Remember(k, a)
  BY <1>1 DEF Promise!Remember, PaidFor, Forgotten, KeyedCall
<1> QED
  BY <1>2 DEF Promise!PNext

LEMMA PromiseAnswers ==
    ASSUME NEW c \in KeyedCall, cache' = cache, result \in [Call -> Attempt \cup {NoTx}],
           result[c] = NoTx, cache[KeyOf[c]] # NoTx,
           result' = [result EXCEPT ![c] = cache[KeyOf[c]]],
           \A j \in Key : PaidFor(j)' = PaidFor(j) /\ Forgotten(j)' = Forgotten(j)
    PROVE  Promise!PNext
<1>1. /\ [j \in Key |-> PaidFor(j)'] = [j \in Key |-> PaidFor(j)]
      /\ [j \in Key |-> Forgotten(j)'] = [j \in Key |-> Forgotten(j)]
  OBVIOUS
<1>2. \A d \in KeyedCall : result'[d] = IF d = c THEN cache[KeyOf[c]] ELSE result[d]
  BY DEF KeyedCall
<1>3. [d \in KeyedCall |-> result'[d]] =
          [[d \in KeyedCall |-> result[d]] EXCEPT ![c] = cache[KeyOf[c]]]
  BY <1>2
<1>4. Promise!Answer(c)
  BY <1>1, <1>3 DEF Promise!Answer, PaidFor, Forgotten, KeyedCall
<1> QED
  BY <1>4 DEF Promise!PNext, KeyedCall

LEMMA PromiseForgets ==
    ASSUME NEW k \in Key, cache' = [cache EXCEPT ![k] = NoTx],
           Forgotten(k)' = PaidFor(k), \A j \in Key \ {k} : Forgotten(j)' = Forgotten(j),
           \A j \in Key : PaidFor(j)' = PaidFor(j),
           \A c \in KeyedCall : result'[c] = result[c]
    PROVE  Promise!PNext
<1>1. /\ [j \in Key |-> PaidFor(j)'] = [j \in Key |-> PaidFor(j)]
      /\ [j \in Key |-> Forgotten(j)'] = [[j \in Key |-> Forgotten(j)] EXCEPT ![k] = PaidFor(k)]
      /\ [c \in KeyedCall |-> result'[c]] = [c \in KeyedCall |-> result[c]]
  OBVIOUS
<1>2. Promise!Forget(k)
  BY <1>1 DEF Promise!Forget, PaidFor, Forgotten, KeyedCall
<1> QED
  BY <1>2 DEF Promise!PNext

\* While a request's saga runs, nothing else of its request_id is paid and kept.
LEMMA OnlyPayer ==
    ASSUME TypeOK, TurnInv, KeptInv, NEW a \in Attempt, Keyed(a), InSaga(a)
    PROVE  /\ KeyOfAttempt(a) \in Key /\ cache[KeyOfAttempt(a)] = NoTx
           /\ PaidFor(KeyOfAttempt(a)) \subseteq Forgotten(KeyOfAttempt(a)) \cup {a}
<1>1. KeyOfAttempt(a) \in Key
  BY AttemptIs, SpendAssumption DEF Keyed, KeyOfAttempt
<1>2. cache[KeyOfAttempt(a)] = NoTx
  BY DEF KeptInv
<1>3. ASSUME NEW b \in PaidFor(KeyOfAttempt(a)), b # a PROVE b \in Forgotten(KeyOfAttempt(a))
  <2>1. b \in Attempt /\ Paid(b) /\ KeyOfAttempt(b) = KeyOfAttempt(a) /\ Keyed(b)
    BY <1>3 DEF PaidFor, AttemptsOf, Keyed
  <2>2. ~ InSaga(b)
    <3>1. SUFFICES ASSUME InSaga(b) PROVE FALSE
      OBVIOUS
    <3>2. Waiting(a) /\ Waiting(b)
      BY <2>1, <3>1 DEF TurnInv, InSaga, Active
    <3> QED
      BY <1>3, <2>1, <3>2, Alone
  <2>3. b \in expired
    BY <1>2, <2>1, <2>2, NoTxAssumption DEF KeptInv
  <2> QED
    BY <1>3, <2>3 DEF PaidFor, Forgotten
<1> QED
  BY <1>1, <1>2, <1>3

\* Every step of a quiet service keeps the promise.
LEMMA PromiseStep ==
    ASSUME Quiet, TypeInv, StageInv, MoneyInv, ClientInv, TurnInv, KeptInv, [Next]_vars
    PROVE  [Promise!PNext]_Promise!promise
<1>0. /\ TypeOK /\ NoTx \notin Attempt /\ result \in [Call -> Attempt \cup {NoTx}]
      /\ charges \in [Attempt -> [Rail -> 0 .. MaxCharges]] /\ MaxCharges \in Nat
      /\ cache \in [Key -> Attempt \cup {NoTx}] /\ NoKey \notin Key
  BY NoTxAssumption, SpendAssumption DEF TypeInv, TypeOK
<1>1. charges' = charges => \A k \in Key : PaidFor(k)' = PaidFor(k)
  BY DEF PaidFor, Paid
<1>2. expired' = expired => \A k \in Key : Forgotten(k)' = Forgotten(k)
  BY DEF Forgotten
<1>3. result' = result => \A c \in KeyedCall : result'[c] = result[c]
  OBVIOUS
<1>4. UNCHANGED <<cache, charges, expired, result>> => UNCHANGED Promise!promise
  BY <1>1, <1>2, <1>3, PromiseStutters
<1>5. ASSUME NEW c \in Call, Begin(c) \/ Client(c) \/ TimesOut(c) \/ GatewayRefuses(c)
      PROVE  [Promise!PNext]_Promise!promise
  <2>1. /\ UNCHANGED <<cache, charges, expired>>
        /\ \/ result' = result
           \/ /\ phase[c] = "waiting" /\ stage[Current(c)] = "replied"
              /\ reply[Current(c)] # NoTx
              /\ result' = [result EXCEPT ![c] = reply[Current(c)]]
    BY <1>5, ClientMoves DEF store, contract
  <2>2. CASE result' = result
    BY <1>4, <2>1, <2>2
  <2>3. CASE /\ phase[c] = "waiting" /\ stage[Current(c)] = "replied"
             /\ reply[Current(c)] # NoTx
             /\ result' = [result EXCEPT ![c] = reply[Current(c)]]
    <3>1. CASE KeyOf[c] = NoKey
      <4>1. \A d \in KeyedCall : result'[d] = result[d]
        BY <1>0, <2>3, <3>1 DEF KeyedCall
      <4> QED
        BY <1>1, <1>2, <2>1, <4>1, PromiseStutters
    <3>2. CASE KeyOf[c] # NoKey
      <4>1. Current(c) \in Attempt /\ Waiting(Current(c)) /\ Keyed(Current(c))
            /\ KeyOfAttempt(Current(c)) = KeyOf[c]
        BY <1>0, <2>3, <3>2, CurrentIs DEF Waiting, Keyed, KeyOfAttempt
      <4>2. cache[KeyOf[c]] = reply[Current(c)]
        BY <2>3, <4>1 DEF KeptInv
      <4>3. c \in KeyedCall /\ result[c] = NoTx
        BY <2>3, <3>2 DEF KeyedCall, ClientInv
      <4>4. Promise!PNext
        BY <1>0, <1>1, <1>2, <2>1, <2>3, <4>2, <4>3, PromiseAnswers
      <4> QED
        BY <4>4
    <3> QED
      BY <3>1, <3>2
  <2> QED
    BY <2>1, <2>2, <2>3
<1>6. ASSUME \/ \E a \in Attempt : \/ Serve(a) \/ Panic(a) \/ Disconnect(a)
                                   \/ \E r \in Rail : Charge(a, r)
             \/ \E k \in Key : Expire(k)
             \/ Crash \/ UNCHANGED vars
      PROVE  [Promise!PNext]_Promise!promise
  <2>1. result' = result /\ gone = {}
    BY <1>0, <1>6, ServerMoves DEF client, TurnInv
  <2>2. ~ Crash /\ \A a \in Attempt : ~ Disconnect(a)
    BY <1>6, QuietServer
  <2>3. ASSUME NEW a \in Attempt, NEW r \in Rail, Charge(a, r)
        PROVE  [Promise!PNext]_Promise!promise
    <3>1. /\ cache' = cache /\ expired' = expired /\ InSaga(a)
          /\ charges' = [charges EXCEPT ![a][r] = @ + 1]
          /\ \A q \in Rail \ UnsureRails : charges[a][q] = 0
      BY <2>3 DEF Charge, Contract!Charge, Contract!NothingCertain, store, StageInv, InSaga
    <3>2. /\ \A b \in Attempt \ {a} : Paid(b)' = Paid(b)
          /\ ~ Paid(a)
      <4>1. \A b \in Attempt \ {a} : charges'[b] = charges[b]
        BY <1>0, <3>1
      <4> QED
        BY <1>0, <3>1, <4>1 DEF Paid
    <3>3. \A k \in Key : k # KeyOfAttempt(a) \/ ~ Paid(a)' => PaidFor(k)' = PaidFor(k)
      BY <3>2 DEF PaidFor, AttemptsOf, KeyOfAttempt
    <3>4. CASE Keyed(a) /\ Paid(a)'
      <4> DEFINE k == KeyOfAttempt(a)
      <4>1. k \in Key /\ cache[k] = NoTx /\ PaidFor(k) \subseteq Forgotten(k) \cup {a}
        BY <1>0, <3>1, <3>4, OnlyPayer
      <4>2. a \notin PaidFor(k)
        BY <3>2 DEF PaidFor
      <4>3. PaidFor(k)' = PaidFor(k) \cup {a}
        BY <3>2, <3>4 DEF PaidFor, AttemptsOf, KeyOfAttempt
      <4> HIDE DEF k
      <4>4. \A j \in Key \ {k} : PaidFor(j)' = PaidFor(j)
        BY <3>3 DEF k
      <4>5. Promise!PNext
        BY <1>2, <1>3, <2>1, <3>1, <4>1, <4>2, <4>3, <4>4, PromisePays
      <4> QED
        BY <4>5
    <3>5. CASE ~ (Keyed(a) /\ Paid(a)')
      <4>1. \A k \in Key : PaidFor(k)' = PaidFor(k)
        BY <1>0, <3>3, <3>5 DEF Keyed
      <4> QED
        BY <1>2, <1>3, <2>1, <3>1, <4>1, PromiseStutters
    <3> QED
      BY <3>4, <3>5
  <2>4. ASSUME NEW a \in Attempt, NEW saved \in BOOLEAN, Respond(a, saved)
        PROVE  [Promise!PNext]_Promise!promise
    <3>1. /\ InSaga(a) /\ expired' = expired /\ charges' = charges
          /\ cache' = IF Keyed(a) THEN [cache EXCEPT ![KeyOfAttempt(a)] = a] ELSE cache
      BY <2>1, <2>4 DEF Quiet, Respond, Keyed, InSaga, contract
    <3>2. CASE Keyed(a)
      <4>1. /\ KeyOfAttempt(a) \in Key /\ cache[KeyOfAttempt(a)] = NoTx
            /\ PaidFor(KeyOfAttempt(a)) \subseteq Forgotten(KeyOfAttempt(a)) \cup {a}
        BY <1>0, <3>1, <3>2, OnlyPayer
      <4>2. Promise!PNext
        BY <1>1, <1>2, <1>3, <2>1, <3>1, <3>2, <4>1, PromiseRemembers
      <4> QED
        BY <4>2
    <3>3. CASE ~ Keyed(a)
      BY <1>4, <2>1, <3>1, <3>3
    <3> QED
      BY <3>2, <3>3
  <2>5. ASSUME NEW k \in Key, Expire(k) PROVE [Promise!PNext]_Promise!promise
    <3>1. /\ cache' = [cache EXCEPT ![k] = NoTx] /\ charges' = charges
          /\ expired' = expired \cup {a \in AttemptsOf(k) : Paid(a)}
      BY <2>5 DEF Expire, contract
    <3>2. Forgotten(k)' = PaidFor(k)
      BY <3>1 DEF Forgotten, PaidFor, KeptInv
    <3>3. \A j \in Key \ {k} : Forgotten(j)' = Forgotten(j)
      BY <3>1 DEF Forgotten, AttemptsOf
    <3>4. Promise!PNext
      BY <1>1, <1>3, <2>1, <3>1, <3>2, <3>3, PromiseForgets
    <3> QED
      BY <3>4
  <2>6. ASSUME NEW a \in Attempt,
               \/ RejectBody(a) \/ Replay(a) \/ OpenSaga(a) \/ Fail(a) \/ Panic(a)
               \/ \E r \in Rail : Execute(a, r)
        PROVE  [Promise!PNext]_Promise!promise
    <3>1. UNCHANGED <<cache, charges, expired>>
      BY <2>6 DEF RejectBody, Replay, OpenSaga, Fail, Panic, Execute, store, contract,
                  Contract!Open, Contract!Fail, Contract!Abandon, Contract!Execute
    <3> QED
      BY <1>4, <2>1, <3>1
  <2>7. CASE UNCHANGED vars
    BY <1>4, <2>7 DEF vars, store, contract, client
  <2> QED
    BY <1>6, <2>2, <2>3, <2>4, <2>5, <2>6, <2>7 DEF Serve
<1> QED
  BY <1>5, <1>6, WhoMoves

\* Of two payments of a request_id whose responses have not expired, neither
\* is a second one.
LEMMA OnePayment ==
    ASSUME TypeOK, TurnInv, KeptInv, NEW k \in Key, NEW a \in AttemptsOf(k) \ expired,
           NEW b \in AttemptsOf(k) \ expired, Paid(a), Paid(b)
    PROVE  a = b
<1>1. /\ a \in Attempt /\ b \in Attempt /\ KeyOfAttempt(a) = k /\ KeyOfAttempt(b) = k
      /\ Keyed(a) /\ Keyed(b) /\ a # NoTx /\ b # NoTx
  BY SpendAssumption, NoTxAssumption DEF AttemptsOf, Keyed
<1>2. /\ InSaga(a) \/ cache[k] = a
      /\ InSaga(b) \/ cache[k] = b
      /\ InSaga(a) \/ InSaga(b) => cache[k] = NoTx
  BY <1>1 DEF KeptInv
<1>3. CASE InSaga(a) /\ InSaga(b)
  <2>1. Waiting(a) /\ Waiting(b)
    BY <1>1, <1>3 DEF TurnInv, InSaga, Active
  <2> QED
    BY <1>1, <2>1, Alone
<1> QED
  BY <1>1, <1>2, <1>3

QuietInv == Inv /\ TurnInv /\ KeptInv

LEMMA QuietStep == ASSUME Quiet, QuietInv, [Next]_vars PROVE QuietInv'
BY InvStep, TurnStep, KeptStep DEF QuietInv, Inv

\* While nothing fails around it and calls take turns, the service keeps the
\* promise of README_API.md: the response a request_id is paid for is the one
\* remembered, and the one a call with that request_id returns.  (The service
\* sends it to Python calls too, which raise before they return it.)
THEOREM PromiseKept == Quiet => (Spec => KeepsPromise)
<1> SUFFICES ASSUME Quiet PROVE Spec => KeepsPromise
  OBVIOUS
<1>1. Init => QuietInv /\ Promise!PInit
  BY InvInit, QuietInit, PromiseInit DEF QuietInv
<1>2. QuietInv /\ [Next]_vars => QuietInv'
  BY QuietStep
<1>3. QuietInv /\ [Next]_vars => [Promise!PNext]_Promise!promise
  BY PromiseStep DEF QuietInv, Inv
<1> QED
  BY <1>1, <1>2, <1>3, PTL DEF Spec, KeepsPromise, Promise!PSpec

\* And a request_id is paid once while its response has not expired.
THEOREM PaidOnce == Quiet => (Spec => []PaidOncePerRequestId)
<1> SUFFICES ASSUME Quiet PROVE Spec => []PaidOncePerRequestId
  OBVIOUS
<1>1. Init => QuietInv
  BY InvInit, QuietInit DEF QuietInv
<1>2. QuietInv /\ [Next]_vars => QuietInv'
  BY QuietStep
<1>3. ASSUME QuietInv, NEW k \in Key
      PROVE  Cardinality({a \in AttemptsOf(k) \ expired : Paid(a)}) <= 1
  <2>1. \A a, b \in {e \in AttemptsOf(k) \ expired : Paid(e)} : a = b
    BY <1>3, OnePayment DEF QuietInv, Inv, TypeInv
  <2> QED
    BY <2>1, AtMostOne
<1>4. QuietInv => PaidOncePerRequestId
  BY <1>3 DEF PaidOncePerRequestId
<1> QED
  BY <1>1, <1>2, <1>4, PTL DEF Spec
=============================================================================
