------------------------ MODULE CircuitBreakerProofs ------------------------
(***************************************************************************)
(* The breaker's accounts balance for any number of goroutines and any     *)
(* settings, with no bound on the window (MaxWindow only disables steps).  *)
(***************************************************************************)
EXTENDS CircuitBreaker, FiniteSetTheorems, TLAPS

Inv == TypeOK /\ ProbeAccounting /\ WindowAccounting

\* Sets of calls are finite; one call is counted or forgotten at a time.
LEMMA CallsFinite ==
    ASSUME TypeOK
    PROVE  IsFiniteSet(fresh) /\ Cardinality(fresh) \in Nat
<1>1. IsFiniteSet(inflight)
  BY CallerAssumption, FS_Subset DEF TypeOK
<1>2. IsFiniteSet(fresh)
  BY <1>1, FS_Subset DEF TypeOK
<1> QED
  BY <1>2, FS_CardinalityType

LEMMA NoCalls == Cardinality({}) = 0
BY FS_EmptySet

LEMMA InvInit == Init => Inv
BY NoCalls, BreakerAssumption
   DEF Init, Inv, TypeOK, ProbeAccounting, WindowAccounting, NewGeneration, Breakers

LEMMA InvStep == Inv /\ [Next]_vars => Inv'
<1> SUFFICES ASSUME Inv, [Next]_vars
             PROVE  Inv'
  OBVIOUS
<1> USE BreakerAssumption DEF Inv, TypeOK, Breakers
<1>1. Cardinality(fresh) \in Nat /\ IsFiniteSet(fresh)
  BY CallsFinite
<1>2. ASSUME NEW c \in Caller, Enter(c)
      PROVE  Inv'
  <2>1. Cardinality(fresh') = Cardinality(fresh) + 1
    <3>1. c \notin fresh
      BY <1>2 DEF Enter
    <3> QED
      BY <1>1, <1>2, <3>1, FS_AddElement DEF Enter
  <2>2. breaker' = [breaker EXCEPT !.req = @ + 1] /\ TypeOK'
    BY <1>2 DEF Enter, Admitted
  <2>3. CASE breaker.state = "closed"
    BY <1>1, <2>1, <2>2, <2>3 DEF ProbeAccounting, WindowAccounting
  <2>4. CASE breaker.state = "halfopen"
    <3>1. breaker.req < Probes
      BY <1>2, <2>4 DEF Enter, Admits
    <3> QED
      BY <1>1, <2>1, <2>2, <2>4, <3>1 DEF ProbeAccounting, WindowAccounting
  <2> QED
    BY <1>2, <2>3, <2>4 DEF Enter, Admits
<1>3. ASSUME NEW c \in Caller, NEW ok \in BOOLEAN, Return(c, ok)
      PROVE  Inv'
  <2>1. CASE c \notin fresh
    BY <1>3, <2>1 DEF Return, ProbeAccounting, WindowAccounting
  <2>2. CASE c \in fresh
    <3>1. /\ Cardinality(fresh \ {c}) = Cardinality(fresh) - 1
          /\ Cardinality(fresh) >= 1
      <4>1. IsFiniteSet(fresh \ {c}) /\ Cardinality(fresh \ {c}) = Cardinality(fresh) - 1
        BY <1>1, <2>2, FS_RemoveElement
      <4>2. Cardinality(fresh \ {c}) \in Nat
        BY <4>1, FS_CardinalityType
      <4> QED
        BY <1>1, <4>1, <4>2
    <3>2. /\ breaker' = AfterRequest(breaker, ok)
          /\ fresh' = IF breaker'.state = breaker.state THEN fresh \ {c} ELSE {}
          /\ inflight' = inflight \ {c}
      BY <1>3, <2>2 DEF Return
    <3>3. breaker.state # "open"
      BY <2>2 DEF ProbeAccounting
    <3>4. CASE ok /\ breaker.state = "closed"
      BY <1>1, <3>1, <3>2, <3>4 DEF AfterRequest, AfterSuccess, ProbeAccounting, WindowAccounting
    <3>5. CASE ok /\ breaker.state = "halfopen"
      <4>1. CASE breaker.won + 1 >= Probes
        BY <3>2, <3>5, <4>1, NoCalls
           DEF AfterRequest, AfterSuccess, NewGeneration, ProbeAccounting, WindowAccounting
      <4>2. CASE ~ (breaker.won + 1 >= Probes)
        <5>1. breaker' = [breaker EXCEPT !.won = @ + 1]
          BY <3>2, <3>5, <4>2 DEF AfterRequest, AfterSuccess
        <5>2. /\ breaker' \in Breakers /\ breaker'.state = "halfopen"
              /\ breaker'.won = breaker.won + 1 /\ breaker'.req = breaker.req
              /\ breaker'.fail = breaker.fail
          BY <3>5, <5>1
        <5>3. fresh' = fresh \ {c} /\ Cardinality(fresh') = Cardinality(fresh) - 1
          BY <3>1, <3>2, <3>5, <5>2
        <5>4. /\ breaker.won \in Nat /\ breaker.req \in Nat /\ Probes \in Nat
              /\ breaker.fail = 0 /\ breaker.req <= Probes
              /\ breaker.req = breaker.won + Cardinality(fresh)
          BY <3>5 DEF ProbeAccounting
        <5>5. ProbeAccounting' /\ WindowAccounting'
          BY <1>1, <4>2, <5>2, <5>3, <5>4 DEF ProbeAccounting, WindowAccounting
        <5> QED
          BY <3>2, <5>2, <5>3, <5>5
      <4> QED
        BY <4>1, <4>2
    <3>6. CASE ~ ok
      <4>1. CASE breaker' = NewGeneration("open")
        BY <3>2, <3>3, <4>1, NoCalls DEF NewGeneration, ProbeAccounting, WindowAccounting
      <4>2. CASE breaker' # NewGeneration("open")
        <5>1. breaker.state = "closed" /\ breaker' = [breaker EXCEPT !.fail = @ + 1]
          BY <3>2, <3>3, <3>6, <4>2 DEF AfterRequest, AfterFailure
        <5>2. /\ breaker' \in Breakers /\ breaker'.state = "closed"
              /\ breaker'.fail = breaker.fail + 1 /\ breaker'.req = breaker.req
          BY <5>1
        <5>3. fresh' = fresh \ {c} /\ Cardinality(fresh') = Cardinality(fresh) - 1
          BY <3>1, <3>2, <5>1, <5>2
        <5> QED
          BY <1>1, <3>2, <5>1, <5>2, <5>3 DEF ProbeAccounting, WindowAccounting
      <4> QED
        BY <4>1, <4>2
    <3> QED
      BY <3>3, <3>4, <3>5, <3>6
  <2> QED
    BY <2>1, <2>2
<1>4. ASSUME IntervalElapses \/ TimeoutElapses
      PROVE  Inv'
  BY <1>4, NoCalls
     DEF IntervalElapses, TimeoutElapses, NewGeneration, ProbeAccounting, WindowAccounting
<1>5. CASE UNCHANGED vars
  BY <1>5 DEF vars, ProbeAccounting, WindowAccounting
<1> QED
  BY <1>2, <1>3, <1>4, <1>5 DEF Next

\* Every variable of the breaker keeps its type.
THEOREM TypeCorrect == Spec => []TypeOK
<1>1. Inv => TypeOK
  BY DEF Inv
<1> QED
  BY <1>1, InvInit, InvStep, PTL DEF Spec

\* At most Probes calls test a half-open rail, whatever calls of earlier
\* generations are still out, nothing can move an open breaker, and the ratio
\* that trips a closed one is at most one.
THEOREM CountsBalance == Spec => []CountsAddUp
<1>1. Inv => CountsAddUp
  BY DEF Inv, CountsAddUp
<1> QED
  BY <1>1, InvInit, InvStep, PTL DEF Spec

\* Only the current generation moves the breaker between states.
THEOREM StaleResultsIgnored == Spec => StaleResultsDecideNothing
<1>1. [Next]_vars => [ breaker.state # "open" /\ breaker'.state # breaker.state =>
                         \E c \in fresh : inflight' = inflight \ {c} ]_vars
  <2> SUFFICES ASSUME [Next]_vars, breaker.state # "open", breaker'.state # breaker.state
               PROVE  \E c \in fresh : inflight' = inflight \ {c}
    OBVIOUS
  <2>1. ASSUME NEW c \in Caller, Enter(c) PROVE FALSE
    BY <2>1 DEF Enter, Admitted
  <2>2. ASSUME NEW c \in Caller, NEW ok \in BOOLEAN, Return(c, ok)
        PROVE  c \in fresh /\ inflight' = inflight \ {c}
    BY <2>2 DEF Return
  <2>3. ASSUME IntervalElapses \/ TimeoutElapses PROVE FALSE
    BY <2>3 DEF IntervalElapses, TimeoutElapses, NewGeneration
  <2> QED
    BY <2>1, <2>2, <2>3 DEF Next, vars
<1> QED
  BY <1>1, PTL DEF Spec, StaleResultsDecideNothing
=============================================================================
