------------------------------ MODULE Breaker ------------------------------
(***************************************************************************)
(* The circuit breaker that ResilienceWrapper puts in front of every rail  *)
(* adapter, as a pure data type.  The state machine is gobreaker's (an     *)
(* external library); its settings are those of NewResilienceWrapper.      *)
(*                                                                         *)
(* A breaker is a record: its state and the counts of its current          *)
(* generation.  gobreaker numbers the generations and drops the result of  *)
(* a call admitted in an older one; instead of the number, every call in   *)
(* flight carries a flag that says whether its generation is still the     *)
(* current one (see CircuitBreaker and Saga), which keeps states finite.   *)
(***************************************************************************)
EXTENDS Naturals

CONSTANTS
    TripRequests,   \* requests a generation needs before it can trip (5)
    TripTenths,     \* failures per ten requests that trip it (0.6 is 6)
    Probes          \* MaxRequests: calls a half-open breaker lets through (3)

ASSUME BreakerAssumption ==
    /\ TripRequests \in Nat \ {0}
    /\ TripTenths \in 0..10
    /\ Probes \in Nat \ {0}

Breakers == [ state : {"closed", "open", "halfopen"},
              req   : Nat,    \* Counts.Requests
              fail  : Nat,    \* Counts.TotalFailures
              won   : Nat ]   \* Counts.ConsecutiveSuccesses while half-open

\* toNewGeneration: the counts of a new generation are clear.
NewGeneration(s) == [state |-> s, req |-> 0, fail |-> 0, won |-> 0]

\* Bug: one probe too many.
AdmitsOneMore(b) ==
    \/ b.state = "closed"
    \/ b.state = "halfopen" /\ b.req <= Probes

\* beforeRequest refuses with ErrOpenState or ErrTooManyRequests.
Admits(b) ==
    \/ b.state = "closed"
    \/ b.state = "halfopen" /\ b.req < Probes

Admitted(b) == [b EXCEPT !.req = @ + 1]

\* The ReadyToTrip callback: at least 5 requests, at least 60% of them failed.
ReadyToTrip(b) ==
    /\ b.req >= TripRequests
    /\ b.fail * 10 >= b.req * TripTenths

\* Bug: asks for one success more than there are probes.
AfterSuccessAsksMore(b) ==
    CASE b.state = "halfopen" /\ b.won >= Probes -> NewGeneration("closed")
      [] b.state = "halfopen" /\ b.won < Probes  -> [b EXCEPT !.won = @ + 1]
      [] OTHER -> b

\* afterRequest of a call whose generation is still the current one.
AfterSuccess(b) ==
    CASE b.state = "halfopen" /\ b.won + 1 >= Probes -> NewGeneration("closed")
      [] b.state = "halfopen" /\ b.won + 1 < Probes  -> [b EXCEPT !.won = @ + 1]
      [] OTHER -> b

AfterFailure(b) ==
    LET counted == [b EXCEPT !.fail = @ + 1]
    IN  IF b.state = "halfopen" \/ ReadyToTrip(counted)
        THEN NewGeneration("open")
        ELSE counted

AfterRequest(b, ok) == IF ok THEN AfterSuccess(b) ELSE AfterFailure(b)

\* The breaker's half of ResilienceWrapper.HealthCheck.
Healthy(b) == b.state # "open"
=============================================================================
