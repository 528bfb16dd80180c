--------------------------- MODULE CircuitBreaker ---------------------------
(***************************************************************************)
(* One ResilienceWrapper shared by several goroutines: every caller may    *)
(* enter the breaker, run the adapter outside the breaker's lock, and come *)
(* back with a result after any number of other calls, after the interval  *)
(* has cleared the counts, or after the breaker has changed state.         *)
(***************************************************************************)
EXTENDS Breaker, FiniteSets

CONSTANTS
    Caller,      \* goroutines that call Execute on this wrapper
    MaxWindow    \* bound: calls admitted in one closed generation

ASSUME CallerAssumption == IsFiniteSet(Caller) /\ MaxWindow \in Nat

VARIABLES
    breaker,     \* the breaker's record
    inflight,    \* callers inside adapter.Execute
    fresh        \* those of them admitted in the current generation

vars == <<breaker, inflight, fresh>>

TypeOK ==
    /\ breaker \in Breakers
    /\ inflight \subseteq Caller
    /\ fresh \subseteq inflight

Init ==
    /\ breaker = NewGeneration("closed")
    /\ inflight = {}
    /\ fresh = {}

\* cb.Execute up to the adapter: the call is counted and goes out.
Enter(c) ==
    /\ c \notin inflight
    /\ Admits(breaker)
    /\ breaker.state = "closed" => breaker.req < MaxWindow
    /\ breaker' = Admitted(breaker)
    /\ inflight' = inflight \cup {c}
    /\ fresh' = fresh \cup {c}

\* Bugs: the generation of a result is not looked at; a call that is over
\* still counts as out.
ReturnAnyGeneration(c, ok) ==
    /\ c \in inflight
    /\ inflight' = inflight \ {c}
    /\ breaker' = AfterRequest(breaker, ok)
    /\ fresh' = IF breaker'.state = breaker.state THEN fresh \ {c} ELSE {}

ReturnStillOut(c, ok) ==
    /\ c \in inflight
    /\ inflight' = inflight \ {c}
    /\ breaker' = IF c \in fresh THEN AfterRequest(breaker, ok) ELSE breaker
    /\ fresh' = IF breaker'.state = breaker.state THEN fresh ELSE {}

\* The adapter is back.  Results of older generations are not counted.
Return(c, ok) ==
    /\ c \in inflight
    /\ inflight' = inflight \ {c}
    /\ IF c \in fresh
       THEN /\ breaker' = AfterRequest(breaker, ok)
            /\ fresh' = IF breaker'.state = breaker.state THEN fresh \ {c} ELSE {}
       ELSE UNCHANGED <<breaker, fresh>>

\* Interval (5s) of a closed breaker: counts start again.
IntervalElapses ==
    /\ breaker.state = "closed"
    /\ breaker' = NewGeneration("closed")
    /\ fresh' = {}
    /\ UNCHANGED inflight

\* Timeout (30s) of an open breaker: it lets probes through.
TimeoutElapses ==
    /\ breaker.state = "open"
    /\ breaker' = NewGeneration("halfopen")
    /\ fresh' = {}
    /\ UNCHANGED inflight

Next ==
    \/ \E c \in Caller : Enter(c)
    \/ \E c \in Caller, ok \in BOOLEAN : Return(c, ok)
    \/ IntervalElapses
    \/ TimeoutElapses

\* The clock moves on and an adapter call comes back: the http client of x402
\* has a 30s timeout, the other adapters do not wait for anything.
Fairness ==
    /\ WF_vars(TimeoutElapses)
    /\ \A c \in Caller : WF_vars(\E ok \in BOOLEAN : Return(c, ok))

Spec == Init /\ [][Next]_vars /\ Fairness
-----------------------------------------------------------------------------
\* While half-open, the probes in flight and the probes won are exactly the
\* calls counted, so at most Probes calls test the rail, no failure is
\* pending, and an open breaker has no call that could still move it.
ProbeAccounting ==
    /\ breaker.state = "halfopen" =>
           /\ breaker.fail = 0
           /\ breaker.req = breaker.won + Cardinality(fresh)
           /\ breaker.req <= Probes
           /\ breaker.won < Probes
    /\ breaker.state = "open" => fresh = {} /\ breaker.req = 0

\* In a closed generation every failure counted is a call that came back in
\* it, so the ratio ReadyToTrip computes never exceeds one, and the requests
\* that are still out weigh as if they had succeeded.
WindowAccounting ==
    breaker.state = "closed" => breaker.fail + Cardinality(fresh) <= breaker.req

\* The counts agree with the calls that are out, in every state.
CountsAddUp == ProbeAccounting /\ WindowAccounting

\* Only the result of a call admitted in the current generation moves the
\* breaker between states; whatever was admitted before the counts were last
\* cleared comes back without effect (the open breaker's timeout apart).
StaleResultsDecideNothing ==
    [][ breaker.state # "open" /\ breaker'.state # breaker.state =>
          \E c \in fresh : inflight' = inflight \ {c} ]_vars

\* A half-open breaker that has handed out all its probes does not stay so:
\* the calls it waits for come back and it closes or opens (gobreaker wedges
\* in half-open when one of them never returns).
ProbesDecide ==
    (breaker.state = "halfopen" /\ breaker.req = Probes)
        ~> breaker.state # "halfopen"
=============================================================================
