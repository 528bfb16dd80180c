--------------------------- MODULE Reconciliation ---------------------------
(***************************************************************************)
(* Confirmations of payments that rails send to the webhook, and the       *)
(* reconciliation worker that compares the ones not reconciled yet with    *)
(* the transactions they name, in runs of one database transaction each.   *)
(*                                                                         *)
(* Runs go on for ever, so of their rows only the last one is kept, and    *)
(* reconciled_at becomes: by the last run, or by an earlier one.  A        *)
(* confirmation of an unknown transaction is no row at all: the foreign    *)
(* key of external_confirmations refuses it and the webhook answers 500.   *)
(***************************************************************************)
EXTENDS Integers, FiniteSets

CONSTANTS
    Confirmation,      \* deliveries of the webhook; a repeated one is another
    NoConfirmation,
    Currency,
    External,          \* External[c]: amount and currency of confirmation c
    Internal,          \* Internal[c]: those of the transaction it names
    Quotes,            \* Quotes[p]: rates that may be stored for a pair, as fractions
    NoRate,            \* no row for the pair
    Reciprocal,        \* Reciprocal[r]: one over r, rounded to Decimal's digits
    Parts,             \* amounts count in this part of the quantum, 0.00000001
    MaxFaults          \* bound: errors of the database and crashes

\* The columns are DECIMAL: an amount need not be a multiple of the quantum.
Money == [amount : Int, currency : Currency]
Fraction == Int \X (Nat \ {0})
One == <<1, 1>>
Pairs == Currency \X Currency

Rate == UNION {Quotes[p] : p \in Pairs}

\* Decimal divides by them; by a rate of zero it raises.
Invertible == {r \in Rate : r[1] # 0}

ASSUME ReconciliationAssumption ==
    /\ IsFiniteSet(Confirmation) /\ NoConfirmation \notin Confirmation
    /\ External \in [Confirmation -> Money]
    /\ Internal \in [Confirmation -> Money]
    /\ Quotes \in [Pairs -> SUBSET Fraction] /\ NoRate \notin Rate
    /\ Reciprocal \in [Invertible -> Fraction]
    /\ Parts \in Nat \ {0}
    /\ MaxFaults \in Nat

VARIABLES
    stored,         \* rows of external_confirmations
    reconciled,     \* reconciled[c]: "no" (NULL), or the run: "last", "earlier"
    discrepancies,  \* confirmations with a row in discrepancies
    rates,          \* rates[p]: the pair's row in exchange_rates
    status,         \* status of the last run's row
    summary,        \* its summary's "matched"
    worker,         \* where the worker is
    pending,        \* confirmations fetched by the run under way
    work,           \* those it has updated since its last COMMIT
    matched,        \* matched_count
    current, rate,  \* the confirmation in hand and its exchange rate
    held,           \* held[p]: what that row was during the last run (history)
    faults

tables == <<stored, reconciled, discrepancies, rates, status, summary>>
locals == <<worker, pending, work, matched, current, rate, held>>
vars == <<tables, locals, faults>>

Active == {"fetching", "comparing", "reversing", "judging", "raised"}

TypeOK ==
    /\ stored \subseteq Confirmation
    /\ reconciled \in [Confirmation -> {"no", "last", "earlier"}]
    /\ discrepancies \subseteq Confirmation
    /\ rates \in [Pairs -> Rate \cup {NoRate}]
    /\ status \in {"none", "running", "completed", "failed"}
    /\ summary \in Nat
    /\ worker \in Active \cup {"idle", "dead"}
    /\ pending \subseteq stored
    /\ work \subseteq pending
    /\ worker = "fetching" => pending = {}
    /\ matched \in Nat
    /\ current \in Confirmation \cup {NoConfirmation}
    /\ worker \in {"reversing", "judging", "raised"} => current \in pending \ work
    /\ rate \in Fraction
    /\ held \in [Pairs -> SUBSET (Rate \cup {NoRate})]
    /\ faults \in 0 .. MaxFaults

Init ==
    /\ stored = {}
    /\ reconciled = [c \in Confirmation |-> "no"]
    /\ discrepancies = {}
    /\ rates = [p \in Pairs |-> NoRate]
    /\ status = "none"
    /\ summary = 0
    /\ worker = "idle"
    /\ pending = {}
    /\ work = {}
    /\ matched = 0
    /\ current = NoConfirmation
    /\ rate = One
    /\ held = [p \in Pairs |-> {}]
    /\ faults = 0
-----------------------------------------------------------------------------
(* Around the worker.                                                      *)

\* webhookHandler and CreateExternalConfirmation.
Deliver(c) ==
    /\ c \notin stored
    /\ stored' = stored \cup {c}
    /\ UNCHANGED <<reconciled, discrepancies, rates, status, summary, locals, faults>>

\* Somebody stores a pair's exchange rate or changes the one stored, also
\* while a run is under way, which reads what is committed at the time.
StoreRate(p, r) ==
    /\ p[1] # p[2]
    /\ r # rates[p]
    /\ rates' = [rates EXCEPT ![p] = r]
    /\ held' = IF worker \in Active THEN [held EXCEPT ![p] = @ \cup {r}] ELSE held
    /\ UNCHANGED <<stored, reconciled, discrepancies, status, summary,
                   worker, pending, work, matched, current, rate, faults>>
-----------------------------------------------------------------------------
(* reconcile.                                                              *)

Age(by) == IF by = "last" THEN "earlier" ELSE by

\* COMMIT: its answer comes, or it is lost with the connection.  Then the
\* exception handler raises too and the scheduler ends.
Commit(answered, next) ==
    IF answered
    THEN worker' = next /\ UNCHANGED faults
    ELSE worker' = "dead" /\ faults < MaxFaults /\ faults' = faults + 1

\* The row of the run.
Begin(answered) ==
    /\ worker = "idle"
    /\ status' = "running"
    /\ reconciled' = [c \in Confirmation |-> Age(reconciled[c])]
    /\ pending' = {} /\ work' = {} /\ matched' = 0
    /\ held' = [p \in Pairs |-> {rates[p]}]
    /\ Commit(answered, "fetching")
    /\ UNCHANGED <<stored, discrepancies, rates, summary, current, rate>>

\* Bug: every confirmation is fetched, reconciled or not.
FetchAll ==
    /\ worker = "fetching"
    /\ pending' = stored
    /\ worker' = "comparing"
    /\ UNCHANGED <<tables, work, matched, current, rate, held, faults>>

Fetch ==
    /\ worker = "fetching"
    /\ pending' = {c \in stored : reconciled[c] = "no"}
    /\ worker' = "comparing"
    /\ UNCHANGED <<tables, work, matched, current, rate, held, faults>>

Pair(c) == <<External[c].currency, Internal[c].currency>>
Reverse(p) == <<p[2], p[1]>>

\* Bug: a confirmation may come up twice in a run.
LookUpAgain(c) ==
    /\ worker = "comparing"
    /\ c \in pending
    /\ current' = c
    /\ IF Pair(c)[1] = Pair(c)[2] \/ rates[Pair(c)] # NoRate
       THEN /\ worker' = "judging"
            /\ rate' = IF Pair(c)[1] = Pair(c)[2] THEN One ELSE rates[Pair(c)]
       ELSE worker' = "reversing" /\ UNCHANGED rate
    /\ UNCHANGED <<tables, pending, work, matched, held, faults>>

\* The next confirmation, in no particular order, and the first half of
\* fetch_exchange_rate: the same currency, or a rate for the pair.
LookUp(c) ==
    /\ worker = "comparing"
    /\ c \in pending \ work
    /\ current' = c
    /\ IF Pair(c)[1] = Pair(c)[2] \/ rates[Pair(c)] # NoRate
       THEN /\ worker' = "judging"
            /\ rate' = IF Pair(c)[1] = Pair(c)[2] THEN One ELSE rates[Pair(c)]
       ELSE worker' = "reversing" /\ UNCHANGED rate
    /\ UNCHANGED <<tables, pending, work, matched, held, faults>>

\* Bug: the reversed pair is not tried.
LookUpNoReverse ==
    /\ worker = "reversing"
    /\ rate' = One
    /\ worker' = "judging"
    /\ UNCHANGED <<tables, pending, work, matched, current, held, faults>>

\* Its second half: one over the rate of the reversed pair, or 1.0.
LookUpReverse ==
    /\ worker = "reversing"
    /\ LET row == rates[Reverse(Pair(current))]
       IN  /\ row \in Invertible \cup {NoRate}
           /\ rate' = IF row = NoRate THEN One ELSE Reciprocal[row]
    /\ worker' = "judging"
    /\ UNCHANGED <<tables, pending, work, matched, current, held, faults>>

DivideByZero ==
    /\ worker = "reversing"
    /\ rates[Reverse(Pair(current))] \in Rate \ Invertible
    /\ worker' = "raised"
    /\ UNCHANGED <<tables, pending, work, matched, current, rate, held, faults>>

\* quantize rounds halves to even.
Quantize(n, d) ==
    LET q == n \div d
        r == n % d
    IN  IF 2 * r > d \/ (2 * r = d /\ q % 2 = 1) THEN q + 1 ELSE q

\* What is confirmed is rounded to the quantum, in one currency too.
Agrees(c, r) ==
    Parts * Quantize(External[c].amount * r[1], Parts * r[2]) = Internal[c].amount

Match ==
    /\ worker = "judging"
    /\ Agrees(current, rate)
    /\ work' = work \cup {current}
    /\ matched' = matched + 1
    /\ worker' = "comparing"
    /\ UNCHANGED <<tables, pending, current, rate, held, faults>>

\* A discrepancy: its INSERT has four placeholders and five parameters, so
\* execute raises before anything is sent to the database.  The adjustment
\* and the alert after it are never reached.
Mismatch ==
    /\ worker = "judging"
    /\ ~ Agrees(current, rate)
    /\ worker' = "raised"
    /\ UNCHANGED <<tables, pending, work, matched, current, rate, held, faults>>

\* reconciled with the updates of the run.
Updated == [c \in Confirmation |-> IF c \in work THEN "last" ELSE reconciled[c]]

\* Bugs: the run completes with confirmations left; it is not committed.
CompleteEarly(answered) ==
    /\ worker = "comparing"
    /\ status' = "completed"
    /\ summary' = matched
    /\ reconciled' = Updated
    /\ Commit(answered, "idle")
    /\ UNCHANGED <<stored, discrepancies, rates, pending, work, matched, current, rate, held>>

CompleteUncommitted(answered) ==
    /\ worker = "comparing"
    /\ work = pending
    /\ Commit(answered, "idle")
    /\ UNCHANGED <<tables, pending, work, matched, current, rate, held>>

Complete(answered) ==
    /\ worker = "comparing"
    /\ work = pending
    /\ status' = "completed"
    /\ summary' = matched
    /\ reconciled' = Updated
    /\ Commit(answered, "idle")
    /\ UNCHANGED <<stored, discrepancies, rates, pending, work, matched, current, rate, held>>

\* The exception handler: a failed run, whose COMMIT keeps what it matched
\* before the exception.
Fail(answered) ==
    /\ worker = "raised"
    /\ status' = "failed"
    /\ reconciled' = Updated
    /\ Commit(answered, "idle")
    /\ UNCHANGED <<stored, discrepancies, rates, summary, pending, work, matched, current,
                   rate, held>>

\* No connection, or an error of the database: the UPDATE in the exception
\* handler raises again, as the transaction is aborted or the connection
\* gone, the work is rolled back and the exception ends the scheduler.  A
\* crash does the same.
Die ==
    /\ worker # "dead"
    /\ faults < MaxFaults /\ faults' = faults + 1
    /\ worker' = "dead"
    /\ UNCHANGED <<tables, pending, work, matched, current, rate, held>>

\* The container is started again, by hand: nothing restarts it.
Restart ==
    /\ worker = "dead"
    /\ worker' = "idle"
    /\ UNCHANGED <<tables, pending, work, matched, current, rate, held, faults>>

Run ==
    \/ Begin(TRUE) \/ Fetch \/ \E c \in Confirmation : LookUp(c)
    \/ LookUpReverse \/ DivideByZero \/ Match \/ Mismatch \/ Complete(TRUE) \/ Fail(TRUE)

Next ==
    \/ \E c \in Confirmation : Deliver(c)
    \/ \E p \in Pairs : \E r \in Quotes[p] : StoreRate(p, r)
    \/ Run
    \/ Begin(FALSE) \/ Complete(FALSE) \/ Fail(FALSE)
    \/ Die \/ Restart

Spec == Init /\ [][Next]_vars

\* The scheduler begins a run every minute, and a run goes on.
FairSpec == Spec /\ WF_vars(Run)
-----------------------------------------------------------------------------
(* Properties.                                                             *)

ByLast == {c \in Confirmation : reconciled[c] = "last"}

\* The row of a run tells what became of it, through exceptions, lost answers
\* and crashes: a completed one has reconciled all that it fetched and counts
\* it, a failed one not the confirmation it failed at, one that is still
\* running, or always will be, nothing.
RunsTellTheTruth ==
    /\ status = "completed" => ByLast = pending /\ summary = Cardinality(ByLast)
    /\ status = "failed" => ByLast \subseteq pending \ {current}
    /\ status \in {"none", "running"} => ByLast = {}

\* A confirmation is reconciled once, by one run, whichever runs die.
SettledOnce ==
    [][ \A c \in Confirmation :
            /\ reconciled[c] = "earlier" => reconciled'[c] = "earlier"
            /\ reconciled[c] = "last" => reconciled'[c] # "no" ]_vars

\* The rates that the rows of a pair and of its reverse prescribed at some
\* moment of the last run.
Prescribed(p) ==
    IF p[1] = p[2] THEN {One}
    ELSE UNION {held[p] \cap Rate,
                IF NoRate \in held[p]
                THEN {Reciprocal[r] : r \in held[Reverse(p)] \cap Invertible} ELSE {},
                IF NoRate \in held[p] \cap held[Reverse(p)] THEN {One} ELSE {}}

\* What a run reconciles agrees, rounded to the quantum, at a rate that was on
\* record during the run: the reverse decides only if the pair had no row, and
\* the default of 1.0 only if neither had one.
KnownRatesDecide == \A c \in ByLast : \E r \in Prescribed(Pair(c)) : Agrees(c, r)

\* A confirmation that does not agree at today's rates.
AgreesNow(c) ==
    LET p == Pair(c)
        reverse == rates[Reverse(p)]
    IN  IF p[1] = p[2] THEN Agrees(c, One)
        ELSE IF rates[p] # NoRate THEN Agrees(c, rates[p])
        ELSE IF reverse = NoRate THEN Agrees(c, One)
        ELSE reverse \in Invertible /\ Agrees(c, Reciprocal[reverse])

Disagrees(c) == c \in stored /\ reconciled[c] = "no" /\ ~ AgreesNow(c)

\* Unless some confirmation disagrees (which fails every run that meets it)
\* or the worker is dead, each confirmation is reconciled in the end.
MatchesArrive ==
    \A c \in Confirmation :
        c \in stored ~> \/ reconciled[c] # "no"
                       \/ worker = "dead"
                       \/ \E d \in Confirmation : Disagrees(d)

=============================================================================
