-------------------------- MODULE PaymentContract --------------------------
(***************************************************************************)
(* What SagaCoordinator.Orchestrate promises about one transaction,        *)
(* whatever rails, breakers, retries and fallbacks lie underneath:         *)
(*                                                                         *)
(*   - a rail that reports what it did is charged at most once, and then   *)
(*     the transaction is executed on that rail and on no other;           *)
(*   - only a rail whose answer can get lost after it took the money may   *)
(*     be charged without being the one the transaction is executed on;    *)
(*   - a transaction reported as failed has no other charges than those;   *)
(*   - only an executed transaction is billed, once, and to its rail.      *)
(*                                                                         *)
(* A crash abandons what is open, paid or not: no saga state is durable    *)
(* that the program could recover from.                                    *)
(***************************************************************************)
EXTENDS Naturals

CONSTANTS
    Tx,          \* transactions
    Rail,        \* registered rails
    UnsureRails, \* UnsureRails[t]: rails that may charge t and still return an error
    UnpaidRails, \* UnpaidRails[t]: rails that may succeed for t without charging it
    NoRail

VARIABLES
    status,      \* "new", "open", "executed", "failed" or "abandoned"
    charges,     \* charges[t][r]: payments of t that rail r has made
    provider,    \* the rail whose result the caller is told
    billing      \* metering event of t: "none", "sent", "published", "dropped"

contractVars == <<status, charges, provider, billing>>

CInit ==
    /\ status = [t \in Tx |-> "new"]
    /\ charges = [t \in Tx |-> [r \in Rail |-> 0]]
    /\ provider = [t \in Tx |-> NoRail]
    /\ billing = [t \in Tx |-> "none"]

\* No rail that reports what it did has been charged.
NothingCertain(t) == \A r \in Rail \ UnsureRails[t] : charges[t][r] = 0

Open(t) ==
    /\ status[t] = "new"
    /\ status' = [status EXCEPT ![t] = "open"]
    /\ UNCHANGED <<charges, provider, billing>>

\* Until the first charge that will be reported, and never after it.
Charge(t, r) ==
    /\ status[t] = "open"
    /\ NothingCertain(t)
    /\ charges' = [charges EXCEPT ![t][r] = @ + 1]
    /\ UNCHANGED <<status, provider, billing>>

Execute(t, r) ==
    /\ status[t] = "open"
    /\ r \in UnpaidRails[t] \/ charges[t][r] > 0
    /\ \A q \in Rail \ (UnsureRails[t] \cup {r}) : charges[t][q] = 0
    /\ status' = [status EXCEPT ![t] = "executed"]
    /\ provider' = [provider EXCEPT ![t] = r]
    /\ billing' = [billing EXCEPT ![t] = "sent"]
    /\ UNCHANGED charges

Fail(t) ==
    /\ status[t] = "open"
    /\ NothingCertain(t)
    /\ status' = [status EXCEPT ![t] = "failed"]
    /\ UNCHANGED <<charges, provider, billing>>

Bill(t, outcome) ==
    /\ billing[t] = "sent"
    /\ status[t] = "executed"
    /\ billing' = [billing EXCEPT ![t] = outcome]
    /\ UNCHANGED <<status, charges, provider>>

\* The process stops: what is open is abandoned, what is unsent is dropped.
Stop ==
    /\ status' = [t \in Tx |-> IF status[t] = "open" THEN "abandoned" ELSE status[t]]
    /\ billing' = [t \in Tx |-> IF billing[t] = "sent" THEN "dropped" ELSE billing[t]]
    /\ UNCHANGED <<charges, provider>>

\* A panic ends one transaction, before anything certain has been charged.
Abandon(t) ==
    /\ status[t] = "open"
    /\ NothingCertain(t)
    /\ status' = [status EXCEPT ![t] = "abandoned"]
    /\ UNCHANGED <<charges, provider, billing>>

CNext ==
    \/ \E t \in Tx : Open(t) \/ Fail(t) \/ Abandon(t)
    \/ \E t \in Tx, r \in Rail : Charge(t, r) \/ Execute(t, r)
    \/ \E t \in Tx, outcome \in {"published", "dropped"} : Bill(t, outcome)
    \/ Stop

CSpec == CInit /\ [][CNext]_contractVars
=============================================================================
