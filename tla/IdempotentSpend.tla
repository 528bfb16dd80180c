-------------------------- MODULE IdempotentSpend --------------------------
(***************************************************************************)
(* What README_API.md promises of a request_id: the first successful       *)
(* response is remembered, every call with the same request_id gets that   *)
(* response, and the request is paid once until the response is forgotten  *)
(* (24 hours later).                                                       *)
(***************************************************************************)
CONSTANTS
    Call,        \* calls of the SDK's spend()
    Key,         \* request_ids
    KeyOf,       \* KeyOf[c]: the request_id of call c
    Tx,          \* transactions the service may create
    NoTx

VARIABLES
    remembered,  \* remembered[k]: the transaction in the cached response
    paid,        \* paid[k]: transactions of k whose payment is certain
    forgotten,   \* forgotten[k]: those of them whose response has expired
    result       \* result[c]: the transaction that spend() returned

promise == <<remembered, paid, forgotten, result>>

PInit ==
    /\ remembered = [k \in Key |-> NoTx]
    /\ paid = [k \in Key |-> {}]
    /\ forgotten = [k \in Key |-> {}]
    /\ result = [c \in Call |-> NoTx]

Pay(k, t) ==
    /\ remembered[k] = NoTx
    /\ paid[k] \subseteq forgotten[k]
    /\ paid' = [paid EXCEPT ![k] = @ \cup {t}]
    /\ UNCHANGED <<remembered, forgotten, result>>

\* The response that is remembered is that of the payment made.
Remember(k, t) ==
    /\ remembered[k] = NoTx
    /\ paid[k] \subseteq forgotten[k] \cup {t}
    /\ remembered' = [remembered EXCEPT ![k] = t]
    /\ UNCHANGED <<paid, forgotten, result>>

Answer(c) ==
    /\ result[c] = NoTx
    /\ remembered[KeyOf[c]] # NoTx
    /\ result' = [result EXCEPT ![c] = remembered[KeyOf[c]]]
    /\ UNCHANGED <<remembered, paid, forgotten>>

Forget(k) ==
    /\ remembered' = [remembered EXCEPT ![k] = NoTx]
    /\ forgotten' = [forgotten EXCEPT ![k] = paid[k]]
    /\ UNCHANGED <<paid, result>>

PNext ==
    \/ \E k \in Key, t \in Tx : Pay(k, t) \/ Remember(k, t)
    \/ \E c \in Call : Answer(c)
    \/ \E k \in Key : Forget(k)

PSpec == PInit /\ [][PNext]_promise
=============================================================================
