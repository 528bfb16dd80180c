------------------------------ MODULE MCSpend ------------------------------
(***************************************************************************)
(* Instances of Spend: a handful of calls, by name.                        *)
(***************************************************************************)
EXTENDS Spend

CONSTANTS
    SameKey,     \* calls that name the one request_id of the instance
    Typescript,  \* calls made with the TypeScript SDK
    Once,        \* calls configured with no retries
    Configured   \* max_retries, maxRetries of the others

MCSdk == [c \in Call |-> IF c \in Typescript THEN "typescript" ELSE "python"]
MCMaxRetries == [c \in Call |-> IF c \in Once THEN 0 ELSE Configured]
MCKeyOf == [c \in Call |-> IF c \in SameKey THEN CHOOSE k \in Key : TRUE ELSE NoKey]
=============================================================================
