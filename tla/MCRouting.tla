----------------------------- MODULE MCRouting ------------------------------
(***************************************************************************)
(* An instance of Routing with rails of the default registry, the scores   *)
(* they give themselves and the modifiers of mockPolicyCall.  A rail may   *)
(* fail if executing some request on it may.                               *)
(***************************************************************************)
EXTENDS Routing

R == INSTANCE Rails

CONSTANT Amount   \* of every transaction; only stripe's estimate looks at it

MCSupports == [c \in Currency |-> {r \in Rail : c \in R!SupportedCurrencies(r)}]
MCStatic == [r \in Rail |-> R!StaticScore(r, Amount)]
MCModifier == [r \in Rail |-> R!RailModifier(r)]
MCFailing ==
    {r \in Rail : \E req \in R!Requests :
         R!ExecuteOutcomes(r, req) \cap {"declined", "unconfirmed", "panics"} # {}}

\* The default rails of the instance, asked for its currencies, lie as far
\* apart as the order needs.
ASSUME SpreadAssumption == Spread
=============================================================================
