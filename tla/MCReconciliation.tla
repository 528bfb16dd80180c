-------------------------- MODULE MCReconciliation --------------------------
(***************************************************************************)
(* An instance of Reconciliation: transactions of ten quanta, amounts in   *)
(* halves of it and Decimals of one digit.  "exact" is confirmed in        *)
(* dollars, half a quantum over, which is rounded to even; "euros" agrees  *)
(* at the rate of 0.3, stored or the reciprocal of 3 (exactly it would     *)
(* not); "par" agrees at the default of 1.0 only.                          *)
(***************************************************************************)
EXTENDS Reconciliation

Amount(n, currency) == [amount |-> n, currency |-> currency]

MCExternal == [c \in Confirmation |->
    CASE c = "exact" -> Amount(21, "USD")
      [] c = "euros" -> Amount(66, "EUR")
      [] c = "par" -> Amount(20, "EUR")]
MCInternal == [c \in Confirmation |-> Amount(20, "USD")]
MCQuotes == [p \in Pairs |->
    CASE p = <<"EUR", "USD">> -> {<<3, 10>>, <<3, 1>>}
      [] p = <<"USD", "EUR">> -> {<<0, 1>>, <<3, 1>>}
      [] OTHER -> {}]
MCReciprocal == [r \in Invertible |-> IF r = <<3, 1>> THEN <<3, 10>> ELSE <<3, 1>>]
=============================================================================
