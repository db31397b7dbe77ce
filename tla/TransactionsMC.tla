--------------------------- MODULE TransactionsMC ---------------------------
(* Two charge points behind another server, and one without; the ids of    *)
(* their requests are distinct, or begin with 1 for each of them.          *)
EXTENDS Transactions

CONSTANTS a, b, z

DistinctIds == a :> {1, 2} @@ b :> {3} @@ z :> {4}
SerialIds == [p \in Points |-> {1}]
=============================================================================
