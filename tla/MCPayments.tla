----------------------------- MODULE MCPayments -----------------------------
(* Small instances of Payments for TLC. *)
EXTENDS Payments, TLC

CONSTANTS i1, i2

TwoPrice == [i \in Invoices |-> 2]
DueInOrder == [i \in Invoices |-> IF i = i1 THEN 1 ELSE 2]
HandlerSymmetry == Permutations(Handlers)
=============================================================================
