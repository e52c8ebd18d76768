-------------------------- MODULE MCLedgerBackfill --------------------------
(* Small instances of LedgerBackfill for TLC. *)
EXTENDS LedgerBackfill, TLC

CONSTANTS i1, i2, m0, m1, m2

TwoPrice == [i \in Invoices |-> 2]
OneAndTwo == [r \in Legacy |-> IF r = m0 THEN 1 ELSE 2]
DueInOrder == [i \in Invoices |-> IF i = i1 THEN 1 ELSE 2]
=============================================================================
