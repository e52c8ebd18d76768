---------------------------- MODULE MCReceivables ----------------------------
(* The billing desk beside the two engines that bill: see MCBilling. *)
EXTENDS MCBilling, BillingDesk

OddPrice == [s \in Sources |-> 3]

ReceivablesInit == part \in {"charges", "fees", "desk"} /\ BillingInit /\ Init

ReceivablesNext ==
    \/ BillingNext /\ UNCHANGED vars
    \/ part = "desk" /\ Next /\ UNCHANGED <<part, billingVars>>

ReceivablesSpec == ReceivablesInit /\ [][ReceivablesNext]_<<part, billingVars, vars>>

\* Tasks and requests are of one set of names.
Symmetry == Permutations(Tasks) \cup Permutations(Plans)

=============================================================================
