----------------------------- MODULE Settlement -----------------------------
(***************************************************************************)
(* What the payment ledger promises for each checkout, whatever happens to *)
(* webhooks, verify calls and requests on the way: money that was charged  *)
(* is credited once, and what is reversed stays reversed.                  *)
(***************************************************************************)
CONSTANT Intents

VARIABLES
    charged,   \* intents whose money the processor has taken
    ledger     \* what the ledger says of each

vars == <<charged, ledger>>

TypeOK ==
    /\ charged \subseteq Intents
    /\ ledger \in [Intents -> {"nothing", "credited", "reversed"}]

Init ==
    /\ charged = {}
    /\ ledger = [x \in Intents |-> "nothing"]

Charge(x) ==
    /\ x \notin charged
    /\ charged' = charged \cup {x}
    /\ UNCHANGED ledger

Credit(x) ==
    /\ x \in charged
    /\ ledger[x] = "nothing"
    /\ ledger' = [ledger EXCEPT ![x] = "credited"]
    /\ UNCHANGED charged

Reverse(x) ==
    /\ ledger[x] = "credited"
    /\ ledger' = [ledger EXCEPT ![x] = "reversed"]
    /\ UNCHANGED charged

Next == \E x \in Intents : Charge(x) \/ Credit(x) \/ Reverse(x)

Spec == Init /\ [][Next]_vars

FairSpec == Spec /\ \A x \in Intents : WF_vars(Credit(x))
=============================================================================
