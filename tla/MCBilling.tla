------------------------------ MODULE MCBilling ------------------------------
(***************************************************************************)
(* The two engines that bill in the background, side by side: a behaviour  *)
(* has the late fees or the charges. The variables of the other keep the   *)
(* value they start with.                                                  *)
(***************************************************************************)
EXTENDS LateFees, Charges, TLC

VARIABLE part

\* 10% and then 25% up to 40; a flat 30; a policy that was made milder.
FeeTier(days, kind, value, cap) ==
    [ageDays |-> days, kind |-> kind, value |-> value, cap |-> cap]
Stepped == <<FeeTier(1, "percent", 10, 0), FeeTier(2, "percent", 25, 40)>>
Flat == <<FeeTier(1, "flat", 30, 0)>>
Mild == <<FeeTier(2, "percent", 5, 0)>>
SomePolicies == {Stepped, Flat, Mild}
OnePolicy == {Stepped}

ofCharges == <<month, baseTerm, schedule, unitBilling, charged, chargeHistory>>
ofFees == <<invoice, tiers, age, events, outrun>>
billingVars == <<ofCharges, ofFees, requests, begun>>

BillingInit ==
    /\ ChargesInit /\ FeesInit
    /\ part # "charges" => baseTerm = 1
    /\ part # "fees" => tiers = Stepped /\ invoice.originalAmount = 0

BillingNext ==
    \/ part = "charges" /\ ChargesNext /\ UNCHANGED <<part, ofFees>>
    \/ part = "fees" /\ FeesNext /\ UNCHANGED <<part, ofCharges>>

BillingSpec == part \in {"charges", "fees"} /\ BillingInit /\ [][BillingNext]_<<part, billingVars>>

=============================================================================
