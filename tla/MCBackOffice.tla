---------------------------- MODULE MCBackOffice ----------------------------
(***************************************************************************)
(* The upgrade of the ledger, the payables and the webhooks, side by side: *)
(* they share no rows. A behaviour has one of them, and the variables of   *)
(* the others keep the value they start with.                              *)
(***************************************************************************)
EXTENDS MCLedgerBackfill, Payables, WebhookDelivery

CONSTANTS clerk, ann, ben, finance, exco

VARIABLE part

RoleTable == [u \in Users |-> IF u = clerk THEN finance ELSE exco]

Form(mode, count, first, second) ==
    [active |-> TRUE, minAmount |-> 2, maxAmount |-> 3, mode |-> mode,
     approverCount |-> count, roles |-> [s \in Slots |-> IF s = 1 THEN first ELSE second]]

Forms ==
    {Form("all", 1, exco, exco), Form("any", 1, exco, NoRole),
     Form("sequential", 1, finance, exco)}

ofLedger == <<vars, migrationVars>>

OfficeInit ==
    /\ part \in {"upgrade", "payables", "webhooks"}
    /\ MigrationInit /\ PayablesInit /\ WebhooksInit
    /\ part # "payables" => rules = [r \in Rules |-> NoRuleRow]
    /\ part # "webhooks" => ~ columnsMatch

OfficeNext ==
    \/ part = "upgrade" /\ MigrationNext /\ UNCHANGED <<part, payablesVars, webhooksVars>>
    \/ part = "payables" /\ PayablesNext /\ UNCHANGED <<part, ofLedger, webhooksVars>>
    \/ part = "webhooks" /\ WebhooksNext /\ UNCHANGED <<part, ofLedger, payablesVars>>

OfficeSpec ==
    OfficeInit /\ [][OfficeNext]_<<part, ofLedger, payablesVars, webhooksVars>>

\* Servers, calls and workers are of one set of names.
Symmetry == Permutations(Servers)

=============================================================================
