----------------------------- MODULE MCProgress -----------------------------
(***************************************************************************)
(* What must go on: the ledger beside the outbox of the mails. They share  *)
(* no rows. A behaviour has one of them, and the variables of the other    *)
(* keep the value they start with. The fairness is that of FairSpec and of *)
(* FairMailSpec, for the one that the behaviour has.                       *)
(***************************************************************************)
EXTENDS MCPayments, MailOutbox

VARIABLE part

ProgressInit == part \in {"ledger", "mail"} /\ Init /\ MailInit

OfLedger(action) == part = "ledger" /\ action /\ UNCHANGED <<part, mailVars>>
OfMail(action) == part = "mail" /\ action /\ UNCHANGED <<part, vars>>

ProgressNext == OfLedger(Next) \/ OfMail(MailNext)

progressVars == <<part, vars, mailVars>>

ProgressSpec ==
    /\ ProgressInit /\ [][ProgressNext]_progressVars
    /\ \A h \in Handlers : WF_progressVars(OfLedger(Proceed(h)))
    /\ \A x \in Intents, kind \in EventKinds : SF_progressVars(OfLedger(Deliver(x, kind)))
    /\ \A w \in Workers : WF_progressVars(OfMail(ProceedWorker(w)))
    /\ \A m \in Mails : SF_progressVars(OfMail(\E w \in Workers : Claim(w, m)))

=============================================================================
