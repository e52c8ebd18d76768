------------------------------ MODULE Violations ------------------------------
(***************************************************************************)
(* A violation of the rules (ViolationsService): noticed, fined, resolved  *)
(* by staff, acknowledged and appealed by residents. The statuses have a   *)
(* table of transitions, which some operations do not look into. Every     *)
(* write is by id. Violations share nothing, so there is one.              *)
(***************************************************************************)
EXTENDS InFlight, FiniteSets

CONSTANT Appeals    \* identities for appeals

VARIABLES
    violation,   \* the Violation row; fine: it has a fineInvoiceId
    appeals,     \* the status of each appeal, or "none"
    crossed,     \* a status was written over one that had not been read
    steered      \* a request named an outcome that its type does not have

violationHistory == <<crossed, steered>>
violationVars == <<violation, appeals, requests, begun, violationHistory>>

-----------------------------------------------------------------------------
Statuses == {"open", "noticed", "acknowledged", "appealing", "board_review", "upheld",
             "dismissed", "closed"}

ALLOWED_TRANSITIONS ==
    [open |-> {"noticed", "closed"}, noticed |-> {"acknowledged", "appealing", "closed"},
     acknowledged |-> {"appealing", "closed"}, appealing |-> {"board_review"},
     board_review |-> {"upheld", "dismissed"}, upheld |-> {"closed"}, dismissed |-> {"closed"},
     closed |-> {}]

AppealStatuses == {"submitted", "reviewing", "upheld", "dismissed"}

APPEAL_TRANSITIONS ==
    [submitted |-> {"reviewing", "upheld", "dismissed"}, reviewing |-> {"upheld", "dismissed"},
     upheld |-> {}, dismissed |-> {}]

Pending == {a \in Appeals : appeals[a] \in {"submitted", "reviewing"}}

Init ==
    /\ violation = [status |-> "open", noticeSent |-> FALSE, fine |-> FALSE]
    /\ appeals = [a \in Appeals |-> "none"]
    /\ NoRequests
    /\ crossed = FALSE /\ steered = FALSE

-----------------------------------------------------------------------------
\* to: the status that the request will write.
ReadTo(q, step, to) ==
    /\ Begin(q, [step |-> step, status |-> violation.status, to |-> to])
    /\ UNCHANGED <<violation, appeals, violationHistory>>

SetStatus(q, row) ==
    /\ violation' = [row EXCEPT !.status = requests[q].to]
    /\ crossed' = (crossed \/ violation.status # requests[q].status)

MayBecome(status) == status \in ALLOWED_TRANSITIONS[violation.status]

\* forceResend writes the status that was read, and looks at nothing.
ReadToNotice(q, forceResend) ==
    /\ ~ forceResend => ~ violation.noticeSent /\ MayBecome("noticed")
    /\ ReadTo(q, "notice", IF forceResend THEN violation.status ELSE "noticed")

IssueNotice(q) ==
    /\ At(q, "notice")
    /\ SetStatus(q, [violation EXCEPT !.noticeSent = TRUE])
    /\ Finish(q)
    /\ UNCHANGED <<appeals, steered>>

Finable == ~ violation.fine /\ violation.status \notin {"closed", "dismissed"}

ReadToFine(q) ==
    /\ Finable
    /\ Begin(q, [step |-> "fine"])
    /\ UNCHANGED <<violation, appeals, violationHistory>>

\* One transaction: the invoice and the link to it, over a link that may be there.
IssueFine(q) ==
    /\ At(q, "fine")
    /\ violation' = [violation EXCEPT !.fine = TRUE]
    /\ Finish(q)
    /\ UNCHANGED <<appeals, violationHistory>>

ReadToAcknowledge(q) == MayBecome("acknowledged") /\ ReadTo(q, "acknowledge", "acknowledged")

\* The outcome is declared as closed, upheld or dismissed, and any string goes.
Outcomes == {"closed", "upheld", "dismissed"}

ReadToResolve(q, outcome) ==
    /\ MayBecome(outcome)
    /\ steered' = (steered \/ outcome \notin Outcomes)
    /\ Begin(q, [step |-> "resolve", status |-> violation.status, to |-> outcome])
    /\ UNCHANGED <<violation, appeals, crossed>>

\* acknowledge, resolve
WriteStatus(q) ==
    /\ requests[q].step \in {"acknowledge", "resolve"}
    /\ SetStatus(q, violation)
    /\ Finish(q)
    /\ UNCHANGED <<appeals, steered>>

-----------------------------------------------------------------------------
(* Appeals. *)

\* Seeded fault: an appeal may follow an appeal.
AppealableAgain == {"noticed", "acknowledged", "appealing"}

Appealable == {"noticed", "acknowledged"}

\* Within the grace period, which is left to the caller.
ReadToAppeal(q) == violation.status \in Appealable /\ ReadTo(q, "appeal", "appealing")

SubmitAppeal(q) ==
    /\ At(q, "appeal")
    /\ \E a \in Appeals :
          /\ appeals[a] = "none"
          /\ appeals' = [appeals EXCEPT ![a] = "submitted"]
    /\ SetStatus(q, violation)
    /\ Finish(q)
    /\ UNCHANGED steered

\* The status of the violation is not looked at. "if upheld (appeal accepted),
\* violation moves to dismissed": and so it does if it is to be reviewed.
ReadToDecide(q, a, decision) ==
    /\ appeals[a] # "none"
    /\ decision \in APPEAL_TRANSITIONS[appeals[a]]
    /\ steered' = (steered \/ decision = "reviewing")
    /\ Begin(q, [step |-> "decide", status |-> violation.status, appeal |-> a,
                 decision |-> decision,
                 to |-> IF decision = "dismissed" THEN "upheld" ELSE "dismissed"])
    /\ UNCHANGED <<violation, appeals, crossed>>

DecideAppeal(q) ==
    /\ At(q, "decide")
    /\ appeals' = [appeals EXCEPT ![requests[q].appeal] = requests[q].decision]
    /\ SetStatus(q, violation)
    /\ Finish(q)
    /\ UNCHANGED steered

Abort(q) ==
    /\ ~ At(q, "idle")
    /\ Finish(q)
    /\ UNCHANGED <<violation, appeals, violationHistory>>

-----------------------------------------------------------------------------
Reads(q) ==
    \/ ReadToFine(q) \/ ReadToAcknowledge(q) \/ ReadToAppeal(q)
    \/ \E forceResend \in BOOLEAN : ReadToNotice(q, forceResend)
    \/ \E outcome \in Statuses : ReadToResolve(q, outcome)
    \/ \E a \in Appeals, decision \in AppealStatuses : ReadToDecide(q, a, decision)

Writes(q) ==
    \/ IssueNotice(q) \/ IssueFine(q) \/ WriteStatus(q) \/ SubmitAppeal(q) \/ DecideAppeal(q)

Next == \E q \in Requests : Reads(q) \/ Writes(q) \/ Abort(q)

Spec == Init /\ [][Next]_violationVars

-----------------------------------------------------------------------------
\* A violation is under appeal as long as an appeal is undecided, and no longer,
\* and there is one at most; unless requests crossed, or an outcome was none of
\* those declared (submitAppeal, decideAppeal, resolve).
AppealTies ==
    crossed \/ steered \/
    /\ Cardinality(Pending) <= 1
    /\ (violation.status = "appealing") <=> (Pending # {})

=============================================================================
