------------------------------- MODULE Erasures -------------------------------
(***************************************************************************)
(* The right to be forgotten (PrivacyService): a user asks for erasure,    *)
(* may cancel, an administrator approves or rejects, and after a waiting   *)
(* window executes. Cancelling and executing compare the status that they  *)
(* write over; moderating writes by id. One user, and one organisation or  *)
(* all of them.                                                            *)
(***************************************************************************)
EXTENDS InFlight

CONSTANT Erasures    \* identities for requests for erasure

VARIABLES
    scoped,      \* the requests are for one organisation
    erasures,    \* the ErasureRequest rows; elapsed: scheduledFor is past
    runs,        \* how often each was executed
    withdrawn,   \* those that the user has cancelled
    overruled    \* those that were moderated after another had decided, or withdrawn them

erasureVars == <<scoped, erasures, runs, withdrawn, overruled, requests, begun>>

-----------------------------------------------------------------------------
Statuses == {"none", "submitted", "approved", "rejected", "cancelled", "completed"}
Decisions == {"approved", "rejected"}

\* Nothing writes `reviewing'.
Open == {e \in Erasures : erasures[e].status \in {"submitted", "approved"}}

Init ==
    /\ scoped \in BOOLEAN
    /\ erasures = [e \in Erasures |-> [status |-> "none", elapsed |-> FALSE]]
    /\ runs = [e \in Erasures |-> 0]
    /\ NoRequests
    /\ withdrawn = {} /\ overruled = {}

\* (userId, organizationId, status) is unique, except where there is no organisation;
\* a request that violates the key fails (Abort).
Status(e, status) ==
    /\ scoped => \A o \in Erasures \ {e} : erasures[o].status # status
    /\ erasures' = [erasures EXCEPT ![e].status = status]
    /\ UNCHANGED scoped

ReadBy(q, request) ==
    Begin(q, request) /\ UNCHANGED <<scoped, erasures, runs, withdrawn, overruled>>

-----------------------------------------------------------------------------
\* "a single open request per (user, org)", looked up before the transaction.
ReadToSubmit(q) == Open = {} /\ ReadBy(q, [step |-> "submit"])

Submit(q) ==
    /\ At(q, "submit")
    /\ \E e \in Erasures : erasures[e].status = "none" /\ Status(e, "submitted")
    /\ Finish(q)
    /\ UNCHANGED <<runs, withdrawn, overruled>>

\* "30-day waiting window"
WaitingEnds(e) ==
    /\ erasures[e].status # "none" /\ ~ erasures[e].elapsed
    /\ erasures' = [erasures EXCEPT ![e].elapsed = TRUE]
    /\ UNCHANGED <<scoped, runs, withdrawn, overruled, requests, begun>>

Cancellable(e) ==
    \/ erasures[e].status = "submitted"
    \/ erasures[e].status = "approved" /\ ~ erasures[e].elapsed

ReadToCancel(q, e) ==
    /\ Cancellable(e)
    /\ ReadBy(q, [step |-> "cancel", erasure |-> e, status |-> erasures[e].status])

\* "CAS: only flip if the status didn't move under us."
Cancel(q) ==
    LET e == requests[q].erasure IN
    /\ At(q, "cancel")
    /\ IF erasures[e].status = requests[q].status
         THEN Status(e, "cancelled") /\ withdrawn' = withdrawn \cup {e}
         ELSE UNCHANGED <<scoped, erasures, withdrawn>>
    /\ Finish(q)
    /\ UNCHANGED <<runs, overruled>>

ReadToModerate(q, e, decision) ==
    /\ erasures[e].status = "submitted"
    /\ ReadBy(q, [step |-> "moderate", erasure |-> e, decision |-> decision])

Moderate(q) ==
    LET e == requests[q].erasure IN
    /\ At(q, "moderate")
    /\ Status(e, requests[q].decision)
    /\ overruled' = IF erasures[e].status = "submitted" THEN overruled ELSE overruled \cup {e}
    /\ Finish(q)
    /\ UNCHANGED <<runs, withdrawn>>

ReadToExecute(q, e) ==
    /\ erasures[e].status = "approved" /\ erasures[e].elapsed
    /\ ReadBy(q, [step |-> "execute", erasure |-> e])

\* Seeded fault: executed by id.
ReadAsApproved(e) == TRUE

\* "atomic CAS on the request status"
Claimable(e) == erasures[e].status = "approved"

\* anonymizeUserScoped: the names, credentials and sessions go in one transaction.
Execute(q) ==
    LET e == requests[q].erasure IN
    /\ At(q, "execute")
    /\ IF Claimable(e)
         THEN Status(e, "completed") /\ runs' = [runs EXCEPT ![e] = @ + 1]
         ELSE UNCHANGED <<scoped, erasures, runs>>
    /\ Finish(q)
    /\ UNCHANGED <<withdrawn, overruled>>

Abort(q) == ~ At(q, "idle") /\ Finish(q) /\ UNCHANGED <<scoped, erasures, runs, withdrawn, overruled>>

Next ==
    \/ \E e \in Erasures : WaitingEnds(e)
    \/ \E q \in Requests :
          \/ ReadToSubmit(q) \/ Submit(q) \/ Cancel(q) \/ Moderate(q) \/ Execute(q) \/ Abort(q)
          \/ \E e \in Erasures :
                \/ ReadToCancel(q, e) \/ ReadToExecute(q, e)
                \/ \E decision \in Decisions : ReadToModerate(q, e, decision)

Spec == Init /\ [][Next]_erasureVars

-----------------------------------------------------------------------------
\* Nobody is erased twice for one request, before its window is over, or after the
\* request was withdrawn; unless an administrator decided on it at the moment when
\* the user, or another administrator, did (cancelErasure, executeErasure).
ErasedAsAsked ==
    \A e \in Erasures \ overruled :
        /\ runs[e] <= 1
        /\ runs[e] = 1 => erasures[e].elapsed /\ e \notin withdrawn

=============================================================================
