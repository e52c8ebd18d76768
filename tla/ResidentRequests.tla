--------------------------- MODULE ResidentRequests ---------------------------
(***************************************************************************)
(* A request of a resident (RequestsService): staff move it along a table  *)
(* of transitions, assign it and answer; the resident replies, cancels it, *)
(* or closes what was resolved. Every write is by id, after a read that is *)
(* not locked. Requests share nothing, so there is one ticket.             *)
(***************************************************************************)
EXTENDS InFlight

VARIABLES
    ticket,      \* the status of the Request row
    assigned,    \* it has an assignee
    overtaken    \* steps that were written over a status that had not been read

ticketVars == <<ticket, assigned, overtaken, requests, begun>>

-----------------------------------------------------------------------------
Statuses == {"submitted", "triaged", "in_progress", "waiting_resident", "resolved", "closed",
             "cancelled"}

ALLOWED_TRANSITIONS ==
    [submitted |-> {"triaged", "in_progress", "cancelled"},
     triaged |-> {"in_progress", "waiting_resident", "resolved", "cancelled"},
     in_progress |-> {"waiting_resident", "resolved", "cancelled"},
     waiting_resident |-> {"in_progress", "resolved", "cancelled"},
     resolved |-> {"closed", "in_progress"},
     closed |-> {}, cancelled |-> {}]

Init ==
    /\ ticket = "submitted" /\ assigned = FALSE
    /\ NoRequests
    /\ overtaken = FALSE

\* What a resident may do with the own request.
Resident(to) ==
    \/ to = "cancelled" /\ ticket \in {"submitted", "triaged", "waiting_resident"}
    \/ to = "closed" /\ ticket = "resolved"

ReadTo(q, step, to) ==
    /\ Begin(q, [step |-> step, status |-> ticket, to |-> to])
    /\ UNCHANGED <<ticket, assigned, overtaken>>

SetStatus(q) ==
    /\ ticket' = requests[q].to
    /\ overtaken' = (overtaken \/ ticket # requests[q].status)

ReadToTransition(q, to, isResident) ==
    /\ isResident => Resident(to)
    /\ to \in ALLOWED_TRANSITIONS[ticket]
    /\ ReadTo(q, "transition", to)

Transition(q) ==
    /\ At(q, "transition")
    /\ SetStatus(q)
    /\ Finish(q)
    /\ UNCHANGED assigned

\* Seeded fault: the first assignment triages, however far the request is.
TriagedIfNew(someone) == IF someone /\ ~ assigned THEN "triaged" ELSE "none"

\* "Auto-transitions submitted -> triaged"; "none": the status is not written.
TriagedBy(someone) == IF someone /\ ticket = "submitted" THEN "triaged" ELSE "none"

ReadToAssign(q, someone) ==
    /\ Begin(q, [step |-> "assign", status |-> ticket, someone |-> someone,
                 to |-> TriagedBy(someone)])
    /\ UNCHANGED <<ticket, assigned, overtaken>>

Assign(q) ==
    /\ At(q, "assign")
    /\ assigned' = requests[q].someone
    /\ IF requests[q].to = "none" THEN UNCHANGED <<ticket, overtaken>> ELSE SetStatus(q)
    /\ Finish(q)

\* The public reply of a resident for whom the office is waiting; other comments
\* leave the request as it is.
ReadToReply(q) == ticket = "waiting_resident" /\ ReadTo(q, "reply", "in_progress")

AddComment(q) ==
    /\ At(q, "reply")
    /\ SetStatus(q)
    /\ Finish(q)
    /\ UNCHANGED assigned

Abort(q) ==
    /\ ~ At(q, "idle")
    /\ Finish(q)
    /\ UNCHANGED <<ticket, assigned, overtaken>>

Next ==
    \E q \in Requests :
        \/ ReadToReply(q) \/ Transition(q) \/ Assign(q) \/ AddComment(q) \/ Abort(q)
        \/ \E someone \in BOOLEAN : ReadToAssign(q, someone)
        \/ \E to \in Statuses, isResident \in BOOLEAN : ReadToTransition(q, to, isResident)

Spec == Init /\ [][Next]_ticketVars

-----------------------------------------------------------------------------
\* "Every transition must be in this table": whoever makes it and by whichever
\* operation, unless the status was overtaken between the reading and the writing
\* (transition, assign, addComment).
FollowsTable ==
    [][ticket' # ticket => ticket' \in ALLOWED_TRANSITIONS[ticket] \/ overtaken']_ticketVars

=============================================================================
