------------------------------ MODULE Broadcasts ------------------------------
(***************************************************************************)
(* A broadcast of the office to its residents (BroadcastsService): it is   *)
(* scheduled, cancelled, and sent by requests that go through the          *)
(* recipients one by one, leave a row for each, and may be run again.      *)
(***************************************************************************)
EXTENDS InFlight

CONSTANT Recipients

VARIABLES
    broadcast,   \* the status of the Broadcast row
    deliveries,  \* the status of the BroadcastDelivery row of each recipient
    optedOut,    \* recipients with a BroadcastOptOut row
    mailed,      \* how often a mail was enqueued for each
    cancelled,   \* somebody has cancelled it
    doubtful,    \* recipients whom two runs had in hand at once, one did not record, or one
                 \* found to have opted out after the mail
    rescheduled  \* a schedule was written over a status that had not been read

history == <<cancelled, doubtful, rescheduled>>
rest == <<deliveries, optedOut, mailed>>
broadcastVars == <<broadcast, rest, requests, begun, history>>

-----------------------------------------------------------------------------
Statuses == {"draft", "scheduled", "sending", "sent", "cancelled", "failed"}
DeliveryStatuses == {"none", "sent", "failed", "opted_out"}

Init ==
    /\ broadcast = "draft"
    /\ deliveries = [r \in Recipients |-> "none"]
    /\ optedOut = {}
    /\ mailed = [r \in Recipients |-> 0]
    /\ NoRequests
    /\ cancelled = FALSE /\ doubtful = {} /\ rescheduled = FALSE

-----------------------------------------------------------------------------
ReadToSchedule(q) ==
    /\ broadcast = "draft"
    /\ Begin(q, [step |-> "schedule"])
    /\ UNCHANGED <<broadcast, rest, history>>

Schedule(q) ==
    /\ At(q, "schedule")
    /\ broadcast' = "scheduled"
    /\ rescheduled' = (rescheduled \/ broadcast # "draft")
    /\ Finish(q)
    /\ UNCHANGED <<rest, cancelled, doubtful>>

\* One conditional update.
Cancel ==
    /\ broadcast \in {"draft", "scheduled"}
    /\ broadcast' = "cancelled" /\ cancelled' = TRUE
    /\ UNCHANGED <<rest, requests, begun, doubtful, rescheduled>>

\* recordOptOut
OptOut(r) ==
    /\ r \notin optedOut
    /\ optedOut' = optedOut \cup {r}
    /\ UNCHANGED <<broadcast, deliveries, mailed, requests, begun, history>>

-----------------------------------------------------------------------------
(* sendNow *)

ReadToSend(q) ==
    /\ broadcast \in {"draft", "scheduled", "sending"}
    /\ Begin(q, [step |-> "claim", status |-> broadcast])
    /\ UNCHANGED <<broadcast, rest, history>>

\* "CAS into `sending` so concurrent invocations don't double-fan-out"; what is
\* sending already goes on.
Claimable(q) == broadcast = requests[q].status \/ requests[q].status = "sending"

Claim(q) ==
    /\ At(q, "claim")
    /\ IF Claimable(q)
         THEN /\ broadcast' = IF requests[q].status = "sending" THEN broadcast ELSE "sending"
              /\ Continue(q, [step |-> "resolve"])
         ELSE UNCHANGED broadcast /\ Finish(q)
    /\ UNCHANGED <<rest, history>>

\* The recipients and the opt-outs, read once.
Resolve(q) ==
    /\ At(q, "resolve")
    /\ Continue(q, [step |-> "next", left |-> Recipients, skip |-> optedOut])
    /\ UNCHANGED <<broadcast, rest, history>>

\* Whom another run has in hand between its look at the row and its writing of it.
InHand == {requests[q].to : q \in {p \in Requests : requests[p].step \in {"mail", "record"}}}

Pass(q, r) == Continue(q, [requests[q] EXCEPT !.left = @ \ {r}])

Skip(q, r) ==
    /\ At(q, "next") /\ r \in requests[q].left \cap requests[q].skip
    /\ deliveries' = [deliveries EXCEPT ![r] = "opted_out"]
    /\ doubtful' = IF deliveries[r] = "sent" THEN doubtful \cup {r} ELSE doubtful
    /\ Pass(q, r)
    /\ UNCHANGED <<broadcast, optedOut, mailed, cancelled, rescheduled>>

\* Seeded fault: what was sent is not looked at.
NeverSent(r) == FALSE

\* "Already-sent? skip."
AlreadySent(r) == deliveries[r] = "sent"

LookUp(q, r) ==
    /\ At(q, "next") /\ r \in requests[q].left \ requests[q].skip
    /\ IF AlreadySent(r) THEN Pass(q, r) /\ UNCHANGED doubtful
       ELSE /\ Continue(q, [step |-> "mail", to |-> r, left |-> requests[q].left \ {r},
                            skip |-> requests[q].skip])
            /\ doubtful' = IF r \in InHand THEN doubtful \cup {r} ELSE doubtful
    /\ UNCHANGED <<broadcast, rest, cancelled, rescheduled>>

Record(q, status) ==
    /\ deliveries' = [deliveries EXCEPT ![requests[q].to] = status]
    /\ Continue(q, [step |-> "next", left |-> requests[q].left, skip |-> requests[q].skip])

\* MailService.enqueue, forced; it may fail, and the failure is recorded.
Enqueue(q) ==
    /\ At(q, "mail")
    /\ \/ /\ mailed' = [mailed EXCEPT ![requests[q].to] = @ + 1]
          /\ Continue(q, [requests[q] EXCEPT !.step = "record"])
          /\ UNCHANGED deliveries
       \/ Record(q, "failed") /\ UNCHANGED mailed
    /\ UNCHANGED <<broadcast, optedOut, history>>

\* If that fails, the catch block records a failure of what is in the mail.
RecordSent(q) ==
    /\ At(q, "record")
    /\ \/ Record(q, "sent") /\ UNCHANGED doubtful
       \/ Record(q, "failed") /\ doubtful' = doubtful \cup {requests[q].to}
    /\ UNCHANGED <<broadcast, optedOut, mailed, cancelled, rescheduled>>

Complete(q) ==
    /\ At(q, "next") /\ requests[q].left = {}
    /\ broadcast' = "sent"
    /\ Finish(q)
    /\ UNCHANGED <<rest, history>>

\* The process dies; or an error ends the run, which is then written down as failed.
Abort(q) ==
    /\ ~ At(q, "idle")
    /\ \/ UNCHANGED broadcast
       \/ requests[q].step \notin {"schedule", "claim"} /\ broadcast' = "failed"
    /\ doubtful' = IF requests[q].step = "record" THEN doubtful \cup {requests[q].to}
                   ELSE doubtful
    /\ Finish(q)
    /\ UNCHANGED <<rest, cancelled, rescheduled>>

-----------------------------------------------------------------------------
Next ==
    \/ Cancel
    \/ \E r \in Recipients : OptOut(r)
    \/ \E q \in Requests :
          \/ ReadToSchedule(q) \/ Schedule(q) \/ ReadToSend(q) \/ Claim(q) \/ Resolve(q)
          \/ Enqueue(q) \/ RecordSent(q) \/ Complete(q) \/ Abort(q)
          \/ \E r \in Recipients : Skip(q, r) \/ LookUp(q, r)

Spec == Init /\ [][Next]_broadcastVars

-----------------------------------------------------------------------------
\* A recipient is mailed once, however often the broadcast is sent, unless two runs
\* had the recipient in hand at once, one could not record it, or one wrote an
\* opt-out over the record; and nobody, once the broadcast was cancelled, unless a
\* schedule was written over its status (cancel, schedule, sendNow).
MailedAsAsked ==
    /\ \A r \in Recipients \ doubtful : mailed[r] <= 1
    /\ cancelled /\ ~ rescheduled => \A r \in Recipients : mailed[r] = 0

=============================================================================
