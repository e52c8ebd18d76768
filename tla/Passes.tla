------------------------------- MODULE Passes -------------------------------
(***************************************************************************)
(* A gate pass (PassesService). The guard at the gate looks the pass up    *)
(* and logs an entry, with a reason when the pass is not valid; the        *)
(* resident or the office may revoke it. The entry writes the count and    *)
(* the status that follow from what was read. Passes share nothing.        *)
(***************************************************************************)
EXTENDS InFlight

CONSTANT EventUses    \* maxUses of an event pass

VARIABLES
    pass,        \* the GatePass row
    logs,        \* how many visitor logs there are of each type
    overlapped   \* an entry was counted from a count that was no longer so

passVars == <<pass, logs, requests, begun, overlapped>>

-----------------------------------------------------------------------------
\* contractor and delivery are as single_visit.
Types == {"single_visit", "recurring", "event", "emergency"}
LogTypes == {"entry", "override_entry", "exit", "denied"}

\* maxUses counts for events only.
MaxUses(type) == IF type = "event" /\ EventUses > 1 THEN EventUses ELSE 1

Init ==
    /\ \E type \in Types :
          pass = [type |-> type, status |-> "active", maxUses |-> MaxUses(type), usesCount |-> 0]
    /\ logs = [type \in LogTypes |-> 0]
    /\ NoRequests
    /\ overlapped = FALSE

-----------------------------------------------------------------------------
\* Seeded fault: the uses are not looked at.
Unspent == TRUE

HasUsesLeft == pass.usesCount < pass.maxUses

NotSpoilt == pass.status \notin {"revoked", "used"}

\* inTime: the time is in the days, the hours and the dates of the pass.
Valid(inTime) == NotSpoilt /\ HasUsesLeft /\ (pass.type = "emergency" \/ inTime)

\* Without a reason an entry is logged for a valid pass only.
ReadToLogEntry(q, inTime, overrideReason) ==
    /\ Valid(inTime) \/ overrideReason
    /\ Begin(q, [step |-> "entry", status |-> pass.status, usesCount |-> pass.usesCount,
                 type |-> IF Valid(inTime) THEN "entry" ELSE "override_entry"])
    /\ UNCHANGED <<pass, logs, overlapped>>

Exhausted(uses) == uses >= pass.maxUses /\ pass.type # "recurring"

\* status: as it was read.
StatusAfter(uses, status) == IF Exhausted(uses) THEN "used" ELSE status

\* One transaction writes the log and, over whatever is there, the pass.
LogEntry(q) ==
    LET t == requests[q]
        uses == t.usesCount + 1
    IN
    /\ At(q, "entry")
    /\ logs' = [logs EXCEPT ![t.type] = @ + 1]
    /\ pass' = [pass EXCEPT !.usesCount = uses, !.status = StatusAfter(uses, t.status)]
    /\ overlapped' = (overlapped \/ t.usesCount # pass.usesCount)
    /\ Finish(q)

ReadToRevoke(q) ==
    /\ pass.status # "revoked"
    /\ Begin(q, [step |-> "revoke"])
    /\ UNCHANGED <<pass, logs, overlapped>>

Revoke(q) ==
    /\ At(q, "revoke")
    /\ pass' = [pass EXCEPT !.status = "revoked"]
    /\ Finish(q)
    /\ UNCHANGED <<logs, overlapped>>

\* logExit, logDeny: of any pass.
ReadToLog(q, type) ==
    /\ type \in {"exit", "denied"}
    /\ Begin(q, [step |-> "log", type |-> type])
    /\ UNCHANGED <<pass, logs, overlapped>>

Log(q) ==
    /\ At(q, "log")
    /\ logs' = [logs EXCEPT ![requests[q].type] = @ + 1]
    /\ Finish(q)
    /\ UNCHANGED <<pass, overlapped>>

Abort(q) ==
    /\ ~ At(q, "idle")
    /\ Finish(q)
    /\ UNCHANGED <<pass, logs, overlapped>>

Next ==
    \E q \in Requests :
        \/ ReadToRevoke(q) \/ Revoke(q) \/ LogEntry(q) \/ Log(q) \/ Abort(q)
        \/ \E inTime, overrideReason \in BOOLEAN : ReadToLogEntry(q, inTime, overrideReason)
        \/ \E type \in LogTypes : ReadToLog(q, type)

Spec == Init /\ [][Next]_passVars

-----------------------------------------------------------------------------
\* A pass lets in no more visitors, without an override, than it has uses, and
\* its count is that of its entries; unless entries overlapped (logEntry).
EntriesWithinUses ==
    overlapped \/
    /\ logs["entry"] <= pass.maxUses
    /\ pass.usesCount = logs["entry"] + logs["override_entry"]

=============================================================================
