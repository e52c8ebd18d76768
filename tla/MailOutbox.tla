----------------------------- MODULE MailOutbox -----------------------------
(***************************************************************************)
(* The transactional mail of HOA-API (MailService): EmailDelivery rows are *)
(* enqueued once per event and recipient, workers claim and send them      *)
(* through Resend and retry what failed, staff may send one again, and     *)
(* Resend reports what became of a message.                                *)
(*                                                                         *)
(* A worker advances from one awaited call to the next. Time is abstract:  *)
(* a pending row may be due at any moment; a queued job and the sweep do   *)
(* the same with it. Resend is external: it accepts a message or refuses   *)
(* it, and reports on accepted ones late, in any order, more than once.    *)
(***************************************************************************)
EXTENDS Integers

CONSTANTS
    Mails,           \* events to mail, each with its recipient: one row each
    Workers,         \* requests and jobs in flight
    MaxAttempts,     \* maxAttempts of a new row
    MaxResets,       \* bound on the times staff send a mail again
    MaxMailInterrupts,   \* bound on the workers that die or whose update fails
    NoMail

ASSUME MailAssumption ==
    /\ MaxAttempts \in Nat \ {0, 1}
    /\ MaxResets \in Nat /\ MaxMailInterrupts \in Nat
    /\ NoMail \notin Mails

VARIABLES
    rows,         \* the EmailDelivery rows
    workers,      \* requests and jobs in flight
    accepted,     \* how many messages Resend has accepted for a mail
    resets,       \* how often staff sent a mail again
    mailInterrupts,   \* how many workers were interrupted
    orphans       \* mails whose worker was interrupted

mailVars == <<rows, workers, accepted, resets, mailInterrupts, orphans>>

-----------------------------------------------------------------------------
\* What Resend reports of a message it has accepted.
Verdicts == {"sent", "bounced", "complained"}

Settled == Verdicts \cup {"failed"}

\* message tells which of the accepted messages providerMessageId names.
Row == [status : {"absent", "pending", "sending"} \cup Settled,
        attempt : Nat, maxAttempts : Nat, message : Nat]
Worker == [step : {"idle", "insert", "reset", "read", "send", "accepted", "refused", "report"},
           mail : Mails \cup {NoMail},
           attempt : Nat, maxAttempts : Nat,     \* of the row as it was read
           message : Nat, verdict : Verdicts]    \* what Resend has reported

NoRow == [status |-> "absent", attempt |-> 0, maxAttempts |-> 0, message |-> 0]
IdleWorker == [step |-> "idle", mail |-> NoMail, attempt |-> 0, maxAttempts |-> 0, message |-> 0,
         verdict |-> "sent"]

MailExists(m) == rows[m].status # "absent"

MailInit ==
    /\ rows = [m \in Mails |-> NoRow]
    /\ workers = [w \in Workers |-> IdleWorker]
    /\ accepted = [m \in Mails |-> 0]
    /\ resets = [m \in Mails |-> 0]
    /\ mailInterrupts = 0
    /\ orphans = {}

-----------------------------------------------------------------------------
WorkerAt(w, step) == workers[w].step = step
Goto(w, step) == workers' = [workers EXCEPT ![w].step = step]
End(w) == workers' = [workers EXCEPT ![w] = IdleWorker]
Begin(w, step, m) ==
    /\ WorkerAt(w, "idle")
    /\ workers' = [workers EXCEPT ![w] = [IdleWorker EXCEPT !.step = step, !.mail = m]]

-----------------------------------------------------------------------------
(* Callers and staff. *)

Resetting(m) == resets[m] < MaxResets /\ resets' = [resets EXCEPT ![m] = @ + 1]

\* enqueue looks for the row of the event and recipient first: where there is
\* one it is done, unless it is forced to send again.
Enqueue(w, m, force) ==
    /\ \/ ~ MailExists(m) /\ Begin(w, "insert", m) /\ UNCHANGED resets
       \/ MailExists(m) /\ force /\ Begin(w, "reset", m) /\ Resetting(m)
    /\ UNCHANGED <<rows, accepted, mailInterrupts, orphans>>

\* The second of two inserts fails on the unique key.
Insert(w) ==
    LET m == workers[w].mail IN
    /\ WorkerAt(w, "insert")
    /\ rows' = IF MailExists(m) THEN rows
               ELSE [rows EXCEPT ![m] =
                       [NoRow EXCEPT !.status = "pending", !.maxAttempts = MaxAttempts]]
    /\ End(w)
    /\ UNCHANGED <<accepted, resets, mailInterrupts, orphans>>

\* A forced enqueue starts the row over, whatever it is doing.
Reset(w) ==
    LET m == workers[w].mail IN
    /\ WorkerAt(w, "reset")
    /\ rows' = [rows EXCEPT ![m].status = "pending", ![m].attempt = 0]
    /\ End(w)
    /\ UNCHANGED <<accepted, resets, mailInterrupts, orphans>>

\* resendDelivery: a row that has used its attempts gets three more. Its read
\* and its two updates are one step: they decide on nothing that others write.
ResendDelivery(m) ==
    /\ MailExists(m)
    /\ Resetting(m)
    /\ rows' = [rows EXCEPT
          ![m].maxAttempts = IF rows[m].attempt >= @ THEN rows[m].attempt + 3 ELSE @,
          ![m].status = "pending"]
    /\ UNCHANGED <<workers, accepted, mailInterrupts, orphans>>

-----------------------------------------------------------------------------
(* deliver. *)

\* Seeded fault: a row that is being sent may be claimed again.
ClaimableTwice(status) == status \in {"pending", "sending"}

Claimable(status) == status = "pending"

\* One update claims the row and counts the attempt.
Claim(w, m) ==
    /\ Claimable(rows[m].status)
    /\ Begin(w, "read", m)
    /\ rows' = [rows EXCEPT ![m].status = "sending", ![m].attempt = @ + 1]
    /\ UNCHANGED <<accepted, resets, mailInterrupts, orphans>>

ReadRow(w) ==
    LET row == rows[workers[w].mail] IN
    /\ WorkerAt(w, "read")
    /\ workers' = [workers EXCEPT ![w].step = "send", ![w].attempt = row.attempt,
                                  ![w].maxAttempts = row.maxAttempts]
    /\ UNCHANGED <<rows, accepted, resets, mailInterrupts, orphans>>

\* Resend accepts the message, or it refuses or cannot be reached.
Send(w) ==
    /\ WorkerAt(w, "send")
    /\ \/ /\ Goto(w, "accepted")
          /\ accepted' = [accepted EXCEPT ![workers[w].mail] = @ + 1]
       \/ Goto(w, "refused") /\ UNCHANGED accepted
    /\ UNCHANGED <<rows, resets, mailInterrupts, orphans>>

RecordSent(w) ==
    LET m == workers[w].mail IN
    /\ WorkerAt(w, "accepted")
    /\ rows' = [rows EXCEPT ![m].status = "sent", ![m].message = accepted[m]]
    /\ End(w)
    /\ UNCHANGED <<accepted, resets, mailInterrupts, orphans>>

\* The counter was incremented by the claim, and is incremented here again.
OutOfAttempts(attempt, maxAttempts) == attempt + 1 >= maxAttempts

\* Seeded fault: a failed attempt is never given back to the sweep.
StuckWhenRefused(attempt, maxAttempts) ==
    IF OutOfAttempts(attempt, maxAttempts) THEN "failed" ELSE "sending"

AfterFailure(attempt, maxAttempts) ==
    IF OutOfAttempts(attempt, maxAttempts) THEN "failed" ELSE "pending"

RecordFailure(w) ==
    LET m == workers[w].mail IN
    /\ WorkerAt(w, "refused")
    /\ rows' = [rows EXCEPT ![m].status =
                   AfterFailure(workers[w].attempt, workers[w].maxAttempts)]
    /\ End(w)
    /\ UNCHANGED <<accepted, resets, mailInterrupts, orphans>>

\* The process stops, or the update that records an accepted message throws:
\* its catch block then treats the message as refused.
InterruptWorker(w) ==
    /\ mailInterrupts < MaxMailInterrupts
    /\ mailInterrupts' = mailInterrupts + 1
    /\ \/ ~ WorkerAt(w, "idle") /\ End(w)
       \/ WorkerAt(w, "accepted") /\ Goto(w, "refused")
    /\ orphans' = orphans \cup {workers[w].mail}
    /\ UNCHANGED <<rows, accepted, resets>>

-----------------------------------------------------------------------------
(* handleResendWebhook. *)

\* A report finds its row by the message id, once that is recorded; an opened or
\* clicked message changes no status.
ReceiveReport(w, m, n, verdict) ==
    /\ n \in 1 .. accepted[m]
    /\ MailExists(m) /\ rows[m].message = n
    /\ WorkerAt(w, "idle")
    /\ workers' = [workers EXCEPT ![w] =
          [IdleWorker EXCEPT !.step = "report", !.mail = m, !.message = n, !.verdict = verdict]]
    /\ UNCHANGED <<rows, accepted, resets, mailInterrupts, orphans>>

\* The update does not look at the row again.
RecordReport(w) ==
    /\ WorkerAt(w, "report")
    /\ rows' = [rows EXCEPT ![workers[w].mail].status = workers[w].verdict]
    /\ End(w)
    /\ UNCHANGED <<accepted, resets, mailInterrupts, orphans>>

-----------------------------------------------------------------------------
ProceedWorker(w) ==
    \/ Insert(w) \/ Reset(w) \/ ReadRow(w) \/ Send(w) \/ RecordSent(w)
    \/ RecordFailure(w) \/ RecordReport(w)

MailNext ==
    \/ \E m \in Mails : ResendDelivery(m)
    \/ \E w \in Workers :
         \/ ProceedWorker(w) \/ InterruptWorker(w)
         \/ \E m \in Mails :
              \/ Claim(w, m)
              \/ \E force \in BOOLEAN : Enqueue(w, m, force)
              \/ \E n \in 1 .. accepted[m], verdict \in Verdicts :
                   ReceiveReport(w, m, n, verdict)

MailSpec == MailInit /\ [][MailNext]_mailVars

\* What has begun goes on, and the sweep takes up every pending row.
FairMailSpec ==
    /\ MailSpec
    /\ \A w \in Workers : WF_mailVars(ProceedWorker(w))
    /\ \A m \in Mails : SF_mailVars(\E w \in Workers : Claim(w, m))

-----------------------------------------------------------------------------
(* Properties. *)

MailTypeOK ==
    /\ rows \in [Mails -> Row]
    /\ workers \in [Workers -> Worker]
    /\ accepted \in [Mails -> Nat]
    /\ resets \in [Mails -> 0 .. MaxResets]
    /\ mailInterrupts \in 0 .. MaxMailInterrupts
    /\ orphans \subseteq Mails

\* A mail is accepted by Resend at most once, however often it was enqueued and
\* whoever tries to deliver it, unless staff send it again or the bookkeeping of
\* an accepted message fails (enqueue, deliver).
SentOnce == \A m \in Mails : resets[m] = 0 /\ m \notin orphans => accepted[m] <= 1

\* No more is tried than the row allows, one attempt less to be exact, unless
\* staff send it again; a worker that dies does not reopen it.
AttemptsBounded ==
    \A m \in Mails : resets[m] = 0 /\ MailExists(m) => rows[m].attempt < rows[m].maxAttempts

\* A mail that Resend has accepted is neither tried again nor given up, whoever
\* races to deliver it, unless staff send it again or the bookkeeping of the
\* accepted message fails (deliver).
AcceptedIsDone ==
    \A m \in Mails :
        accepted[m] > 0 /\ resets[m] = 0 /\ m \notin orphans =>
            rows[m].status \notin {"pending", "failed"}

\* A mail is given up only when no attempt is left (deliver, "leave at pending if
\* we have attempts left, else mark failed"). The code gives up one earlier.
FailedHasNoneLeft ==
    \A m \in Mails :
        rows[m].status = "failed" /\ resets[m] = 0 => rows[m].attempt >= rows[m].maxAttempts

Holds(w, m) ==
    workers[w].mail = m /\ workers[w].step \in {"read", "send", "accepted", "refused"}

\* What a worker knows of its mail.
KnowsItsMail(w) ==
    /\ workers[w].step # "idle" => workers[w].mail \in Mails
    /\ workers[w].step \notin {"idle", "insert"} => MailExists(workers[w].mail)

\* A mail that staff have not sent again is held by one worker at a time, and
\* only while it is in sending; that worker knows its attempt.
HeldOnce(m) ==
    /\ \A w \in Workers : workers[w].mail = m => workers[w].step # "reset"
    /\ \A v, w \in Workers : Holds(v, m) /\ Holds(w, m) => v = w
    /\ \A w \in Workers : Holds(w, m) =>
          /\ rows[m].status = "sending"
          /\ workers[w].step # "read" =>
                workers[w].attempt = rows[m].attempt /\ workers[w].maxAttempts = rows[m].maxAttempts

\* It keeps an attempt in reserve while it waits for one.
InReserve(m) ==
    /\ MailExists(m) => rows[m].attempt < rows[m].maxAttempts
    /\ rows[m].status = "pending" => rows[m].attempt + 1 < rows[m].maxAttempts
    /\ rows[m].status = "failed" => rows[m].attempt + 1 >= rows[m].maxAttempts

\* Resend has it only when the row says so, or the worker that is about to.
AcceptedOnce(m) ==
    /\ rows[m].status \notin Verdicts => rows[m].message = 0
    /\ rows[m].status \notin Verdicts =>
          \A w \in Workers : workers[w].mail = m => workers[w].step # "report"
    /\ m \notin orphans =>
          /\ accepted[m] <= 1
          /\ \A w \in Workers : Holds(w, m) /\ workers[w].step # "accepted" => accepted[m] = 0
          /\ rows[m].status \in {"absent", "pending", "failed"} => accepted[m] = 0

MailOK(m) == resets[m] = 0 => HeldOnce(m) /\ InReserve(m) /\ AcceptedOnce(m)

\* The inductive invariant behind SentOnce, AttemptsBounded and AcceptedIsDone.
MailIInv ==
    /\ MailTypeOK
    /\ \A w \in Workers : KnowsItsMail(w)
    /\ \A m \in Mails : MailOK(m)

\* Every mail that was enqueued is settled in the end, unless a worker of it was
\* interrupted.
MailSettles ==
    \A m \in Mails : rows[m].status = "pending" ~> rows[m].status \in Settled \/ m \in orphans

=============================================================================
