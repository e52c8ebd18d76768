-------------------------- MODULE WebhookDelivery --------------------------
(***************************************************************************)
(* The outbound webhooks of HOA-API (WebhooksService): one endpoint, the   *)
(* WebhookDelivery rows fanned out to it, and the workers that POST them:  *)
(* the request that emits an event tries once inline, a job that runs      *)
(* every minute retries. Endpoints share nothing, so one is enough.        *)
(*                                                                         *)
(* A worker advances from one awaited call to the next. Time is abstract:  *)
(* the backoff of a pending row may be over at any moment. The receiver is *)
(* external: it answers 2xx, or it does not.                               *)
(***************************************************************************)
EXTENDS Integers

CONSTANTS
    Deliveries,      \* delivery rows that may come to exist
    Workers,         \* requests and job runs in flight
    MaxAttempts,     \* MAX_ATTEMPTS
    DisableAfter,    \* DISABLE_AFTER_FAILURES
    MaxWorkerInterrupts,   \* bound on the workers that die or throw half way
    Schemas,         \* the databases to look at: see columnsMatch
    NoDelivery

ASSUME WebhookAssumption ==
    /\ MaxAttempts \in Nat \ {0} /\ DisableAfter \in Nat \ {0}
    /\ MaxWorkerInterrupts \in Nat /\ Schemas \subseteq BOOLEAN
    /\ NoDelivery \notin Deliveries

VARIABLES
    endpoint,     \* the WebhookEndpoint row
    rows,         \* the WebhookDelivery rows
    workers,      \* requests and job runs
    tries,        \* how often each delivery was POSTed
    workerInterrupts,   \* how many workers have died or thrown half way
    orphans,      \* deliveries whose claimant did so
    columnsMatch  \* whether the table has the columns the raw UPDATE names:
                  \* those of schema.prisma it has not

webhooksVars == <<endpoint, rows, workers, tries, workerInterrupts, orphans, columnsMatch>>

-----------------------------------------------------------------------------
Row == [status : {"absent", "pending", "in_progress", "success", "dead", "deleted"},
        attempt : 0 .. MaxAttempts + 1, maxAttempts : {0, 1, MaxAttempts}]

Worker == [step : {"idle", "enqueue", "claim", "read", "post", "succeed", "fail"},
           delivery : Deliveries \cup {NoDelivery},
           maxAttempts : {0, 1, MaxAttempts},   \* of the row to create
           attempt : 0 .. MaxAttempts + 1,      \* of the row as it was read
           todo : SUBSET Deliveries]            \* rows a job run has yet to try

NoRow == [status |-> "absent", attempt |-> 0, maxAttempts |-> 0]
IdleWorker == [step |-> "idle", delivery |-> NoDelivery, maxAttempts |-> 0, attempt |-> 0,
         todo |-> {}]

EndpointExists == endpoint.status \in {"active", "inactive"}

WebhooksTypeOK ==
    /\ endpoint \in [status : {"absent", "active", "inactive", "deleted"},
                     failures : Nat]
    /\ rows \in [Deliveries -> Row]
    /\ workers \in [Workers -> Worker]
    /\ tries \in [Deliveries -> 0 .. MaxAttempts]
    /\ workerInterrupts \in 0 .. MaxWorkerInterrupts
    /\ orphans \subseteq Deliveries
    /\ columnsMatch \in BOOLEAN

WebhooksInit ==
    /\ endpoint = [status |-> "absent", failures |-> 0]
    /\ rows = [d \in Deliveries |-> NoRow]
    /\ workers = [w \in Workers |-> IdleWorker]
    /\ tries = [d \in Deliveries |-> 0]
    /\ workerInterrupts = 0
    /\ orphans = {}
    /\ columnsMatch \in Schemas

-----------------------------------------------------------------------------
(* Endpoints: what an administrator does. Names, events and secrets are not *)
(* told apart, so rotateSecret and the other updates change nothing here.   *)

CreateEndpoint ==
    /\ endpoint.status = "absent"
    /\ endpoint' = [status |-> "active", failures |-> 0]
    /\ UNCHANGED <<rows, workers, tries, workerInterrupts, orphans, columnsMatch>>

\* Seeded fault: the counter survives a reactivation.
FailuresKept(active, failures) == failures

\* Reactivating clears the failure counter.
FailuresAfterUpdate(active, failures) == IF active THEN 0 ELSE failures

UpdateEndpoint(active) ==
    /\ EndpointExists
    /\ endpoint' = [status |-> IF active THEN "active" ELSE "inactive",
                    failures |-> FailuresAfterUpdate(active, endpoint.failures)]
    /\ UNCHANGED <<rows, workers, tries, workerInterrupts, orphans, columnsMatch>>

\* The deliveries go with their endpoint (onDelete: Cascade).
DeleteEndpoint ==
    /\ EndpointExists
    /\ endpoint' = [status |-> "deleted", failures |-> 0]
    /\ rows' = [d \in Deliveries |->
          IF rows[d].status = "absent" THEN rows[d] ELSE [NoRow EXCEPT !.status = "deleted"]]
    /\ UNCHANGED <<workers, tries, workerInterrupts, orphans, columnsMatch>>

-----------------------------------------------------------------------------
(* Workers. *)

WorkerAt(w, step) == workers[w].step = step
Goto(w, step) == workers' = [workers EXCEPT ![w].step = step]

\* The attempt is over: a job run goes on with the rows it has left.
NextRow(w) ==
    workers' = [workers EXCEPT ![w] = [IdleWorker EXCEPT !.todo = workers[w].todo]]

Free(w) == WorkerAt(w, "idle") /\ workers[w].todo = {}
Unused(d) ==
    /\ rows[d].status = "absent"
    /\ \A w \in Workers : workers[w].delivery # d

ToEnqueue(w, d, maxAttempts) ==
    /\ Free(w) /\ Unused(d)
    /\ workers' = [workers EXCEPT ![w] =
          [IdleWorker EXCEPT !.step = "enqueue", !.delivery = d, !.maxAttempts = maxAttempts]]
    /\ UNCHANGED <<endpoint, rows, tries, workerInterrupts, orphans, columnsMatch>>

\* emit and the first half of fanOut: only an active endpoint is found.
FanOut(w, d) == endpoint.status = "active" /\ ToEnqueue(w, d, MaxAttempts)

\* The first half of testFire, which does not look at isActive.
TestFire(w, d) == EndpointExists /\ ToEnqueue(w, d, 1)

\* The row is written; without its endpoint the insert fails.
Enqueue(w) ==
    LET d == workers[w].delivery IN
    /\ WorkerAt(w, "enqueue")
    /\ IF EndpointExists
         THEN /\ rows' = [rows EXCEPT ![d] =
                    [status |-> "pending", attempt |-> 1,
                     maxAttempts |-> workers[w].maxAttempts]]
              /\ Goto(w, "claim")
         ELSE UNCHANGED rows /\ NextRow(w)
    /\ UNCHANGED <<endpoint, tries, workerInterrupts, orphans, columnsMatch>>

DeliveryDue(d) == rows[d].status = "pending"

\* deliverPending reads the due rows, up to a hundred at once.
DeliverPending(w) ==
    /\ Free(w)
    /\ \E d \in Deliveries : DeliveryDue(d)
    /\ workers' = [workers EXCEPT ![w].todo = {d \in Deliveries : DeliveryDue(d)}]
    /\ UNCHANGED <<endpoint, rows, tries, workerInterrupts, orphans, columnsMatch>>

Pick(w, d) ==
    /\ WorkerAt(w, "idle")
    /\ d \in workers[w].todo
    /\ workers' = [workers EXCEPT ![w] =
          [@ EXCEPT !.step = "claim", !.delivery = d, !.todo = workers[w].todo \ {d}]]
    /\ UNCHANGED <<endpoint, rows, tries, workerInterrupts, orphans, columnsMatch>>

\* Seeded faults: the claim does not look at the status well enough.
ClaimableTwice(status) == status \in {"pending", "in_progress"}
ClaimableDead(status) == status \in {"pending", "dead"}

Claimable(status) == status = "pending"

\* attemptDelivery claims the row with an update that names its old status.
Claim(w) ==
    LET d == workers[w].delivery IN
    /\ WorkerAt(w, "claim")
    /\ IF Claimable(rows[d].status)
         THEN /\ rows' = [rows EXCEPT ![d].status = "in_progress"]
              /\ Goto(w, "read")
         ELSE UNCHANGED rows /\ NextRow(w)
    /\ UNCHANGED <<endpoint, tries, workerInterrupts, orphans, columnsMatch>>

\* It reads the row with its endpoint. A deleted row ends the attempt, an
\* inactive endpoint ends the delivery (the update that says so follows the
\* read at once: only a deletion could come between, and would win).
ReadRow(w) ==
    LET d == workers[w].delivery IN
    /\ WorkerAt(w, "read")
    /\ \/ /\ rows[d].status = "deleted"
          /\ NextRow(w)
          /\ UNCHANGED rows
       \/ /\ rows[d].status # "deleted" /\ endpoint.status = "inactive"
          /\ rows' = [rows EXCEPT ![d].status = "dead"]
          /\ NextRow(w)
       \/ /\ rows[d].status # "deleted" /\ endpoint.status = "active"
          /\ workers' = [workers EXCEPT ![w] = [@ EXCEPT !.step = "post", !.attempt = rows[d].attempt]]
          /\ UNCHANGED rows
    /\ UNCHANGED <<endpoint, tries, workerInterrupts, orphans, columnsMatch>>

\* The POST: answered 2xx, or refused, redirected, timed out, not resolved.
Post(w) ==
    /\ WorkerAt(w, "post")
    /\ tries' = [tries EXCEPT ![workers[w].delivery] = @ + 1]
    /\ Goto(w, "succeed") \/ Goto(w, "fail")
    /\ UNCHANGED <<endpoint, rows, workerInterrupts, orphans, columnsMatch>>

\* One transaction; it fails when the rows are gone.
RecordSuccess(w) ==
    LET d == workers[w].delivery IN
    /\ WorkerAt(w, "succeed")
    /\ IF rows[d].status = "deleted"
         THEN UNCHANGED <<endpoint, rows>>
         ELSE /\ rows' = [rows EXCEPT ![d].status = "success"]
              /\ endpoint' = [endpoint EXCEPT !.failures = 0]
    /\ NextRow(w)
    /\ UNCHANGED <<tries, workerInterrupts, orphans, columnsMatch>>

WillRetry(attempt, maxAttempts) == attempt < maxAttempts

\* is_active = CASE ... END.
StatusAfterFailure(status, failures) ==
    IF status = "inactive" \/ failures + 1 >= DisableAfter THEN "inactive" ELSE status

\* One transaction: the row goes back to pending or dies, and a raw UPDATE
\* counts the failure and disables the endpoint. When that statement fails, so
\* does the transaction, and the row stays in_progress.
RecordFailure(w) ==
    LET d == workers[w].delivery
        attempt == workers[w].attempt
    IN
    /\ WorkerAt(w, "fail")
    /\ IF rows[d].status = "deleted" \/ ~ columnsMatch
         THEN UNCHANGED <<endpoint, rows>>
         ELSE /\ rows' = [rows EXCEPT
                    ![d].status = IF WillRetry(attempt, rows[d].maxAttempts)
                                    THEN "pending" ELSE "dead",
                    ![d].attempt = attempt + 1]
              /\ endpoint' = [status |-> StatusAfterFailure(endpoint.status, endpoint.failures),
                              failures |-> endpoint.failures + 1]
    /\ NextRow(w)
    /\ UNCHANGED <<tries, workerInterrupts, orphans, columnsMatch>>

Holds(w, d) ==
    workers[w].delivery = d /\ workers[w].step \in {"read", "post", "succeed", "fail"}

\* The process stops, or a statement throws.
InterruptWorker(w) ==
    /\ ~ Free(w)
    /\ workerInterrupts < MaxWorkerInterrupts
    /\ workerInterrupts' = workerInterrupts + 1
    /\ orphans' = orphans \cup {d \in Deliveries : Holds(w, d)}
    /\ workers' = [workers EXCEPT ![w] = IdleWorker]
    /\ UNCHANGED <<endpoint, rows, tries, columnsMatch>>

-----------------------------------------------------------------------------
EndpointStep ==
    \/ CreateEndpoint \/ DeleteEndpoint
    \/ \E active \in BOOLEAN : UpdateEndpoint(active)

ProceedWorker(w) ==
    \/ Enqueue(w) \/ Claim(w) \/ ReadRow(w) \/ Post(w)
    \/ RecordSuccess(w) \/ RecordFailure(w)
    \/ \E d \in Deliveries : Pick(w, d)

WebhooksNext ==
    \/ EndpointStep
    \/ \E w \in Workers :
         \/ ProceedWorker(w) \/ DeliverPending(w) \/ InterruptWorker(w)
         \/ \E d \in Deliveries : FanOut(w, d) \/ TestFire(w, d)

WebhooksSpec == WebhooksInit /\ [][WebhooksNext]_webhooksVars

\* What has begun goes on, and the job runs every minute.
FairWebhooksSpec ==
    /\ WebhooksSpec
    /\ \A w \in Workers : WF_webhooksVars(ProceedWorker(w))
    /\ WF_webhooksVars(\E w \in Workers : DeliverPending(w))

-----------------------------------------------------------------------------
(* Properties. *)

\* Inline attempt, job run and administrator's trigger may all pick one row:
\* no two of them POST it at the same time (attemptDelivery, "concurrent cron /
\* inline invocations don't both dispatch the same delivery").
OneSender ==
    \A d \in Deliveries : \A v, w \in Workers : Holds(v, d) /\ Holds(w, d) => v = w

\* The attempts of a row and its POSTs keep step: no row waits for an attempt it
\* has used or is not entitled to.
CountsItsTries(d) ==
    /\ rows[d].status = "absent" => tries[d] = 0
    /\ rows[d].status = "pending" => rows[d].attempt = tries[d] + 1
    /\ rows[d].status \in {"pending", "in_progress"} => rows[d].attempt <= rows[d].maxAttempts

DeliveriesOK == \A d \in Deliveries : CountsItsTries(d)

\* What a worker knows of its row: only the worker that writes a row knows of it
\* before it is there, and the attempt that a claimant has read is the one it makes.
KnowsItsRow(w) ==
    LET k == workers[w]
        d == k.delivery
    IN
    /\ \A e \in k.todo : rows[e].status # "absent"
    /\ k.step # "idle" => d \in Deliveries
    /\ k.step = "enqueue" =>
          /\ rows[d].status = "absent" /\ k.maxAttempts \in {1, MaxAttempts}
          /\ \A v \in Workers \ {w} : workers[v].delivery # d
    /\ k.step \in {"claim", "read", "post", "succeed", "fail"} => rows[d].status # "absent"
    /\ Holds(w, d) => rows[d].status \in {"in_progress", "deleted"}
    /\ k.step = "read" /\ rows[d].status = "in_progress" => rows[d].attempt = tries[d] + 1
    /\ k.step = "post" => k.attempt = tries[d] + 1 /\ k.attempt <= MaxAttempts
    /\ k.step \in {"succeed", "fail"} => k.attempt = tries[d]
    /\ k.step \in {"post", "succeed", "fail"} /\ rows[d].status = "in_progress" =>
          k.attempt = rows[d].attempt

WorkersOK == \A w \in Workers : KnowsItsRow(w)

\* The inductive invariant behind OneSender, VerdictIsFinal and DeadForCause.
WebhooksIInv == WebhooksTypeOK /\ OneSender /\ DeliveriesOK /\ WorkersOK

\* Once a delivery has succeeded or died, nothing but its deletion changes it.
VerdictIsFinal ==
    [][\A d \in Deliveries :
         rows[d].status \in {"success", "dead"} =>
            rows'[d] = rows[d] \/ rows'[d].status = "deleted"]_webhooksVars

\* A delivery dies only when all its attempts were used or its endpoint is off.
DeadForCause ==
    [][\A d \in Deliveries :
         rows[d].status # "dead" /\ rows'[d].status = "dead" =>
            tries[d] = rows[d].maxAttempts \/ endpoint.status = "inactive"]_webhooksVars

\* An endpoint in use is below its failure limit, whatever sends, successes and
\* reactivations overlap (attemptDelivery, updateEndpoint).
ActiveBelowLimit == endpoint.status = "active" => endpoint.failures < DisableAfter

\* Only an administrator turns an endpoint on: a send that was under way when it
\* was disabled does not ("so a manual disable ... can't be clobbered").
OnlyStaffActivates ==
    [][endpoint.status = "inactive" /\ endpoint'.status = "active"
         => UNCHANGED <<rows, workers>>]_webhooksVars

\* A delivery that was written is settled in the end ("Each delivery has its own
\* row + retry schedule"), unless the worker that had claimed it was interrupted.
EveryDeliverySettles ==
    \A d \in Deliveries :
        rows[d].status = "pending" ~>
            rows[d].status \in {"success", "dead", "deleted"} \/ d \in orphans

=============================================================================
