---------------------------- MODULE WebhookProofs ----------------------------
(* Theorems about WebhookDelivery, for every value of its constants. *)
EXTENDS WebhookDelivery, TLAPS

\* What the rest at the end of an attempt is: a worker that knows of no row.
LEMMA NextRowEffect ==
    ASSUME WebhooksTypeOK, NEW w \in Workers, NextRow(w)
    PROVE  /\ workers' \in [Workers -> Worker]
           /\ workers'[w].step = "idle" /\ workers'[w].delivery = NoDelivery
           /\ workers'[w].todo = workers[w].todo
           /\ \A v \in Workers \ {w} : workers'[v] = workers[v]
BY WebhookAssumption DEF NextRow, WebhooksTypeOK, IdleWorker, Worker

\* Going on to the next step changes nothing else a worker knows.
LEMMA GotoEffect ==
    ASSUME WebhooksTypeOK, NEW w \in Workers, NEW step, Goto(w, step),
           step \in {"claim", "read", "succeed", "fail"}
    PROVE  /\ workers' \in [Workers -> Worker]
           /\ workers'[w] = [workers[w] EXCEPT !.step = step]
           /\ \A v \in Workers \ {w} : workers'[v] = workers[v]
BY DEF Goto, WebhooksTypeOK, Worker

\* Beginning to write a row names it and its number of attempts.
LEMMA ToEnqueueEffect ==
    ASSUME WebhooksTypeOK, NEW w \in Workers, NEW d \in Deliveries, NEW n \in {1, MaxAttempts},
           ToEnqueue(w, d, n)
    PROVE  /\ workers' \in [Workers -> Worker]
           /\ workers'[w].step = "enqueue" /\ workers'[w].delivery = d
           /\ workers'[w].todo = {} /\ workers'[w].maxAttempts = n
           /\ \A v \in Workers \ {w} : workers'[v] = workers[v]
<1>1. IdleWorker \in Worker /\ IdleWorker.todo = {}
  BY WebhookAssumption DEF IdleWorker, Worker
<1> DEFINE k == [IdleWorker EXCEPT !.step = "enqueue", !.delivery = d, !.maxAttempts = n]
<1>2. k \in Worker /\ k.step = "enqueue" /\ k.delivery = d /\ k.todo = {}
      /\ k.maxAttempts = n
  BY <1>1 DEF Worker
<1>3. workers' = [workers EXCEPT ![w] = k]
  BY DEF ToEnqueue
<1> HIDE DEF k
<1> QED
  BY <1>2, <1>3 DEF WebhooksTypeOK

\* The empty tables satisfy the invariant.
LEMMA InitIInv == WebhooksInit => WebhooksIInv
<1> SUFFICES ASSUME WebhooksInit PROVE WebhooksIInv
  OBVIOUS
<1>1. NoRow \in Row /\ IdleWorker \in Worker
  BY WebhookAssumption DEF NoRow, Row, IdleWorker, Worker
<1>2. WebhooksTypeOK
  BY <1>1, WebhookAssumption DEF WebhooksInit, WebhooksTypeOK
<1>3. OneSender /\ DeliveriesOK /\ WorkersOK
  BY DEF WebhooksInit, OneSender, DeliveriesOK, CountsItsTries, WorkersOK, KnowsItsRow, Holds, NoRow, IdleWorker
<1> QED BY <1>2, <1>3 DEF WebhooksIInv

\* Every step keeps the types: an attempt is numbered within its row's limit.
LEMMA NextType == WebhooksIInv /\ [WebhooksNext]_webhooksVars => WebhooksTypeOK'
<1> SUFFICES ASSUME WebhooksIInv, [WebhooksNext]_webhooksVars PROVE WebhooksTypeOK'
  OBVIOUS
<1> USE WebhookAssumption
<1>0. WebhooksTypeOK /\ columnsMatch' \in BOOLEAN
  BY DEF WebhooksIInv, WebhooksTypeOK, WebhooksNext, webhooksVars, EndpointStep, CreateEndpoint, UpdateEndpoint,
         DeleteEndpoint, ProceedWorker, Enqueue, Claim, ReadRow, Post, RecordSuccess,
         RecordFailure, Pick, DeliverPending, InterruptWorker, FanOut, TestFire, ToEnqueue
<1>1. CASE EndpointStep
  <2>1. CASE CreateEndpoint
    BY <1>0, <2>1 DEF CreateEndpoint, WebhooksTypeOK
  <2>2. ASSUME NEW active \in BOOLEAN, UpdateEndpoint(active) PROVE WebhooksTypeOK'
    BY <1>0, <2>2 DEF UpdateEndpoint, FailuresAfterUpdate, WebhooksTypeOK
  <2>3. CASE DeleteEndpoint
    BY <1>0, <2>3 DEF DeleteEndpoint, WebhooksTypeOK, NoRow, Row
  <2> QED BY <1>1, <2>1, <2>2, <2>3 DEF EndpointStep
<1>2. ASSUME NEW w \in Workers, Enqueue(w) PROVE WebhooksTypeOK'
  <2> DEFINE d == workers[w].delivery
  <2>1. d \in Deliveries
    BY <1>2 DEF Enqueue, WorkerAt, WebhooksIInv, WorkersOK, KnowsItsRow
  <2>2. CASE EndpointExists
    <3>1. workers' \in [Workers -> Worker]
      BY <1>0, <1>2, <2>2, GotoEffect DEF Enqueue
    <3>2. rows' \in [Deliveries -> Row]
      BY <1>0, <1>2, <2>1, <2>2 DEF Enqueue, WebhooksTypeOK, Row, Worker
    <3> QED BY <1>0, <1>2, <3>1, <3>2 DEF Enqueue, WebhooksTypeOK
  <2>3. CASE ~ EndpointExists
    BY <1>0, <1>2, <2>3, NextRowEffect DEF Enqueue, WebhooksTypeOK
  <2> QED BY <2>2, <2>3
<1>3. ASSUME NEW w \in Workers, Claim(w) PROVE WebhooksTypeOK'
  <2>1. workers' \in [Workers -> Worker]
    BY <1>0, <1>3, NextRowEffect, GotoEffect DEF Claim
  <2>2. rows' \in [Deliveries -> Row]
    BY <1>0, <1>3 DEF Claim, WebhooksTypeOK, Row
  <2> QED BY <1>0, <1>3, <2>1, <2>2 DEF Claim, WebhooksTypeOK
<1>4. ASSUME NEW w \in Workers, ReadRow(w) PROVE WebhooksTypeOK'
  <2> DEFINE d == workers[w].delivery
  <2>1. d \in Deliveries
    BY <1>4 DEF ReadRow, WorkerAt, WebhooksIInv, WorkersOK, KnowsItsRow
  <2>2. workers' \in [Workers -> Worker]
    <3>1. CASE NextRow(w)
      BY <1>0, <3>1, NextRowEffect
    <3> DEFINE k == [workers[w] EXCEPT !.step = "post", !.attempt = rows[d].attempt]
    <3>2. CASE workers' = [workers EXCEPT ![w] = k]
      <4>1. k \in Worker
        <5>1. workers[w] \in Worker /\ rows[d] \in Row
          BY <1>0, <2>1 DEF WebhooksTypeOK
        <5>2. rows[d].attempt \in 0 .. MaxAttempts + 1
          BY <5>1 DEF Row
        <5> QED BY <5>1, <5>2 DEF Worker
      <4> HIDE DEF k
      <4> QED BY <1>0, <3>2, <4>1 DEF WebhooksTypeOK
    <3>3. NextRow(w) \/ workers' = [workers EXCEPT ![w] = k]
      BY <1>4 DEF ReadRow
    <3> QED BY <3>1, <3>2, <3>3
  <2>3. rows' \in [Deliveries -> Row]
    BY <1>0, <1>4 DEF ReadRow, WebhooksTypeOK, Row
  <2> QED BY <1>0, <1>4, <2>2, <2>3 DEF ReadRow, WebhooksTypeOK
<1>5. ASSUME NEW w \in Workers, Post(w) PROVE WebhooksTypeOK'
  <2> DEFINE d == workers[w].delivery
  <2>1. d \in Deliveries /\ tries[d] + 1 <= MaxAttempts
    BY <1>0, <1>5 DEF Post, WorkerAt, WebhooksIInv, WorkersOK, KnowsItsRow, WebhooksTypeOK
  <2>2. workers' \in [Workers -> Worker]
    BY <1>0, <1>5, GotoEffect DEF Post
  <2>3. tries' \in [Deliveries -> 0 .. MaxAttempts]
    BY <1>0, <1>5, <2>1 DEF Post, WebhooksTypeOK
  <2> QED BY <1>0, <1>5, <2>2, <2>3 DEF Post, WebhooksTypeOK
<1>6. ASSUME NEW w \in Workers, RecordSuccess(w) PROVE WebhooksTypeOK'
  <2>1. workers' \in [Workers -> Worker]
    BY <1>0, <1>6, NextRowEffect DEF RecordSuccess
  <2>2. rows' \in [Deliveries -> Row]
    BY <1>0, <1>6 DEF RecordSuccess, WebhooksTypeOK, Row
  <2> QED BY <1>0, <1>6, <2>1, <2>2 DEF RecordSuccess, WebhooksTypeOK
<1>7. ASSUME NEW w \in Workers, RecordFailure(w) PROVE WebhooksTypeOK'
  <2> DEFINE d == workers[w].delivery
  <2>1. d \in Deliveries /\ workers[w].attempt + 1 \in 0 .. MaxAttempts + 1
    BY <1>0, <1>7 DEF RecordFailure, WorkerAt, WebhooksIInv, WorkersOK, KnowsItsRow, WebhooksTypeOK
  <2>2. workers' \in [Workers -> Worker]
    BY <1>0, <1>7, NextRowEffect DEF RecordFailure
  <2>3. rows' \in [Deliveries -> Row]
    BY <1>0, <1>7, <2>1 DEF RecordFailure, WebhooksTypeOK, Row
  <2>4. endpoint' \in [status : {"absent", "active", "inactive", "deleted"}, failures : Nat]
    BY <1>0, <1>7 DEF RecordFailure, StatusAfterFailure, WebhooksTypeOK
  <2> QED BY <1>0, <1>7, <2>2, <2>3, <2>4 DEF RecordFailure, WebhooksTypeOK
<1>8. ASSUME NEW w \in Workers, NEW d \in Deliveries, Pick(w, d) PROVE WebhooksTypeOK'
  <2> DEFINE k == [workers[w] EXCEPT !.step = "claim", !.delivery = d, !.todo = workers[w].todo \ {d}]
  <2>1. workers' = [workers EXCEPT ![w] = k]
    BY <1>8 DEF Pick
  <2>2. k \in Worker
    <3>1. workers[w] \in Worker
      BY <1>0 DEF WebhooksTypeOK
    <3> QED BY <3>1 DEF Worker
  <2> HIDE DEF k
  <2>3. workers' \in [Workers -> Worker]
    BY <1>0, <2>1, <2>2 DEF WebhooksTypeOK
  <2> QED BY <1>0, <1>8, <2>3 DEF Pick, WebhooksTypeOK
<1>9. ASSUME NEW w \in Workers, DeliverPending(w) PROVE WebhooksTypeOK'
  BY <1>0, <1>9 DEF DeliverPending, WebhooksTypeOK, Worker
<1>10. ASSUME NEW w \in Workers, InterruptWorker(w) PROVE WebhooksTypeOK'
  BY <1>0, <1>10 DEF InterruptWorker, WebhooksTypeOK, Worker, IdleWorker
<1>11. ASSUME NEW w \in Workers, NEW d \in Deliveries, FanOut(w, d) \/ TestFire(w, d)
       PROVE  WebhooksTypeOK'
  <2>1. PICK n \in {1, MaxAttempts} : ToEnqueue(w, d, n)
    BY <1>11 DEF FanOut, TestFire
  <2> QED BY <1>0, <2>1, ToEnqueueEffect DEF ToEnqueue, WebhooksTypeOK
<1>12. CASE UNCHANGED webhooksVars
  BY <1>0, <1>12 DEF webhooksVars, WebhooksTypeOK
<1>13. ASSUME NEW w \in Workers, ProceedWorker(w) PROVE WebhooksTypeOK'
  BY <1>2, <1>3, <1>4, <1>5, <1>6, <1>7, <1>8, <1>13 DEF ProceedWorker
<1> QED
  BY <1>1, <1>9, <1>10, <1>11, <1>12, <1>13 DEF WebhooksNext

\* While a worker changes the row it works on, which no other worker holds or is
\* about to write, the others still know what they knew.
LEMMA OthersKnow ==
    ASSUME WebhooksTypeOK, WorkersOK, NEW w \in Workers, NEW d \in Deliveries,
           workers[w].delivery = d,
           workers'[w].delivery \in {d, NoDelivery},
           \A v \in Workers \ {w} :
              /\ workers'[v] = workers[v]
              /\ ~ Holds(v, d)
              /\ ~ (workers[v].delivery = d /\ workers[v].step = "enqueue"),
           \A e \in Deliveries \ {d} : rows'[e] = rows[e] /\ tries'[e] = tries[e],
           rows'[d].status # "absent" \/ rows'[d] = rows[d]
    PROVE  \A v \in Workers \ {w} : KnowsItsRow(v)'
<1> SUFFICES ASSUME NEW v \in Workers, v # w PROVE KnowsItsRow(v)'
  OBVIOUS
<1> DEFINE k == workers[v]
<1>1. KnowsItsRow(v) /\ workers'[v] = k /\ k \in Worker /\ k.todo \subseteq Deliveries
  BY DEF WebhooksTypeOK, WorkersOK, Worker
<1>2. \A e \in k.todo : rows'[e].status # "absent"
  BY <1>1 DEF KnowsItsRow
<1>3. k.step = "enqueue" => \A u \in Workers \ {v} : workers'[u].delivery # k.delivery
  <2>1. k.step = "enqueue" => k.delivery \in Deliveries /\ k.delivery # d
    BY <1>1 DEF KnowsItsRow
  <2> QED BY <1>1, <2>1, WebhookAssumption DEF KnowsItsRow
<1>4. CASE k.delivery = d
  BY <1>1, <1>2, <1>3, <1>4 DEF KnowsItsRow, Holds
<1>5. CASE k.delivery # d
  BY <1>1, <1>2, <1>3, <1>5 DEF KnowsItsRow, Holds
<1> QED BY <1>4, <1>5

\* So such a step keeps the invariant when it leaves this row and this worker well.
LEMMA OneRowStep ==
    ASSUME WebhooksIInv, NEW w \in Workers, NEW d \in Deliveries,
           workers[w].delivery = d,
           workers'[w].delivery \in {d, NoDelivery},
           \A v \in Workers \ {w} :
              /\ workers'[v] = workers[v]
              /\ ~ Holds(v, d)
              /\ ~ (workers[v].delivery = d /\ workers[v].step = "enqueue"),
           \A e \in Deliveries \ {d} : rows'[e] = rows[e] /\ tries'[e] = tries[e],
           rows'[d].status # "absent" \/ rows'[d] = rows[d],
           CountsItsTries(d)', KnowsItsRow(w)'
    PROVE  OneSender' /\ DeliveriesOK' /\ WorkersOK'
<1>1. \A v \in Workers \ {w} : KnowsItsRow(v)'
  BY OthersKnow DEF WebhooksIInv
<1>2. \A e \in Deliveries \ {d} : CountsItsTries(e)'
  BY DEF WebhooksIInv, DeliveriesOK, CountsItsTries
<1>3. OneSender'
  BY WebhookAssumption DEF WebhooksIInv, OneSender, Holds
<1> QED BY <1>1, <1>2, <1>3 DEF DeliveriesOK, WorkersOK

\* What the holder of a row may rely on: it is there, and it is nobody else's.
LEMMA HeldAlone ==
    ASSUME WebhooksIInv, NEW w \in Workers, Holds(w, workers[w].delivery)
    PROVE  /\ workers[w].delivery \in Deliveries
           /\ rows[workers[w].delivery].status \in {"in_progress", "deleted"}
           /\ \A v \in Workers \ {w} :
                /\ ~ Holds(v, workers[w].delivery)
                /\ ~ (workers[v].delivery = workers[w].delivery /\ workers[v].step = "enqueue")
BY DEF WebhooksIInv, OneSender, WorkersOK, KnowsItsRow, Holds

\* A worker between two attempts knows only of the rows it has left.
LEMMA RestKnows ==
    ASSUME NEW w \in Workers, workers'[w].step = "idle",
           \A e \in workers'[w].todo : rows'[e].status # "absent"
    PROVE  KnowsItsRow(w)'
BY DEF KnowsItsRow, Holds

\* A worker that takes up or lays down work, with the tables as they are, keeps the
\* invariant when it names no row that another one is about to write.
LEMMA WorkerStep ==
    ASSUME WebhooksIInv, NEW w \in Workers, rows' = rows, tries' = tries,
           \A v \in Workers \ {w} :
              /\ workers'[v] = workers[v]
              /\ workers[v].step = "enqueue" => workers'[w].delivery # workers[v].delivery,
           workers'[w].step \in {"idle", "enqueue", "claim"}, KnowsItsRow(w)'
    PROVE  OneSender' /\ DeliveriesOK' /\ WorkersOK'
<1>1. OneSender' /\ DeliveriesOK'
  BY DEF WebhooksIInv, OneSender, Holds, DeliveriesOK, CountsItsTries
<1>2. ASSUME NEW v \in Workers \ {w} PROVE KnowsItsRow(v)'
  <2>1. KnowsItsRow(v)
    BY DEF WebhooksIInv, WorkersOK
  <2> QED BY <2>1 DEF KnowsItsRow, Holds
<1> QED BY <1>1, <1>2 DEF WorkersOK

\* An attempt that ends without a word leaves everything as it was.
LEMMA RestStep ==
    ASSUME WebhooksIInv, NEW w \in Workers, NextRow(w), rows' = rows, tries' = tries
    PROVE  OneSender' /\ DeliveriesOK' /\ WorkersOK'
<1>1. /\ workers'[w].step = "idle" /\ workers'[w].delivery = NoDelivery
      /\ workers'[w].todo = workers[w].todo
      /\ \A v \in Workers \ {w} : workers'[v] = workers[v]
  BY NextRowEffect DEF WebhooksIInv
<1>2. KnowsItsRow(w)'
  BY <1>1, RestKnows DEF WebhooksIInv, WorkersOK, KnowsItsRow
<1>3. \A v \in Workers : workers[v].step = "enqueue" => workers[v].delivery # NoDelivery
  BY WebhookAssumption DEF WebhooksIInv, WorkersOK, KnowsItsRow
<1> QED BY <1>1, <1>2, <1>3, WorkerStep

\* An attempt that ends with a verdict or another try: the holder writes its row.
LEMMA VerdictStep ==
    ASSUME WebhooksIInv, NEW w \in Workers, NEW d \in Deliveries, d = workers[w].delivery,
           Holds(w, d), NextRow(w), tries' = tries,
           \A e \in Deliveries \ {d} : rows'[e] = rows[e],
           rows'[d].status \in {"pending", "success", "dead"}, CountsItsTries(d)'
    PROVE  OneSender' /\ DeliveriesOK' /\ WorkersOK'
<1>1. /\ workers'[w].step = "idle" /\ workers'[w].delivery = NoDelivery
      /\ workers'[w].todo = workers[w].todo
      /\ \A v \in Workers \ {w} : workers'[v] = workers[v]
  BY NextRowEffect DEF WebhooksIInv
<1>2. workers[w].todo \subseteq Deliveries
  BY DEF WebhooksIInv, WebhooksTypeOK, Worker
<1>3. KnowsItsRow(w)'
  BY <1>1, <1>2, RestKnows DEF WebhooksIInv, WorkersOK, KnowsItsRow
<1> QED BY <1>1, <1>3, HeldAlone, OneRowStep

\* Every step keeps what relates the workers to the rows.
LEMMA NextIInv == WebhooksIInv /\ [WebhooksNext]_webhooksVars => WebhooksIInv'
<1> SUFFICES ASSUME WebhooksIInv, [WebhooksNext]_webhooksVars PROVE OneSender' /\ DeliveriesOK' /\ WorkersOK'
  BY NextType DEF WebhooksIInv
<1> DEFINE Kept == OneSender' /\ DeliveriesOK' /\ WorkersOK'
<1> USE WebhookAssumption
<1>0. /\ WebhooksTypeOK /\ OneSender
      /\ \A d \in Deliveries : CountsItsTries(d) /\ rows[d] \in Row
      /\ \A v \in Workers :
           /\ KnowsItsRow(v) /\ workers[v] \in Worker /\ workers[v].todo \subseteq Deliveries
           /\ \A e \in workers[v].todo : rows[e].status # "absent"
  BY DEF WebhooksIInv, DeliveriesOK, WorkersOK, KnowsItsRow, WebhooksTypeOK, Worker
<1>1. CASE EndpointStep
  <2>1. workers' = workers /\ tries' = tries
    BY <1>1 DEF EndpointStep, CreateEndpoint, UpdateEndpoint, DeleteEndpoint
  <2>2. \A d \in Deliveries :
          \/ rows'[d] = rows[d]
          \/ rows[d].status # "absent" /\ rows'[d].status = "deleted"
    BY <1>1 DEF EndpointStep, CreateEndpoint, UpdateEndpoint, DeleteEndpoint, NoRow
  <2>3. OneSender' /\ DeliveriesOK'
    BY <1>0, <2>1, <2>2 DEF OneSender, Holds, DeliveriesOK, CountsItsTries
  <2>4. ASSUME NEW v \in Workers PROVE KnowsItsRow(v)'
    BY <1>0, <2>1, <2>2 DEF KnowsItsRow, Holds
  <2> QED BY <2>3, <2>4 DEF WorkersOK
<1>2. ASSUME NEW w \in Workers, NEW d \in Deliveries, d = workers[w].delivery, Enqueue(w)
      PROVE  Kept
  <2>1. CASE EndpointExists
    <3>1. /\ rows[d].status = "absent" /\ tries' = tries /\ tries[d] = 0
          /\ workers[w].maxAttempts \in {1, MaxAttempts}
          /\ \A v \in Workers \ {w} : workers[v].delivery # d /\ ~ Holds(v, d)
      BY <1>0, <1>2 DEF Enqueue, WorkerAt, KnowsItsRow, CountsItsTries, Holds
    <3>2. /\ workers'[w] = [workers[w] EXCEPT !.step = "claim"]
          /\ \A v \in Workers \ {w} : workers'[v] = workers[v]
      BY <1>0, <1>2, <2>1, GotoEffect DEF Enqueue
    <3>3. /\ workers'[w].step = "claim" /\ workers'[w].delivery = d
          /\ workers'[w].todo = workers[w].todo
      BY <1>0, <1>2, <3>2 DEF Worker
    <3>4. /\ rows'[d].status = "pending" /\ rows'[d].attempt = 1
          /\ rows'[d].maxAttempts = workers[w].maxAttempts
          /\ \A e \in Deliveries \ {d} : rows'[e] = rows[e]
      BY <1>0, <1>2, <2>1 DEF Enqueue, WebhooksTypeOK
    <3>5. KnowsItsRow(w)'
      BY <1>0, <3>1, <3>3, <3>4 DEF KnowsItsRow, Holds
    <3>6. CountsItsTries(d)'
      BY <3>1, <3>4 DEF CountsItsTries
    <3> QED BY <1>2, <3>1, <3>2, <3>3, <3>4, <3>5, <3>6, OneRowStep
  <2>2. CASE ~ EndpointExists
    BY <1>2, <2>2, RestStep DEF Enqueue
  <2> QED BY <2>1, <2>2
<1>3. ASSUME NEW w \in Workers, NEW d \in Deliveries, d = workers[w].delivery, Claim(w)
      PROVE  Kept
  <2>1. CASE Claimable(rows[d].status)
    <3>1. /\ workers'[w] = [workers[w] EXCEPT !.step = "read"] /\ tries' = tries
          /\ \A v \in Workers \ {w} : workers'[v] = workers[v]
      BY <1>0, <1>3, <2>1, GotoEffect DEF Claim
    <3>2. /\ workers'[w].step = "read" /\ workers'[w].delivery = d
          /\ workers'[w].todo = workers[w].todo
      BY <1>0, <1>3, <3>1 DEF Worker
    <3>3. /\ rows[d].status = "pending" /\ rows'[d].status = "in_progress"
          /\ rows'[d].attempt = rows[d].attempt /\ rows'[d].maxAttempts = rows[d].maxAttempts
          /\ \A e \in Deliveries \ {d} : rows'[e] = rows[e]
      BY <1>0, <1>3, <2>1 DEF Claim, Claimable, WebhooksTypeOK, Row
    <3>4. \A v \in Workers \ {w} :
            ~ Holds(v, d) /\ ~ (workers[v].delivery = d /\ workers[v].step = "enqueue")
      BY <1>0, <3>3 DEF KnowsItsRow, Holds
    <3>5. KnowsItsRow(w)'
      BY <1>0, <3>1, <3>2, <3>3 DEF KnowsItsRow, CountsItsTries, Holds
    <3>6. CountsItsTries(d)'
      BY <1>0, <3>1, <3>3 DEF CountsItsTries
    <3> QED BY <1>3, <3>1, <3>2, <3>3, <3>4, <3>5, <3>6, OneRowStep
  <2>2. CASE ~ Claimable(rows[d].status)
    BY <1>3, <2>2, RestStep DEF Claim
  <2> QED BY <2>1, <2>2
<1>4. ASSUME NEW w \in Workers, NEW d \in Deliveries, d = workers[w].delivery, ReadRow(w)
      PROVE  Kept
  <2>1. Holds(w, d) /\ tries' = tries
    BY <1>4 DEF ReadRow, WorkerAt, Holds
  <2>2. CASE rows[d].status = "deleted"
    BY <1>4, <2>2, RestStep DEF ReadRow
  <2>3. CASE rows[d].status # "deleted" /\ endpoint.status = "inactive"
    <3>1. /\ rows'[d].status = "dead" /\ NextRow(w)
          /\ \A e \in Deliveries \ {d} : rows'[e] = rows[e]
      BY <1>0, <1>4, <2>3 DEF ReadRow, WebhooksTypeOK, Row
    <3>2. CountsItsTries(d)'
      BY <3>1 DEF CountsItsTries
    <3> QED BY <1>4, <2>1, <3>1, <3>2, VerdictStep
  <2>4. CASE rows[d].status # "deleted" /\ endpoint.status = "active"
    <3> DEFINE k == [workers[w] EXCEPT !.step = "post", !.attempt = rows[d].attempt]
    <3>1. workers' = [workers EXCEPT ![w] = k] /\ rows' = rows
      BY <1>4, <2>4 DEF ReadRow
    <3>2. /\ k.step = "post" /\ k.attempt = rows[d].attempt /\ k.delivery = d
          /\ k.todo = workers[w].todo
      BY <1>0, <1>4 DEF Worker
    <3> HIDE DEF k
    <3>3. workers'[w] = k /\ \A v \in Workers \ {w} : workers'[v] = workers[v]
      BY <1>0, <3>1 DEF WebhooksTypeOK
    <3>4. rows[d].status = "in_progress" /\ rows[d].attempt = tries[d] + 1
      BY <1>0, <1>4, <2>1, <2>4 DEF KnowsItsRow, ReadRow, WorkerAt, Holds
    <3>5. rows[d].attempt <= MaxAttempts
      BY <1>0, <3>4 DEF CountsItsTries, Row
    <3>6. KnowsItsRow(w)'
      BY <1>0, <2>1, <3>1, <3>2, <3>3, <3>4, <3>5 DEF KnowsItsRow, Holds
    <3>7. CountsItsTries(d)'
      BY <1>0, <2>1, <3>1 DEF CountsItsTries
    <3> QED BY <1>4, <2>1, <3>1, <3>2, <3>3, <3>6, <3>7, HeldAlone, OneRowStep
  <2> QED BY <1>4, <2>2, <2>3, <2>4 DEF ReadRow
<1>5. ASSUME NEW w \in Workers, NEW d \in Deliveries, d = workers[w].delivery, Post(w)
      PROVE  Kept
  <2>1. PICK step \in {"succeed", "fail"} : Goto(w, step)
    BY <1>5 DEF Post
  <2>2. /\ workers'[w] = [workers[w] EXCEPT !.step = step]
        /\ \A v \in Workers \ {w} : workers'[v] = workers[v]
    BY <1>0, <2>1, GotoEffect
  <2>3. /\ workers'[w].step = step /\ workers'[w].delivery = d
        /\ workers'[w].todo = workers[w].todo /\ workers'[w].attempt = workers[w].attempt
    BY <1>0, <1>5, <2>2 DEF Worker
  <2>4. /\ rows' = rows /\ tries'[d] = tries[d] + 1
        /\ \A e \in Deliveries \ {d} : tries'[e] = tries[e]
    BY <1>0, <1>5 DEF Post, WebhooksTypeOK
  <2>5. Holds(w, d) /\ rows[d].status \in {"in_progress", "deleted"}
    BY <1>5, HeldAlone DEF Post, WorkerAt, Holds
  <2>6. KnowsItsRow(w)'
    BY <1>0, <1>5, <2>3, <2>4, <2>5 DEF KnowsItsRow, Holds, Post, WorkerAt
  <2>7. CountsItsTries(d)'
    BY <1>0, <2>4, <2>5 DEF CountsItsTries
  <2> QED BY <1>5, <2>2, <2>3, <2>4, <2>5, <2>6, <2>7, HeldAlone, OneRowStep
<1>6. ASSUME NEW w \in Workers, NEW d \in Deliveries, d = workers[w].delivery, RecordSuccess(w)
      PROVE  Kept
  <2>1. CASE rows[d].status = "deleted"
    BY <1>6, <2>1, RestStep DEF RecordSuccess
  <2>2. CASE rows[d].status # "deleted"
    <3>1. /\ rows'[d].status = "success" /\ NextRow(w) /\ tries' = tries /\ Holds(w, d)
          /\ \A e \in Deliveries \ {d} : rows'[e] = rows[e]
      BY <1>0, <1>6, <2>2 DEF RecordSuccess, WorkerAt, Holds, WebhooksTypeOK, Row
    <3>2. CountsItsTries(d)'
      BY <3>1 DEF CountsItsTries
    <3> QED BY <1>6, <3>1, <3>2, VerdictStep
  <2> QED BY <2>1, <2>2
<1>7. ASSUME NEW w \in Workers, NEW d \in Deliveries, d = workers[w].delivery, RecordFailure(w)
      PROVE  Kept
  <2>1. CASE rows[d].status = "deleted" \/ ~ columnsMatch
    BY <1>7, <2>1, RestStep DEF RecordFailure
  <2>2. CASE ~ (rows[d].status = "deleted" \/ ~ columnsMatch)
    <3> DEFINE status == IF WillRetry(workers[w].attempt, rows[d].maxAttempts)
                           THEN "pending" ELSE "dead"
    <3>1. rows' = [rows EXCEPT ![d].status = status, ![d].attempt = workers[w].attempt + 1]
      BY <1>7, <2>2 DEF RecordFailure
    <3>2. /\ rows'[d].status = status /\ rows'[d].attempt = workers[w].attempt + 1
          /\ rows'[d].maxAttempts = rows[d].maxAttempts
          /\ \A e \in Deliveries \ {d} : rows'[e] = rows[e]
      BY <1>0, <3>1 DEF WebhooksTypeOK, Row
    <3>3. NextRow(w) /\ tries' = tries /\ Holds(w, d) /\ workers[w].attempt = tries[d]
      BY <1>0, <1>7 DEF RecordFailure, WorkerAt, Holds, KnowsItsRow
    <3>4. CountsItsTries(d)'
      <4>1. tries[d] \in Nat /\ rows[d].maxAttempts \in Nat
        BY <1>0 DEF WebhooksTypeOK, Row
      <4> QED BY <3>2, <3>3, <4>1 DEF CountsItsTries, WillRetry
    <3> QED BY <1>7, <3>2, <3>3, <3>4, VerdictStep
  <2> QED BY <2>1, <2>2
<1>8. ASSUME NEW w \in Workers, NEW d \in Deliveries, Pick(w, d) PROVE Kept
  <2> DEFINE k == [workers[w] EXCEPT !.step = "claim", !.delivery = d, !.todo = workers[w].todo \ {d}]
  <2>1. k.step = "claim" /\ k.delivery = d /\ k.todo = workers[w].todo \ {d}
    BY <1>0 DEF Worker
  <2>2. workers' = [workers EXCEPT ![w] = k] /\ rows' = rows /\ tries' = tries
    BY <1>8 DEF Pick
  <2> HIDE DEF k
  <2>3. workers'[w] = k /\ \A v \in Workers \ {w} : workers'[v] = workers[v]
    BY <1>0, <2>2 DEF WebhooksTypeOK
  <2>4. rows[d].status # "absent"
    BY <1>0, <1>8 DEF Pick
  <2>5. KnowsItsRow(w)'
    BY <1>0, <2>1, <2>2, <2>3, <2>4 DEF KnowsItsRow, Holds
  <2>6. \A v \in Workers : workers[v].step = "enqueue" => workers[v].delivery # d
    BY <1>0, <2>4 DEF KnowsItsRow
  <2> QED BY <2>1, <2>2, <2>3, <2>5, <2>6, WorkerStep
<1>9. ASSUME NEW w \in Workers, DeliverPending(w) PROVE Kept
  <2> DEFINE due == {d \in Deliveries : DeliveryDue(d)}
             k == [workers[w] EXCEPT !.todo = due]
  <2>1. k.step = "idle" /\ k.delivery = workers[w].delivery /\ k.todo = due
    BY <1>0, <1>9 DEF DeliverPending, Free, WorkerAt, Worker
  <2>2. workers' = [workers EXCEPT ![w] = k] /\ rows' = rows /\ tries' = tries
    BY <1>9 DEF DeliverPending
  <2>3. \A e \in due : rows[e].status # "absent"
    BY DEF DeliveryDue
  <2> HIDE DEF k, due
  <2>4. workers'[w] = k /\ \A v \in Workers \ {w} : workers'[v] = workers[v]
    BY <1>0, <2>2 DEF WebhooksTypeOK
  <2>5. KnowsItsRow(w)'
    BY <2>1, <2>2, <2>3, <2>4, RestKnows
  <2>6. \A v \in Workers \ {w} :
          workers[v].step = "enqueue" => workers[w].delivery # workers[v].delivery
    BY <1>0 DEF KnowsItsRow
  <2> QED BY <2>1, <2>2, <2>4, <2>5, <2>6, WorkerStep
<1>10. ASSUME NEW w \in Workers, InterruptWorker(w) PROVE Kept
  <2>1. /\ workers'[w].step = "idle" /\ workers'[w].delivery = NoDelivery
        /\ workers'[w].todo = {} /\ rows' = rows /\ tries' = tries
        /\ \A v \in Workers \ {w} : workers'[v] = workers[v]
    BY <1>0, <1>10 DEF InterruptWorker, IdleWorker, WebhooksTypeOK
  <2>2. KnowsItsRow(w)'
    BY <2>1, RestKnows
  <2>3. \A v \in Workers : workers[v].step = "enqueue" => workers[v].delivery # NoDelivery
    BY <1>0 DEF KnowsItsRow
  <2> QED BY <2>1, <2>2, <2>3, WorkerStep
<1>11. ASSUME NEW w \in Workers, NEW d \in Deliveries, FanOut(w, d) \/ TestFire(w, d)
       PROVE  Kept
  <2>1. PICK n \in {1, MaxAttempts} : ToEnqueue(w, d, n)
    BY <1>11 DEF FanOut, TestFire
  <2>2. /\ workers'[w].step = "enqueue" /\ workers'[w].delivery = d
        /\ workers'[w].todo = {} /\ workers'[w].maxAttempts = n
        /\ \A v \in Workers \ {w} : workers'[v] = workers[v]
    BY <1>0, <2>1, ToEnqueueEffect
  <2>3. /\ rows' = rows /\ tries' = tries /\ rows[d].status = "absent"
        /\ \A v \in Workers : workers[v].delivery # d
    BY <2>1 DEF ToEnqueue, Unused
  <2>4. KnowsItsRow(w)'
    BY <2>1, <2>2, <2>3 DEF KnowsItsRow, Holds
  <2> QED BY <2>2, <2>3, <2>4, WorkerStep
<1>12. CASE UNCHANGED webhooksVars
  BY <1>0, <1>12 DEF webhooksVars, OneSender, Holds, DeliveriesOK, CountsItsTries, WorkersOK, KnowsItsRow
<1>13. ASSUME NEW w \in Workers, ProceedWorker(w) PROVE Kept
  <2>1. workers[w].step # "idle" => \E d \in Deliveries : d = workers[w].delivery
    BY <1>0 DEF KnowsItsRow
  <2>2. \/ \E d \in Deliveries : Pick(w, d)
        \/ \E d \in Deliveries :
             /\ d = workers[w].delivery
             /\ Enqueue(w) \/ Claim(w) \/ ReadRow(w) \/ Post(w) \/ RecordSuccess(w) \/ RecordFailure(w)
    BY <1>13, <2>1 DEF ProceedWorker, Enqueue, Claim, ReadRow, Post, RecordSuccess, RecordFailure, WorkerAt
  <2> QED BY <1>2, <1>3, <1>4, <1>5, <1>6, <1>7, <1>8, <2>2
<1> QED
  BY <1>1, <1>9, <1>10, <1>11, <1>12, <1>13 DEF WebhooksNext

-----------------------------------------------------------------------------
\* The invariant holds in every reachable state.
THEOREM Invariance == WebhooksSpec => []WebhooksIInv
<1>1. WebhooksInit => WebhooksIInv
  BY InitIInv
<1>2. WebhooksIInv /\ [WebhooksNext]_webhooksVars => WebhooksIInv'
  BY NextIInv
<1> QED BY <1>1, <1>2, PTL DEF WebhooksSpec

\* Every table and every worker stays well-typed: in particular no delivery is
\* POSTed more often than MAX_ATTEMPTS (attemptDelivery).
THEOREM TypeCorrect == WebhooksSpec => []WebhooksTypeOK
<1>1. WebhooksIInv => WebhooksTypeOK
  BY DEF WebhooksIInv
<1> QED BY <1>1, Invariance, PTL

\* However many requests, job runs and administrators pick one delivery, at most
\* one of them POSTs it at a time (attemptDelivery).
THEOREM SingleSender == WebhooksSpec => []OneSender
<1>1. WebhooksIInv => OneSender
  BY DEF WebhooksIInv
<1> QED BY <1>1, Invariance, PTL

\* What may become of a row in one step.
RowMoves(d) ==
    \/ rows'[d] = rows[d] \/ rows'[d].status = "deleted"
    \/ rows[d].status = "absent" /\ rows'[d].status = "pending"
    \/ rows[d].status = "pending" /\ rows'[d].status = "in_progress"
    \/ rows[d].status = "in_progress" /\ rows'[d].status \in {"pending", "success"}
    \/ /\ rows[d].status = "in_progress" /\ rows'[d].status = "dead"
       /\ tries[d] = rows[d].maxAttempts \/ endpoint.status = "inactive"

\* A row goes through its statuses in order, and dies for cause only.
LEMMA RowChange ==
    ASSUME WebhooksIInv, [WebhooksNext]_webhooksVars, NEW d \in Deliveries
    PROVE  RowMoves(d)
<1> SUFFICES ASSUME rows'[d] # rows[d] PROVE RowMoves(d)
  BY DEF RowMoves
<1>0. WebhooksTypeOK /\ rows[d] \in Row
  BY DEF WebhooksIInv, WebhooksTypeOK
<1>1. CASE EndpointStep
  BY <1>0, <1>1 DEF RowMoves, EndpointStep, CreateEndpoint, UpdateEndpoint, DeleteEndpoint, NoRow
<1>2. ASSUME NEW w \in Workers, Enqueue(w) PROVE RowMoves(d)
  BY <1>0, <1>2 DEF RowMoves, Enqueue, WorkerAt, WebhooksIInv, WorkersOK, KnowsItsRow, WebhooksTypeOK
<1>3. ASSUME NEW w \in Workers, Claim(w) PROVE RowMoves(d)
  <2>1. rows' = [rows EXCEPT ![workers[w].delivery].status = "in_progress"]
    BY <1>3 DEF Claim
  <2>2. workers[w].delivery = d
    BY <1>0, <2>1 DEF WebhooksTypeOK
  <2> QED BY <1>0, <1>3, <2>1, <2>2 DEF RowMoves, Claim, Claimable, WebhooksTypeOK, Row
<1>4. ASSUME NEW w \in Workers, ReadRow(w) PROVE RowMoves(d)
  <2>1. /\ rows[workers[w].delivery].status # "deleted" /\ endpoint.status = "inactive"
        /\ rows' = [rows EXCEPT ![workers[w].delivery].status = "dead"]
    BY <1>4 DEF ReadRow
  <2>2. workers[w].delivery = d
    BY <1>0, <2>1 DEF WebhooksTypeOK
  <2>3. rows[d].status = "in_progress"
    BY <1>4, <2>1, <2>2, HeldAlone DEF ReadRow, WorkerAt, Holds
  <2> QED BY <1>0, <2>1, <2>2, <2>3 DEF RowMoves, WebhooksTypeOK, Row
<1>5. ASSUME NEW w \in Workers, RecordSuccess(w) PROVE RowMoves(d)
  <2>1. /\ rows[workers[w].delivery].status # "deleted"
        /\ rows' = [rows EXCEPT ![workers[w].delivery].status = "success"]
    BY <1>5 DEF RecordSuccess
  <2>2. workers[w].delivery = d
    BY <1>0, <2>1 DEF WebhooksTypeOK
  <2>3. rows[d].status = "in_progress"
    BY <1>5, <2>1, <2>2, HeldAlone DEF RecordSuccess, WorkerAt, Holds
  <2> QED BY <1>0, <2>1, <2>2, <2>3 DEF RowMoves, WebhooksTypeOK, Row
<1>6. ASSUME NEW w \in Workers, RecordFailure(w) PROVE RowMoves(d)
  <2> DEFINE attempt == workers[w].attempt
  <2>1. /\ rows[workers[w].delivery].status # "deleted"
        /\ rows' = [rows EXCEPT
              ![workers[w].delivery].status =
                 IF WillRetry(attempt, rows[workers[w].delivery].maxAttempts)
                   THEN "pending" ELSE "dead",
              ![workers[w].delivery].attempt = attempt + 1]
    BY <1>6 DEF RecordFailure
  <2>2. workers[w].delivery = d
    BY <1>0, <2>1 DEF WebhooksTypeOK
  <2>3. rows[d].status = "in_progress"
    BY <1>6, <2>1, <2>2, HeldAlone DEF RecordFailure, WorkerAt, Holds
  <2>4. rows'[d].status = IF WillRetry(attempt, rows[d].maxAttempts) THEN "pending" ELSE "dead"
    BY <1>0, <2>1, <2>2 DEF WebhooksTypeOK, Row
  <2>5. attempt = tries[d] /\ attempt = rows[d].attempt
    BY <1>6, <2>2, <2>3 DEF RecordFailure, WorkerAt, WebhooksIInv, WorkersOK, KnowsItsRow
  <2>6. attempt <= rows[d].maxAttempts /\ attempt \in Nat /\ rows[d].maxAttempts \in Nat
    BY <1>0, <2>3, <2>5, WebhookAssumption DEF WebhooksIInv, DeliveriesOK, CountsItsTries, Row
  <2> QED BY <2>3, <2>4, <2>5, <2>6 DEF RowMoves, WillRetry
<1>7. ASSUME NEW w \in Workers, ProceedWorker(w) PROVE RowMoves(d)
  <2>1. ~ Post(w) /\ ~ \E e \in Deliveries : Pick(w, e)
    BY DEF Post, Pick
  <2> QED BY <1>2, <1>3, <1>4, <1>5, <1>6, <1>7, <2>1 DEF ProceedWorker
<1> QED
  BY <1>1, <1>7 DEF WebhooksNext, webhooksVars, DeliverPending, InterruptWorker, FanOut, TestFire, ToEnqueue

\* A delivery that has succeeded or died is never sent or judged again, whichever
\* stale list still names it (attemptDelivery, deliverPending).
THEOREM VerdictsAreFinal == WebhooksSpec => VerdictIsFinal
<1>1. ASSUME WebhooksIInv, [WebhooksNext]_webhooksVars
      PROVE  \A d \in Deliveries :
               rows[d].status \in {"success", "dead"} =>
                  rows'[d] = rows[d] \/ rows'[d].status = "deleted"
  BY <1>1, RowChange DEF RowMoves
<1> QED BY <1>1, Invariance, PTL DEF WebhooksSpec, VerdictIsFinal

\* A delivery is given up only when its attempts are used or its endpoint is off.
THEOREM DeathHasCause == WebhooksSpec => DeadForCause
<1>1. ASSUME WebhooksIInv, [WebhooksNext]_webhooksVars
      PROVE  \A d \in Deliveries :
               rows[d].status # "dead" /\ rows'[d].status = "dead" =>
                  tries[d] = rows[d].maxAttempts \/ endpoint.status = "inactive"
  BY <1>1, RowChange DEF RowMoves
<1> QED BY <1>1, Invariance, PTL DEF WebhooksSpec, DeadForCause

\* Only an administrator turns an endpoint on again.
THEOREM StaffActivates == WebhooksSpec => OnlyStaffActivates
<1>1. ASSUME WebhooksTypeOK, [WebhooksNext]_webhooksVars, endpoint.status = "inactive", endpoint'.status = "active"
      PROVE  UNCHANGED <<rows, workers>>
  <2>1. CASE EndpointStep
    BY <1>1, <2>1 DEF EndpointStep, CreateEndpoint, UpdateEndpoint, DeleteEndpoint
  <2>2. ASSUME NEW w \in Workers, RecordSuccess(w) PROVE FALSE
    BY <1>1, <2>2 DEF RecordSuccess, WebhooksTypeOK
  <2>3. ASSUME NEW w \in Workers, RecordFailure(w) PROVE FALSE
    BY <1>1, <2>3 DEF RecordFailure, StatusAfterFailure
  <2>4. endpoint' # endpoint
    BY <1>1
  <2> QED
    BY <1>1, <2>1, <2>2, <2>3, <2>4 DEF WebhooksNext, ProceedWorker, webhooksVars, Enqueue, Claim, ReadRow, Post, Pick,
       DeliverPending, InterruptWorker, FanOut, TestFire, ToEnqueue
<1> QED BY <1>1, TypeCorrect, PTL DEF WebhooksSpec, OnlyStaffActivates

\* An endpoint that is on has failed less often in a row than its limit, whatever
\* verdicts and reactivations overlap.
THEOREM ActiveStaysBelowLimit == WebhooksSpec => []ActiveBelowLimit
<1>1. WebhooksInit => ActiveBelowLimit
  BY DEF WebhooksInit, ActiveBelowLimit
<1>2. ASSUME WebhooksTypeOK, ActiveBelowLimit, [WebhooksNext]_webhooksVars PROVE ActiveBelowLimit'
  <2>1. CASE EndpointStep
    BY <1>2, <2>1, WebhookAssumption DEF EndpointStep, CreateEndpoint, UpdateEndpoint, DeleteEndpoint,
       FailuresAfterUpdate, ActiveBelowLimit
  <2>2. ASSUME NEW w \in Workers, RecordSuccess(w) PROVE ActiveBelowLimit'
    BY <1>2, <2>2, WebhookAssumption DEF RecordSuccess, ActiveBelowLimit, WebhooksTypeOK
  <2>3. ASSUME NEW w \in Workers, RecordFailure(w) PROVE ActiveBelowLimit'
    BY <1>2, <2>3, WebhookAssumption DEF RecordFailure, StatusAfterFailure, ActiveBelowLimit, WebhooksTypeOK
  <2>4. CASE endpoint' = endpoint
    BY <1>2, <2>4 DEF ActiveBelowLimit
  <2> QED
    BY <1>2, <2>1, <2>2, <2>3, <2>4 DEF WebhooksNext, ProceedWorker, webhooksVars, Enqueue, Claim, ReadRow, Post, Pick,
       DeliverPending, InterruptWorker, FanOut, TestFire, ToEnqueue
<1> QED BY <1>1, <1>2, TypeCorrect, PTL DEF WebhooksSpec
=============================================================================
