----------------------------- MODULE MailProofs -----------------------------
(* Theorems about MailOutbox, for every value of its constants. *)
EXTENDS MailOutbox, TLAPS

-----------------------------------------------------------------------------
(* What a step does to the workers. *)

LEMMA IdleIsWorker ==
    IdleWorker \in Worker /\ IdleWorker.step = "idle" /\ IdleWorker.mail = NoMail /\ IdleWorker.mail \notin Mails
BY MailAssumption DEF IdleWorker, Worker, Verdicts

\* All but one worker stay as they are.
Alone(w) == workers' \in [Workers -> Worker] /\ \A v \in Workers \ {w} : workers'[v] = workers[v]

LEMMA EndEffect ==
    ASSUME MailTypeOK, NEW w \in Workers, End(w)
    PROVE  Alone(w) /\ workers'[w] = IdleWorker
BY IdleIsWorker DEF End, MailTypeOK, Alone

LEMMA BeginEffect ==
    ASSUME MailTypeOK, NEW w \in Workers, NEW m \in Mails,
           NEW step \in {"insert", "reset", "read"}, Begin(w, step, m)
    PROVE  Alone(w) /\ workers'[w].step = step /\ workers'[w].mail = m /\ workers[w].step = "idle"
<1> DEFINE k == [IdleWorker EXCEPT !.step = step, !.mail = m]
<1>1. k \in Worker /\ k.step = step /\ k.mail = m
  BY MailAssumption DEF IdleWorker, Worker, Verdicts
<1>2. workers' = [workers EXCEPT ![w] = k] /\ workers[w].step = "idle"
  BY DEF Begin, WorkerAt
<1> HIDE DEF k
<1> QED BY <1>1, <1>2 DEF MailTypeOK, Alone

LEMMA GotoEffect ==
    ASSUME MailTypeOK, NEW w \in Workers, NEW step \in {"accepted", "refused"}, Goto(w, step)
    PROVE  Alone(w) /\ workers'[w] = [workers[w] EXCEPT !.step = step]
BY DEF Goto, MailTypeOK, Alone, Worker

-----------------------------------------------------------------------------
\* The empty table satisfies the invariant.
LEMMA InitIInv == MailInit => MailIInv
<1> SUFFICES ASSUME MailInit PROVE MailIInv
  OBVIOUS
<1>1. NoRow \in Row
  BY DEF NoRow, Row
<1>2. MailTypeOK
  BY <1>1, IdleIsWorker, MailAssumption DEF MailInit, MailTypeOK
<1>3. \A w \in Workers : KnowsItsMail(w)
  BY IdleIsWorker DEF MailInit, KnowsItsMail
<1>4. \A m \in Mails : MailOK(m)
  BY IdleIsWorker
     DEF MailInit, MailOK, HeldOnce, Holds, InReserve, AcceptedOnce, MailExists, NoRow, Verdicts
<1> QED BY <1>2, <1>3, <1>4 DEF MailIInv

\* A mail is as it was when neither its row nor a worker of it has changed.
LEMMA Frame ==
    ASSUME NEW m \in Mails, MailOK(m), m \in orphans => m \in orphans',
           rows'[m] = rows[m], accepted'[m] = accepted[m], resets'[m] = resets[m],
           \A w \in Workers :
              workers'[w] = workers[w] \/ workers'[w].mail # m
    PROVE  MailOK(m)'
BY DEF MailOK, HeldOnce, Holds, InReserve, AcceptedOnce, MailExists

-----------------------------------------------------------------------------
\* Every step keeps the invariant: one step per action, and under it the types,
\* what workers know, and the one mail that the action is about.
LEMMA NextIInv == MailIInv /\ [MailNext]_mailVars => MailIInv'
<1> SUFFICES ASSUME MailIInv, [MailNext]_mailVars PROVE MailIInv'
  OBVIOUS
<1>0. MailTypeOK /\ (\A w \in Workers : KnowsItsMail(w)) /\ (\A m \in Mails : MailOK(m))
  BY DEF MailIInv
<1> USE MailAssumption
<1>k. ASSUME NEW w \in Workers, workers[w].step # "idle"
      PROVE  /\ workers[w].mail \in Mails /\ workers[w] \in Worker
             /\ rows[workers[w].mail] \in Row /\ accepted[workers[w].mail] \in Nat
             /\ workers[w].step # "insert" => MailExists(workers[w].mail)
  BY <1>0, <1>k DEF KnowsItsMail, MailTypeOK
<1>1. ASSUME NEW m \in Mails, ResendDelivery(m) PROVE MailIInv'
  <2>1. rows[m] \in Row /\ resets[m] \in Nat
    BY <1>0 DEF MailTypeOK
  <2>2. /\ resets' = [resets EXCEPT ![m] = @ + 1] /\ resets[m] < MaxResets
        /\ UNCHANGED <<workers, accepted, mailInterrupts, orphans>>
    BY <1>1 DEF ResendDelivery, Resetting
  <2>3. MailTypeOK'
    <3>1. rows' \in [Mails -> Row]
      <4> DEFINE limit == IF rows[m].attempt >= rows[m].maxAttempts
                            THEN rows[m].attempt + 3 ELSE rows[m].maxAttempts
      <4>1. limit \in Nat
        BY <2>1 DEF Row
      <4>2. rows' = [rows EXCEPT ![m].maxAttempts = limit, ![m].status = "pending"]
        BY <1>1 DEF ResendDelivery
      <4> HIDE DEF limit
      <4> QED BY <1>0, <4>1, <4>2 DEF MailTypeOK, Row
    <3>2. resets' \in [Mails -> 0 .. MaxResets]
      BY <1>0, <2>1, <2>2 DEF MailTypeOK
    <3> QED BY <1>0, <2>2, <3>1, <3>2 DEF MailTypeOK
  <2>4. \A w \in Workers : KnowsItsMail(w)'
    BY <1>0, <1>1, <2>2 DEF ResendDelivery, KnowsItsMail, MailExists, MailTypeOK
  <2>5. ASSUME NEW n \in Mails PROVE MailOK(n)'
    <3>1. CASE n = m
      BY <1>0, <2>1, <2>2, <3>1 DEF MailOK, MailTypeOK
    <3>2. CASE n # m
      BY <1>0, <1>1, <2>2, <3>2, Frame DEF ResendDelivery, MailTypeOK
    <3> QED BY <3>1, <3>2
  <2> QED BY <2>3, <2>4, <2>5 DEF MailIInv
<1>2. ASSUME NEW w \in Workers, NEW m \in Mails, NEW force \in BOOLEAN, Enqueue(w, m, force)
      PROVE  MailIInv'
  <2>1. CASE ~ MailExists(m) /\ Begin(w, "insert", m) /\ UNCHANGED resets
    <3>1. Alone(w) /\ workers'[w].step = "insert" /\ workers'[w].mail = m
      BY <1>0, <2>1, BeginEffect
    <3>2. MailTypeOK'
      BY <1>0, <1>2, <2>1, <3>1 DEF Enqueue, MailTypeOK, Alone
    <3>3. \A v \in Workers : KnowsItsMail(v)'
      BY <1>0, <1>2, <3>1 DEF Enqueue, KnowsItsMail, MailExists, Alone
    <3>4. \A n \in Mails : MailOK(n)'
      BY <1>0, <1>2, <2>1, <3>1
         DEF Enqueue, MailOK, HeldOnce, Holds, InReserve, AcceptedOnce, MailExists, Alone
    <3> QED BY <3>2, <3>3, <3>4 DEF MailIInv
  <2>2. CASE MailExists(m) /\ Begin(w, "reset", m) /\ Resetting(m)
    <3>1. Alone(w) /\ workers'[w].step = "reset" /\ workers'[w].mail = m
      BY <1>0, <2>2, BeginEffect
    <3>2. resets' = [resets EXCEPT ![m] = @ + 1] /\ resets[m] < MaxResets /\ resets[m] \in Nat
      BY <1>0, <2>2 DEF Resetting, MailTypeOK
    <3>3. MailTypeOK'
      BY <1>0, <1>2, <3>1, <3>2 DEF Enqueue, MailTypeOK, Alone
    <3>4. \A v \in Workers : KnowsItsMail(v)'
      BY <1>0, <1>2, <2>2, <3>1 DEF Enqueue, KnowsItsMail, MailExists, Alone
    <3>5. ASSUME NEW n \in Mails PROVE MailOK(n)'
      <4>1. CASE n = m
        BY <1>0, <3>2, <4>1 DEF MailOK, MailTypeOK
      <4>2. CASE n # m
        BY <1>0, <1>2, <3>1, <3>2, <4>2, Frame DEF Enqueue, MailTypeOK, Alone
      <4> QED BY <4>1, <4>2
    <3> QED BY <3>3, <3>4, <3>5 DEF MailIInv
  <2> QED BY <1>2, <2>1, <2>2 DEF Enqueue
<1>3. ASSUME NEW w \in Workers, Insert(w) PROVE MailIInv'
  <2>1. PICK m \in Mails : m = workers[w].mail
    BY <1>k, <1>3 DEF Insert, WorkerAt
  <2>2. Alone(w) /\ workers'[w] = IdleWorker /\ UNCHANGED <<accepted, resets, mailInterrupts, orphans>>
    BY <1>0, <1>3, EndEffect DEF Insert
  <2>3. CASE MailExists(m)
    <3>1. rows' = rows
      BY <1>3, <2>1, <2>3 DEF Insert
    <3>2. MailTypeOK'
      BY <1>0, <2>2, <3>1 DEF MailTypeOK, Alone
    <3>3. \A v \in Workers : KnowsItsMail(v)'
      BY <1>0, <2>2, <3>1, IdleIsWorker DEF KnowsItsMail, MailExists, Alone
    <3>4. \A n \in Mails : MailOK(n)'
      BY <1>0, <2>2, <3>1, IdleIsWorker, Frame DEF Alone
    <3> QED BY <3>2, <3>3, <3>4 DEF MailIInv
  <2>4. CASE ~ MailExists(m)
    <3> DEFINE row == [NoRow EXCEPT !.status = "pending", !.maxAttempts = MaxAttempts]
    <3>1. /\ row \in Row /\ row.status = "pending" /\ row.maxAttempts = MaxAttempts
          /\ row.attempt = 0 /\ row.message = 0
      BY DEF NoRow, Row
    <3>2. rows' = [rows EXCEPT ![m] = row]
      BY <1>3, <2>1, <2>4 DEF Insert
    <3> HIDE DEF row
    <3>3. MailTypeOK'
      BY <1>0, <2>2, <3>1, <3>2 DEF MailTypeOK, Alone
    <3>4. \A v \in Workers : KnowsItsMail(v)'
      BY <1>0, <2>1, <2>2, <3>1, <3>2, IdleIsWorker DEF KnowsItsMail, MailExists, Alone, MailTypeOK
    <3>5. ASSUME NEW n \in Mails PROVE MailOK(n)'
      <4>1. CASE n = m
        <5>1. rows'[m] = row
          BY <1>0, <2>1, <3>2 DEF MailTypeOK
        <5>2. rows[m].status = "absent"
          BY <2>4 DEF MailExists
        <5> SUFFICES ASSUME resets[m] = 0 PROVE HeldOnce(m)' /\ InReserve(m)' /\ AcceptedOnce(m)'
          BY <2>2, <4>1 DEF MailOK
        <5>3. HeldOnce(m) /\ AcceptedOnce(m)
          BY <1>0, <2>1 DEF MailOK
        <5>4. \A v \in Workers : ~ Holds(v, m)
          BY <5>2, <5>3 DEF HeldOnce
        <5>5. HeldOnce(m)'
          BY <2>1, <2>2, <5>3, <5>4, IdleIsWorker DEF HeldOnce, Holds, Alone
        <5>6. InReserve(m)'
          BY <3>1, <5>1 DEF InReserve
        <5>7. AcceptedOnce(m)'
          BY <2>1, <2>2, <3>1, <5>1, <5>2, <5>3, <5>4, IdleIsWorker
             DEF AcceptedOnce, Holds, Alone, Verdicts
        <5> QED BY <5>5, <5>6, <5>7
      <4>2. CASE n # m
        BY <1>0, <2>2, <3>2, <4>2, IdleIsWorker, Frame DEF MailTypeOK, Alone
      <4> QED BY <4>1, <4>2
    <3> QED BY <3>3, <3>4, <3>5 DEF MailIInv
  <2> QED BY <2>3, <2>4
<1>4. ASSUME NEW w \in Workers, Reset(w) PROVE MailIInv'
  <2> DEFINE m == workers[w].mail
  <2>1. m \in Mails /\ rows[m] \in Row /\ workers[w].step = "reset" /\ MailExists(m)
    BY <1>k, <1>4 DEF Reset, WorkerAt
  <2>2. Alone(w) /\ workers'[w] = IdleWorker /\ UNCHANGED <<accepted, resets, mailInterrupts, orphans>>
    BY <1>0, <1>4, EndEffect DEF Reset
  <2>3. MailTypeOK'
    BY <1>0, <1>4, <2>1, <2>2 DEF Reset, MailTypeOK, Alone, Row
  <2>4. \A v \in Workers : KnowsItsMail(v)'
    BY <1>0, <1>4, <2>1, <2>2, IdleIsWorker DEF Reset, KnowsItsMail, MailExists, Alone, MailTypeOK
  <2>5. ASSUME NEW n \in Mails PROVE MailOK(n)'
    <3>1. CASE n = m
      <4>1. resets[m] # 0
        BY <1>0, <2>1 DEF MailOK, HeldOnce
      <4> QED BY <2>2, <3>1, <4>1 DEF MailOK
    <3>2. CASE n # m
      BY <1>0, <1>4, <2>2, <3>2, IdleIsWorker, Frame DEF Reset, MailTypeOK, Alone
    <3> QED BY <3>1, <3>2
  <2> QED BY <2>3, <2>4, <2>5 DEF MailIInv
<1>5. ASSUME NEW w \in Workers, NEW m \in Mails, Claim(w, m) PROVE MailIInv'
  <2>1. /\ Alone(w) /\ workers'[w].step = "read" /\ workers'[w].mail = m
        /\ UNCHANGED <<accepted, resets, mailInterrupts, orphans>>
        /\ workers[w].step = "idle"
    BY <1>0, <1>5, BeginEffect DEF Claim
  <2>2. rows[m] \in Row /\ rows[m].status = "pending" /\ rows[m].attempt \in Nat
    BY <1>0, <1>5 DEF Claim, Claimable, MailTypeOK, Row
  <2>3. rows' = [rows EXCEPT ![m].status = "sending", ![m].attempt = @ + 1]
    BY <1>5 DEF Claim
  <2>4. /\ rows'[m] \in Row /\ rows'[m].status = "sending"
        /\ rows'[m].attempt = rows[m].attempt + 1
        /\ rows'[m].maxAttempts = rows[m].maxAttempts /\ rows'[m].message = rows[m].message
    BY <1>0, <2>2, <2>3 DEF MailTypeOK, Row
  <2>5. MailTypeOK'
    BY <1>0, <2>1, <2>2, <2>3 DEF MailTypeOK, Alone, Row
  <2>6. \A v \in Workers : KnowsItsMail(v)'
    BY <1>0, <2>1, <2>3, <2>4 DEF KnowsItsMail, MailExists, Alone, MailTypeOK
  <2>7. ASSUME NEW n \in Mails PROVE MailOK(n)'
    <3>1. CASE n = m
      <4> SUFFICES ASSUME resets[m] = 0 PROVE HeldOnce(m)' /\ InReserve(m)' /\ AcceptedOnce(m)'
        BY <2>1, <3>1 DEF MailOK
      <4>1. HeldOnce(m) /\ InReserve(m) /\ AcceptedOnce(m)
        BY <1>0 DEF MailOK
      <4>2. \A v \in Workers : ~ Holds(v, m)
        BY <2>2, <4>1 DEF HeldOnce
      <4>3. HeldOnce(m)'
        BY <2>1, <2>4, <4>1, <4>2 DEF HeldOnce, Holds, Alone
      <4>4. InReserve(m)'
        BY <2>2, <2>4, <4>1 DEF InReserve, MailExists
      <4>5. AcceptedOnce(m)'
        BY <2>1, <2>2, <2>4, <4>1, <4>2 DEF AcceptedOnce, Holds, Alone, Verdicts
      <4> QED BY <4>3, <4>4, <4>5
    <3>2. CASE n # m
      BY <1>0, <2>1, <2>3, <3>2, Frame DEF MailTypeOK, Alone
    <3> QED BY <3>1, <3>2
  <2> QED BY <2>5, <2>6, <2>7 DEF MailIInv
<1>6. ASSUME NEW w \in Workers, ReadRow(w) PROVE MailIInv'
  <2> DEFINE m == workers[w].mail
             row == rows[workers[w].mail]
             k == [workers[w] EXCEPT !.step = "send", !.attempt = row.attempt,
                                     !.maxAttempts = row.maxAttempts]
  <2>1. m \in Mails /\ row \in Row /\ workers[w] \in Worker /\ workers[w].step = "read" /\ MailExists(m)
    BY <1>k, <1>6 DEF ReadRow, WorkerAt
  <2>2. /\ k \in Worker /\ k.step = "send" /\ k.mail = m
        /\ k.attempt = row.attempt /\ k.maxAttempts = row.maxAttempts
    BY <2>1 DEF Row, Worker
  <2>3. workers' = [workers EXCEPT ![w] = k] /\ UNCHANGED <<rows, accepted, resets, mailInterrupts, orphans>>
    BY <1>6 DEF ReadRow
  <2> HIDE DEF k
  <2>4. Alone(w) /\ workers'[w] = k
    BY <1>0, <2>2, <2>3 DEF MailTypeOK, Alone
  <2>5. MailTypeOK'
    BY <1>0, <2>3, <2>4 DEF MailTypeOK, Alone
  <2>6. \A v \in Workers : KnowsItsMail(v)'
    BY <1>0, <2>1, <2>2, <2>3, <2>4 DEF KnowsItsMail, MailExists, Alone
  <2>7. ASSUME NEW n \in Mails PROVE MailOK(n)'
    <3>1. CASE n = m
      BY <1>0, <2>1, <2>2, <2>3, <2>4, <3>1
         DEF MailOK, HeldOnce, Holds, InReserve, AcceptedOnce, MailExists, Alone
    <3>2. CASE n # m
      BY <1>0, <2>2, <2>3, <2>4, <3>2, Frame DEF Alone
    <3> QED BY <3>1, <3>2
  <2> QED BY <2>5, <2>6, <2>7 DEF MailIInv
<1>7. ASSUME NEW w \in Workers, Send(w) PROVE MailIInv'
  <2>0. PICK m \in Mails : m = workers[w].mail
    BY <1>k, <1>7 DEF Send, WorkerAt
  <2>1. /\ m = workers[w].mail /\ workers[w] \in Worker /\ workers[w].step = "send"
        /\ accepted[m] \in Nat /\ MailExists(m)
    BY <1>k, <1>7, <2>0 DEF Send, WorkerAt
  <2>2. UNCHANGED <<rows, resets, mailInterrupts, orphans>>
    BY <1>7 DEF Send
  <2>3. ASSUME NEW step \in {"accepted", "refused"}, Goto(w, step),
               accepted' = IF step = "accepted" THEN [accepted EXCEPT ![m] = @ + 1] ELSE accepted
        PROVE  MailIInv'
    <3>1. /\ Alone(w) /\ workers'[w].step = step /\ workers'[w].mail = m
          /\ workers'[w].attempt = workers[w].attempt
          /\ workers'[w].maxAttempts = workers[w].maxAttempts
      BY <1>0, <2>1, <2>3, GotoEffect DEF Worker
    <3>2. MailTypeOK'
      BY <1>0, <2>1, <2>2, <2>3, <3>1 DEF MailTypeOK, Alone
    <3>3. \A v \in Workers : KnowsItsMail(v)'
      BY <1>0, <2>1, <2>2, <3>1 DEF KnowsItsMail, MailExists, Alone
    <3>4. ASSUME NEW n \in Mails PROVE MailOK(n)'
      <4>1. CASE n = m
        <5> SUFFICES ASSUME resets[m] = 0 PROVE HeldOnce(m)' /\ InReserve(m)' /\ AcceptedOnce(m)'
          BY <2>2, <4>1 DEF MailOK
        <5>1. HeldOnce(m) /\ InReserve(m) /\ AcceptedOnce(m) /\ Holds(w, m)
          BY <1>0, <2>1 DEF MailOK, Holds
        <5>2. rows[m].status = "sending" /\ \A v \in Workers : Holds(v, m) => v = w
          BY <5>1 DEF HeldOnce
        <5>3. HeldOnce(m)' /\ InReserve(m)'
          BY <2>1, <2>2, <3>1, <5>1, <5>2 DEF HeldOnce, InReserve, Holds, MailExists, Alone
        <5>4. m \notin orphans => accepted[m] = 0
          BY <2>1, <5>1 DEF AcceptedOnce
        <5>5. accepted'[m] = IF step = "accepted" THEN accepted[m] + 1 ELSE accepted[m]
          BY <1>0, <2>1, <2>3 DEF MailTypeOK
        <5>6. AcceptedOnce(m)'
          BY <2>1, <2>2, <3>1, <5>1, <5>2, <5>4, <5>5 DEF AcceptedOnce, Holds, Alone, Verdicts
        <5> QED BY <5>3, <5>6
      <4>2. CASE n # m
        BY <1>0, <2>2, <2>3, <3>1, <4>2, Frame DEF MailTypeOK, Alone
      <4> QED BY <4>1, <4>2
    <3> QED BY <3>2, <3>3, <3>4 DEF MailIInv
  <2>4. CASE Goto(w, "accepted") /\ accepted' = [accepted EXCEPT ![m] = @ + 1]
    BY <2>3, <2>4
  <2>5. CASE Goto(w, "refused") /\ UNCHANGED accepted
    BY <2>3, <2>5
  <2> QED BY <1>7, <2>1, <2>4, <2>5 DEF Send
<1>8. ASSUME NEW w \in Workers, NEW m \in Mails, m = workers[w].mail, End(w),
             NEW row \in Row, row.status # "absent", rows' = [rows EXCEPT ![m] = row],
             UNCHANGED <<accepted, resets, mailInterrupts, orphans>>, MailOK(m)'
      PROVE  MailIInv'
  <2>1. Alone(w) /\ workers'[w] = IdleWorker
    BY <1>0, <1>8, EndEffect
  <2>2. MailTypeOK'
    BY <1>0, <1>8, <2>1 DEF MailTypeOK, Alone
  <2>3. \A v \in Workers : KnowsItsMail(v)'
    BY <1>0, <1>8, <2>1, IdleIsWorker DEF KnowsItsMail, MailExists, Alone, MailTypeOK
  <2>4. ASSUME NEW n \in Mails, n # m PROVE MailOK(n)'
    BY <1>0, <1>8, <2>1, <2>4, IdleIsWorker, Frame DEF MailTypeOK, Alone
  <2> QED BY <1>8, <2>2, <2>3, <2>4 DEF MailIInv
<1>9. ASSUME NEW w \in Workers, RecordSent(w) PROVE MailIInv'
  <2>1. PICK m \in Mails : m = workers[w].mail
    BY <1>k, <1>9 DEF RecordSent, WorkerAt
  <2>2. rows[m] \in Row /\ accepted[m] \in Nat /\ workers[w].step = "accepted" /\ MailExists(m)
    BY <1>k, <1>9, <2>1 DEF RecordSent, WorkerAt
  <2> DEFINE row == [rows[m] EXCEPT !.status = "sent", !.message = accepted[m]]
  <2>3. /\ row \in Row /\ row.status = "sent"
        /\ row.attempt = rows[m].attempt /\ row.maxAttempts = rows[m].maxAttempts
    BY <2>2 DEF Row, Settled, Verdicts
  <2>4. rows' = [rows EXCEPT ![m] = row] /\ End(w) /\ UNCHANGED <<accepted, resets, mailInterrupts, orphans>>
    BY <1>0, <1>9, <2>1, <2>2 DEF RecordSent, MailTypeOK, Row
  <2> HIDE DEF row
  <2>5. Alone(w) /\ workers'[w] = IdleWorker /\ rows'[m] = row
    BY <1>0, <2>4, EndEffect DEF MailTypeOK
  <2>6. MailOK(m)'
    <3> SUFFICES ASSUME resets[m] = 0 PROVE HeldOnce(m)' /\ InReserve(m)' /\ AcceptedOnce(m)'
      BY <2>4 DEF MailOK
    <3>1. HeldOnce(m) /\ InReserve(m) /\ AcceptedOnce(m) /\ Holds(w, m)
      BY <1>0, <2>1, <2>2 DEF MailOK, Holds
    <3>2. \A v \in Workers : Holds(v, m) => v = w
      BY <3>1 DEF HeldOnce
    <3>3. HeldOnce(m)'
      BY <2>5, <3>1, <3>2, IdleIsWorker DEF HeldOnce, Holds, Alone
    <3>4. InReserve(m)' /\ AcceptedOnce(m)'
      BY <2>2, <2>3, <2>4, <2>5, <3>1, <3>2, IdleIsWorker
         DEF InReserve, AcceptedOnce, Holds, MailExists, Alone, Verdicts
    <3> QED BY <3>3, <3>4
  <2> QED BY <1>8, <2>1, <2>3, <2>4, <2>6
<1>10. ASSUME NEW w \in Workers, RecordFailure(w) PROVE MailIInv'
  <2>1. PICK m \in Mails : m = workers[w].mail
    BY <1>k, <1>10 DEF RecordFailure, WorkerAt
  <2>2. rows[m] \in Row /\ workers[w] \in Worker /\ workers[w].step = "refused" /\ MailExists(m)
    BY <1>k, <1>10, <2>1 DEF RecordFailure, WorkerAt
  <2> DEFINE row == [rows[m] EXCEPT
                       !.status = AfterFailure(workers[w].attempt, workers[w].maxAttempts)]
  <2>3. /\ row \in Row
        /\ row.status = AfterFailure(workers[w].attempt, workers[w].maxAttempts)
        /\ row.status \in {"pending", "failed"} /\ row.message = rows[m].message
        /\ row.attempt = rows[m].attempt /\ row.maxAttempts = rows[m].maxAttempts
    BY <2>2 DEF Row, Settled, Verdicts, AfterFailure
  <2>4. rows' = [rows EXCEPT ![m] = row] /\ End(w) /\ UNCHANGED <<accepted, resets, mailInterrupts, orphans>>
    BY <1>0, <1>10, <2>1, <2>2 DEF RecordFailure, MailTypeOK, Row
  <2> HIDE DEF row
  <2>5. Alone(w) /\ workers'[w] = IdleWorker /\ rows'[m] = row
    BY <1>0, <2>4, EndEffect DEF MailTypeOK
  <2>6. MailOK(m)'
    <3> SUFFICES ASSUME resets[m] = 0 PROVE HeldOnce(m)' /\ InReserve(m)' /\ AcceptedOnce(m)'
      BY <2>4 DEF MailOK
    <3>1. HeldOnce(m) /\ InReserve(m) /\ AcceptedOnce(m) /\ Holds(w, m)
      BY <1>0, <2>1, <2>2 DEF MailOK, Holds
    <3>2. \A v \in Workers : Holds(v, m) => v = w
      BY <3>1 DEF HeldOnce
    <3>3. /\ rows[m].status = "sending"
          /\ workers[w].attempt = rows[m].attempt /\ workers[w].maxAttempts = rows[m].maxAttempts
      BY <2>2, <3>1 DEF HeldOnce
    <3>4. HeldOnce(m)'
      BY <2>5, <3>1, <3>2, IdleIsWorker DEF HeldOnce, Holds, Alone
    <3>5. InReserve(m)'
      <4>1. rows[m].attempt \in Nat /\ rows[m].maxAttempts \in Nat
        BY <2>2 DEF Row
      <4> QED BY <2>2, <2>3, <2>5, <3>1, <3>3, <4>1 DEF InReserve, MailExists, AfterFailure, OutOfAttempts
    <3>6. AcceptedOnce(m)'
      BY <2>2, <2>3, <2>4, <2>5, <3>1, <3>2, <3>3, IdleIsWorker
         DEF AcceptedOnce, Holds, Alone, Verdicts
    <3> QED BY <3>4, <3>5, <3>6
  <2> QED BY <1>8, <2>1, <2>3, <2>4, <2>6
<1>11. ASSUME NEW w \in Workers, RecordReport(w) PROVE MailIInv'
  <2>1. PICK m \in Mails : m = workers[w].mail
    BY <1>k, <1>11 DEF RecordReport, WorkerAt
  <2>2. rows[m] \in Row /\ workers[w] \in Worker /\ workers[w].step = "report" /\ MailExists(m)
    BY <1>k, <1>11, <2>1 DEF RecordReport, WorkerAt
  <2> DEFINE row == [rows[m] EXCEPT !.status = workers[w].verdict]
  <2>3. /\ row \in Row /\ row.status \in Verdicts /\ row.status # "absent" /\ row.message = rows[m].message
        /\ row.attempt = rows[m].attempt /\ row.maxAttempts = rows[m].maxAttempts
    BY <2>2 DEF Row, Worker, Settled, Verdicts
  <2>4. rows' = [rows EXCEPT ![m] = row] /\ End(w) /\ UNCHANGED <<accepted, resets, mailInterrupts, orphans>>
    BY <1>0, <1>11, <2>1, <2>2 DEF RecordReport, MailTypeOK, Row
  <2> HIDE DEF row
  <2>5. Alone(w) /\ workers'[w] = IdleWorker /\ rows'[m] = row
    BY <1>0, <2>4, EndEffect DEF MailTypeOK
  <2>6. MailOK(m)'
    <3> SUFFICES ASSUME resets[m] = 0 PROVE HeldOnce(m)' /\ InReserve(m)' /\ AcceptedOnce(m)'
      BY <2>4 DEF MailOK
    <3>1. HeldOnce(m) /\ InReserve(m) /\ AcceptedOnce(m)
      BY <1>0 DEF MailOK
    <3>2. rows[m].status \in Verdicts
      BY <2>1, <2>2, <3>1 DEF AcceptedOnce
    <3>3. \A v \in Workers : ~ Holds(v, m)
      BY <3>1, <3>2 DEF HeldOnce, Verdicts
    <3>4. HeldOnce(m)'
      BY <2>5, <3>1, <3>3, IdleIsWorker DEF HeldOnce, Holds, Alone
    <3>5. InReserve(m)' /\ AcceptedOnce(m)'
      BY <2>2, <2>3, <2>4, <2>5, <3>1, <3>3, IdleIsWorker
         DEF InReserve, AcceptedOnce, Holds, MailExists, Alone, Verdicts
    <3> QED BY <3>4, <3>5
  <2> QED BY <1>8, <2>1, <2>3, <2>4, <2>6
<1>12. ASSUME NEW w \in Workers, InterruptWorker(w) PROVE MailIInv'
  <2>1. PICK m \in Mails : m = workers[w].mail
    BY <1>k, <1>12 DEF InterruptWorker, WorkerAt
  <2>2. /\ workers[w] \in Worker /\ workers[w].step # "idle"
        /\ workers[w].step # "insert" => MailExists(m)
    BY <1>k, <1>12, <2>1 DEF InterruptWorker, WorkerAt
  <2>3. /\ orphans' = orphans \cup {m} /\ UNCHANGED <<rows, accepted, resets>>
        /\ mailInterrupts' \in 0 .. MaxMailInterrupts
    BY <1>0, <1>12, <2>1 DEF InterruptWorker, MailTypeOK
  <2>4. /\ Alone(w)
        /\ \/ workers'[w] = IdleWorker
           \/ workers[w].step = "accepted" /\ workers'[w] = [workers[w] EXCEPT !.step = "refused"]
    BY <1>0, <1>12, EndEffect, GotoEffect DEF InterruptWorker, WorkerAt
  <2>5. \/ workers'[w] = IdleWorker
        \/ /\ workers[w].step = "accepted" /\ workers'[w].step = "refused"
           /\ workers'[w].mail = m /\ workers'[w].attempt = workers[w].attempt
           /\ workers'[w].maxAttempts = workers[w].maxAttempts
    BY <2>1, <2>2, <2>4 DEF Worker
  <2>6. MailTypeOK'
    BY <1>0, <2>3, <2>4 DEF MailTypeOK, Alone
  <2>7. \A v \in Workers : KnowsItsMail(v)'
    BY <1>0, <2>2, <2>3, <2>4, <2>5, IdleIsWorker DEF KnowsItsMail, MailExists, Alone
  <2>8. MailOK(m)'
    <3> SUFFICES ASSUME resets[m] = 0 PROVE HeldOnce(m)' /\ InReserve(m)' /\ AcceptedOnce(m)'
      BY <2>3 DEF MailOK
    <3>1. HeldOnce(m) /\ InReserve(m) /\ AcceptedOnce(m)
      BY <1>0 DEF MailOK
    <3>2. \A v \in Workers : Holds(v, m)' => Holds(v, m)
      BY <2>1, <2>4, <2>5, IdleIsWorker DEF Holds, Alone
    <3>3. HeldOnce(m)'
      BY <2>1, <2>3, <2>4, <2>5, <3>1, <3>2, IdleIsWorker DEF HeldOnce, Holds, Alone
    <3>4. InReserve(m)' /\ AcceptedOnce(m)'
      BY <2>1, <2>3, <2>4, <2>5, <3>1, IdleIsWorker DEF InReserve, AcceptedOnce, MailExists, Alone
    <3> QED BY <3>3, <3>4
  <2>9. ASSUME NEW n \in Mails, n # m PROVE MailOK(n)'
    BY <1>0, <2>3, <2>4, <2>5, <2>9, IdleIsWorker, Frame DEF Alone
  <2> QED BY <2>6, <2>7, <2>8, <2>9 DEF MailIInv
<1>13. ASSUME NEW w \in Workers, NEW m \in Mails, NEW n \in 1 .. accepted[m],
              NEW verdict \in Verdicts, ReceiveReport(w, m, n, verdict)
       PROVE  MailIInv'
  <2> DEFINE k == [IdleWorker EXCEPT !.step = "report", !.mail = m, !.message = n, !.verdict = verdict]
  <2>1. n \in Nat \ {0} /\ rows[m].message = n /\ rows[m] \in Row
    BY <1>0, <1>13 DEF ReceiveReport, MailTypeOK
  <2>2. k \in Worker /\ k.step = "report" /\ k.mail = m
    BY <2>1 DEF IdleWorker, Worker
  <2>3. workers' = [workers EXCEPT ![w] = k] /\ UNCHANGED <<rows, accepted, resets, mailInterrupts, orphans>>
    BY <1>13 DEF ReceiveReport
  <2> HIDE DEF k
  <2>4. Alone(w) /\ workers'[w] = k
    BY <1>0, <2>2, <2>3 DEF MailTypeOK, Alone
  <2>5. MailTypeOK'
    BY <1>0, <2>3, <2>4 DEF MailTypeOK, Alone
  <2>6. \A v \in Workers : KnowsItsMail(v)'
    <3>1. MailExists(m)
      BY <1>13 DEF ReceiveReport
    <3> QED BY <1>0, <2>2, <2>3, <2>4, <3>1 DEF KnowsItsMail, MailExists, Alone
  <2>7. MailOK(m)'
    <3> SUFFICES ASSUME resets[m] = 0 PROVE HeldOnce(m)' /\ InReserve(m)' /\ AcceptedOnce(m)'
      BY <2>3 DEF MailOK
    <3>1. HeldOnce(m) /\ InReserve(m) /\ AcceptedOnce(m)
      BY <1>0 DEF MailOK
    <3>2. rows[m].status \in Verdicts
      BY <2>1, <3>1 DEF AcceptedOnce
    <3>3. HeldOnce(m)' /\ InReserve(m)' /\ AcceptedOnce(m)'
      BY <2>2, <2>3, <2>4, <3>1, <3>2 DEF HeldOnce, InReserve, AcceptedOnce, Holds, MailExists, Alone
    <3> QED BY <3>3
  <2>8. ASSUME NEW x \in Mails, x # m PROVE MailOK(x)'
    BY <1>0, <2>2, <2>3, <2>4, <2>8, Frame DEF Alone
  <2> QED BY <2>5, <2>6, <2>7, <2>8 DEF MailIInv
<1>14. CASE UNCHANGED mailVars
  BY <1>0, <1>14
     DEF mailVars, MailIInv, MailTypeOK, KnowsItsMail, MailOK, HeldOnce, Holds, InReserve, AcceptedOnce, MailExists
<1>15. ASSUME NEW w \in Workers, ProceedWorker(w) PROVE MailIInv'
  BY <1>3, <1>4, <1>6, <1>7, <1>9, <1>10, <1>11, <1>15 DEF ProceedWorker
<1> QED
  BY <1>1, <1>2, <1>5, <1>12, <1>13, <1>14, <1>15 DEF MailNext

-----------------------------------------------------------------------------
\* The invariant holds in every reachable state.
THEOREM Invariance == MailSpec => []MailIInv
<1>1. MailInit => MailIInv
  BY InitIInv
<1>2. MailIInv /\ [MailNext]_mailVars => MailIInv'
  BY NextIInv
<1> QED BY <1>1, <1>2, PTL DEF MailSpec

\* Rows and workers stay well-typed, for any number of mails and workers.
THEOREM TypeCorrect == MailSpec => []MailTypeOK
<1>1. MailIInv => MailTypeOK
  BY DEF MailIInv
<1> QED BY <1>1, Invariance, PTL

\* However many callers enqueue a mail and however many workers and sweeps take it
\* up, Resend accepts it at most once, unless staff send it again or the update that
\* records the acceptance fails (enqueue, deliver).
THEOREM MailIsSentOnce == MailSpec => []SentOnce
<1>1. MailIInv => SentOnce
  BY DEF MailIInv, MailOK, AcceptedOnce, SentOnce
<1> QED BY <1>1, Invariance, PTL

\* The counter of attempts never reaches the limit of its row (deliver).
THEOREM AttemptsAreBounded == MailSpec => []AttemptsBounded
<1>1. MailIInv => AttemptsBounded
  BY DEF MailIInv, MailOK, InReserve, AttemptsBounded
<1> QED BY <1>1, Invariance, PTL

\* What Resend has accepted is neither retried nor given up, whatever workers race,
\* with the same two exceptions (deliver).
THEOREM AcceptedStaysDone == MailSpec => []AcceptedIsDone
<1>1. MailIInv => AcceptedIsDone
  <2> SUFFICES ASSUME MailIInv, NEW m \in Mails, accepted[m] > 0, resets[m] = 0, m \notin orphans
               PROVE  rows[m].status \notin {"pending", "failed"}
    BY DEF AcceptedIsDone
  <2>1. AcceptedOnce(m) /\ accepted[m] \in Nat
    BY DEF MailIInv, MailOK, MailTypeOK
  <2> QED BY <2>1 DEF AcceptedOnce
<1> QED BY <1>1, Invariance, PTL
=============================================================================
