----------------------------- MODULE Idempotency -----------------------------
(***************************************************************************)
(* A call of a client under one idempotency key: HoaClient sends it, times *)
(* out, sends it again; on the server an interceptor looks the key up,     *)
(* runs the handler when it finds nothing, and stores the response beside  *)
(* sending it. Keys share nothing, so there is one.                        *)
(***************************************************************************)
EXTENDS InFlight

CONSTANT MaxRetries

VARIABLES
    client,      \* the loop of HoaClient.request: whether it goes on, and the attempt
    waits,       \* the request whose answer it waits for, if it does
    told,        \* the answers it has returned to its caller
    stored,      \* the run whose response the IdempotencyKey row has, or 0
    runs,        \* how often the handler has done its work
    thrown,      \* how often it has, and has thrown then
    overlapped,  \* a handler was started while another had not stored its response
    lost         \* a response was not stored, or is too old

clientVars == <<client, waits, told>>
history == <<overlapped, lost>>
handled == <<runs, thrown>>
keyVars == <<clientVars, stored, handled, history, requests, begun>>

-----------------------------------------------------------------------------
Init ==
    /\ client = [open |-> FALSE, attempt |-> 0]
    /\ waits = {} /\ told = {}
    /\ stored = 0 /\ runs = 0 /\ thrown = 0
    /\ NoRequests
    /\ overlapped = FALSE /\ lost = FALSE

-----------------------------------------------------------------------------
(* The client. *)

\* The caller may come back with the same key.
Call ==
    /\ ~ client.open
    /\ client' = [open |-> TRUE, attempt |-> 0]
    /\ UNCHANGED <<waits, told, stored, handled, history, requests, begun>>

Send(q) ==
    /\ client.open /\ waits = {}
    /\ waits' = {q}
    /\ Begin(q, [step |-> "look up"])
    /\ UNCHANGED <<client, told, stored, handled, history>>

LastAttempt == client.attempt = MaxRetries

Retry == client' = IF LastAttempt THEN [client EXCEPT !.open = FALSE]
                   ELSE [client EXCEPT !.attempt = @ + 1]

\* An abort or an error of the network; the server goes on with the request.
TimeOut ==
    /\ waits # {}
    /\ waits' = {}
    /\ Retry
    /\ UNCHANGED <<told, stored, handled, history, requests, begun>>

\* "Retry on 429 / 5xx"; any other answer is returned.
Receive(q) ==
    LET answer == requests[q].answer IN
    /\ waits = {q} /\ requests[q].step \in {"store", "answered"}
    /\ waits' = {}
    /\ IF answer.kind = "failed" THEN Retry /\ UNCHANGED told
       ELSE client' = [client EXCEPT !.open = FALSE] /\ told' = told \cup {answer}
    /\ UNCHANGED <<stored, handled, history, requests, begun>>

-----------------------------------------------------------------------------
(* The server. *)

Answered(kind, run) == [step |-> "answered", answer |-> [kind |-> kind, run |-> run]]

Running == {q \in Requests : requests[q].step \in {"handle", "store"}}

\* Seeded fault: the row is not looked at.
NeverReplayed == FALSE

Replayable == stored # 0

LookUp(q) ==
    /\ At(q, "look up")
    /\ IF Replayable
         THEN Continue(q, Answered("ok", stored)) /\ UNCHANGED overlapped
         ELSE /\ Continue(q, [step |-> "handle"])
              /\ overlapped' = (overlapped \/ Running # {})
    /\ UNCHANGED <<clientVars, stored, handled, lost>>

\* The handler does its work, in a transaction or with a call of Paystack, or has no
\* effect and throws, a 4xx or a 5xx; or it throws when the work is done, in the
\* notification that it awaits or the insert that follows the call. "Don't cache
\* errors".
Handle(q) ==
    /\ At(q, "handle")
    /\ \/ /\ runs' = runs + 1
          /\ Continue(q, [step |-> "store", answer |-> [kind |-> "ok", run |-> runs + 1]])
          /\ UNCHANGED thrown
       \/ \E kind \in {"refused", "failed"} :
             Continue(q, Answered(kind, runs)) /\ UNCHANGED handled
       \/ /\ runs' = runs + 1 /\ thrown' = thrown + 1
          /\ Continue(q, Answered("failed", runs + 1))
    /\ UNCHANGED <<clientVars, stored, history>>

\* Nobody waits for the upsert, and its errors are logged.
Store(q) ==
    /\ At(q, "store")
    /\ \/ stored' = requests[q].answer.run /\ UNCHANGED lost
       \/ lost' = TRUE /\ UNCHANGED stored
    /\ Continue(q, [requests[q] EXCEPT !.step = "answered"])
    /\ UNCHANGED <<clientVars, handled, overlapped>>

\* The response has been sent, or nobody takes it.
Respond(q) ==
    /\ At(q, "answered") /\ waits # {q}
    /\ Finish(q)
    /\ UNCHANGED <<clientVars, stored, handled, history>>

\* IDEMPOTENCY_TTL_HOURS: what has expired is as good as absent.
Expire ==
    /\ stored # 0
    /\ stored' = 0 /\ lost' = TRUE
    /\ UNCHANGED <<clientVars, handled, overlapped, requests, begun>>

\* The process dies, or the request has never come.
Abort(q) ==
    /\ ~ At(q, "idle")
    /\ lost' = (lost \/ At(q, "store"))
    /\ Finish(q)
    /\ UNCHANGED <<clientVars, stored, handled, overlapped>>

-----------------------------------------------------------------------------
Next ==
    \/ Call \/ TimeOut \/ Expire
    \/ \E q \in Requests :
          \/ Send(q) \/ Receive(q)
          \/ LookUp(q) \/ Handle(q) \/ Store(q) \/ Respond(q) \/ Abort(q)

Spec == Init /\ [][Next]_keyVars

-----------------------------------------------------------------------------
\* However often a call is sent and answered, its handler does the work once, and
\* once for every time that it threw afterwards; each of its callers gets the answer
\* of the run that did not throw, and none is refused what that run has done
\* ("retrying with the same key returns the original response"); unless an attempt
\* that had timed out was still running, or its response was not kept (intercept).
RetriesAreSafe ==
    overlapped \/ lost \/
    /\ runs <= thrown + 1
    /\ \A answer \in told :
          IF answer.kind = "ok" THEN answer.run = thrown + 1 ELSE answer.run <= thrown

=============================================================================
