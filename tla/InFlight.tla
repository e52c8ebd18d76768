------------------------------ MODULE InFlight ------------------------------
(***************************************************************************)
(* The requests that the API server is working on. Its handlers share most *)
(* of a shape: read the rows, check them, and, after an await or several,  *)
(* write by id. Between the reading and the writing others do the same.    *)
(***************************************************************************)
EXTENDS Naturals

CONSTANTS
    Requests,    \* requests in flight
    MaxBegun     \* bound on the requests

VARIABLES
    requests,    \* what each has read, and the step that it is at
    begun        \* how many there were

Idle == [step |-> "idle"]

NoRequests == requests = [q \in Requests |-> Idle] /\ begun = 0

At(q, step) == requests[q].step = step

Begin(q, request) ==
    /\ At(q, "idle")
    /\ begun < MaxBegun
    /\ begun' = begun + 1
    /\ requests' = [requests EXCEPT ![q] = request]

Continue(q, request) == requests' = [requests EXCEPT ![q] = request] /\ UNCHANGED begun

Finish(q) == Continue(q, Idle)

=============================================================================
