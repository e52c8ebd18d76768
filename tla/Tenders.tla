------------------------------- MODULE Tenders -------------------------------
(***************************************************************************)
(* A tender (TendersService): staff open it, close the bidding, shortlist  *)
(* bids, put them to a vote of the board, award the contract or cancel;    *)
(* vendors bid while it is open. Every write is by id, whatever the status *)
(* has become since it was read. Tenders share nothing, so there is one.   *)
(***************************************************************************)
EXTENDS InFlight, Sequences

CONSTANTS
    Vendors,     \* active vendors
    None

VARIABLES
    tender,      \* the Tender row
    bids,        \* the status of the bid of each vendor
    votes,       \* the status of each vote that was created for the tender
    crossed,     \* a status of the tender was written over one that was not read
    late,        \* vendors whose bid was written after the tender had moved on
    restarted    \* a vote was begun while another was, or after one was given up

tenderHistory == <<crossed, late, restarted>>
tenderVars == <<tender, bids, votes, requests, begun, tenderHistory>>

-----------------------------------------------------------------------------
Statuses == {"draft", "open", "evaluating", "awarded", "cancelled"}
BidStatuses == {"none", "submitted", "shortlisted", "awarded", "rejected"}

Init ==
    /\ tender = [status |-> "draft", voteId |-> 0, awardedBidId |-> None]
    /\ bids = [v \in Vendors |-> "none"]
    /\ votes = <<>>
    /\ NoRequests
    /\ crossed = FALSE /\ late = {} /\ restarted = FALSE

-----------------------------------------------------------------------------
Bidding(statuses) == {v \in Vendors : bids[v] \in statuses}

\* The row that a request checks.
Read(step) == [step |-> step, status |-> tender.status]

Unread(q) == tender.status # requests[q].status

Write(q, row) ==
    /\ tender' = row
    /\ crossed' = (crossed \/ Unread(q))

ReadBy(q, request) == Begin(q, request) /\ UNCHANGED <<tender, bids, votes, tenderHistory>>

ReadToOpen(q) == tender.status = "draft" /\ ReadBy(q, Read("open"))
ReadToClose(q) == tender.status = "open" /\ ReadBy(q, Read("evaluating"))
ReadToCancel(q) == tender.status \notin {"awarded", "cancelled"} /\ ReadBy(q, Read("cancelled"))

\* open, close and cancel write the status that they are for.
SetStatus(q) ==
    /\ requests[q].step \in {"open", "evaluating", "cancelled"}
    /\ Write(q, [tender EXCEPT !.status = requests[q].step])
    /\ Finish(q)
    /\ UNCHANGED <<bids, votes, late, restarted>>

ReadToBid(q, v, status) ==
    ReadBy(q, [step |-> "bid", status |-> tender.status, vendor |-> v, next |-> status])

ReadToShortlist(q, v, status) ==
    /\ tender.status \in {"open", "evaluating"}
    /\ bids[v] # "none"
    /\ ReadToBid(q, v, status)

ReadToSubmit(q, v) ==
    /\ tender.status = "open"
    /\ ReadToBid(q, v, "submitted")

\* shortlist and submitBid write the bid, whatever became of it and the tender.
WriteBid(q) ==
    LET t == requests[q] IN
    /\ At(q, "bid")
    /\ bids' = [bids EXCEPT ![t.vendor] = t.next]
    /\ late' = IF tender.status \in {"awarded", "cancelled"} THEN late \cup {t.vendor} ELSE late
    /\ Finish(q)
    /\ UNCHANGED <<tender, votes, crossed, restarted>>

-----------------------------------------------------------------------------
(* The vote of the board: three transactions. *)

Voting == {q \in Requests : requests[q].step \in {"create vote", "link vote", "open vote"}}

\* Seeded fault: a vote that exists is not looked at.
Votable == tender.status = "evaluating"

NoVoteYet == tender.status = "evaluating" /\ tender.voteId = 0

ReadToStartVote(q) ==
    /\ NoVoteYet
    /\ Bidding({"shortlisted", "submitted"}) # {}
    /\ restarted' = (restarted \/ Voting # {})
    /\ Begin(q, [step |-> "create vote"])
    /\ UNCHANGED <<tender, bids, votes, crossed, late>>

CreateVote(q) ==
    /\ At(q, "create vote")
    /\ votes' = Append(votes, "draft")
    /\ Continue(q, [step |-> "link vote", vote |-> Len(votes) + 1])
    /\ UNCHANGED <<tender, bids, tenderHistory>>

LinkVote(q) ==
    /\ At(q, "link vote")
    /\ tender' = [tender EXCEPT !.voteId = requests[q].vote]
    /\ Continue(q, [step |-> "open vote", vote |-> requests[q].vote])
    /\ UNCHANGED <<bids, votes, tenderHistory>>

\* VotesService.open
OpenVote(q) ==
    /\ At(q, "open vote")
    /\ votes' = [votes EXCEPT ![requests[q].vote] = "open"]
    /\ Finish(q)
    /\ UNCHANGED <<tender, bids, tenderHistory>>

-----------------------------------------------------------------------------
\* Seeded fault: an awarded tender is awarded again.
AwardableAgain == {"open", "evaluating", "awarded"}

Awardable == {"open", "evaluating"}

\* The vote is not looked at; nor is the status of the bid.
ReadToAward(q, v) ==
    /\ tender.status \in Awardable
    /\ bids[v] # "none"
    /\ ReadBy(q, [step |-> "award", status |-> tender.status, vendor |-> v])

\* One transaction: the tender, the winner, and every other bid that is open now.
Award(q) ==
    LET winner == requests[q].vendor IN
    /\ At(q, "award")
    /\ Write(q, [tender EXCEPT !.status = "awarded", !.awardedBidId = winner])
    /\ bids' = [v \in Vendors |->
                  IF v = winner THEN "awarded"
                  ELSE IF bids[v] \in {"submitted", "shortlisted"} THEN "rejected" ELSE bids[v]]
    /\ Finish(q)
    /\ UNCHANGED <<votes, late, restarted>>

\* The process dies, or a step fails: what was committed stays.
Abort(q) ==
    /\ ~ At(q, "idle")
    /\ restarted' = (restarted \/ At(q, "link vote"))
    /\ Finish(q)
    /\ UNCHANGED <<tender, bids, votes, crossed, late>>

Reads(q) ==
    \/ ReadToOpen(q) \/ ReadToClose(q) \/ ReadToCancel(q) \/ ReadToStartVote(q)
    \/ \E v \in Vendors :
          \/ ReadToSubmit(q, v) \/ ReadToAward(q, v)
          \/ \E status \in {"shortlisted", "submitted"} : ReadToShortlist(q, v, status)

Writes(q) ==
    \/ SetStatus(q) \/ WriteBid(q) \/ CreateVote(q) \/ LinkVote(q) \/ OpenVote(q) \/ Award(q)

Next == \E q \in Requests : Reads(q) \/ Writes(q) \/ Abort(q)

Spec == Init /\ [][Next]_tenderVars

-----------------------------------------------------------------------------
\* An awarded tender has one awarded bid, its own, and every other bid is
\* rejected; unless the requests crossed, or a bid was written too late (award,
\* submitBid, shortlist).
AwardDecidesBids ==
    tender.status = "awarded" /\ ~ crossed =>
        \A v \in Vendors \ late :
            bids[v] \in IF v = tender.awardedBidId THEN {"awarded"} ELSE {"none", "rejected"}

\* A tender is put to one vote, and no vote but that one is opened, unless a
\* second was begun before the first was linked (startExcoVote).
OneExcoVote ==
    restarted \/
    /\ Len(votes) <= 1
    /\ \A n \in 1 .. Len(votes) : votes[n] = "open" => tender.voteId = n

=============================================================================
