--------------------------- MODULE CaseworkProofs ---------------------------
(***************************************************************************)
(* Theorems about the services of Casework, for any requests, any rows and *)
(* any bounds: one section for each, with the inductive invariant of its   *)
(* own steps, and at the end what follows of a behaviour of Casework, in   *)
(* which one of them is at work.                                           *)
(***************************************************************************)
EXTENDS Casework, Integers, Sums, FiniteSetTheorems, SequenceTheorems, TLAPS

-----------------------------------------------------------------------------
(* What the sections share. *)

RequestsOK == DOMAIN requests = Requests

\* A request moves to t, and the others stay.
LEMMA MoveEffect ==
    ASSUME RequestsOK, NEW q \in Requests, NEW t, requests' = [requests EXCEPT ![q] = t]
    PROVE  /\ RequestsOK'
           /\ requests'[q] = t /\ \A o \in Requests \ {q} : requests'[o] = requests[o]
BY DEF RequestsOK

\* A set of which any two members are one has one member at most.
LEMMA AtMostOne ==
    ASSUME NEW S, \A a, b \in S : a = b
    PROVE  Cardinality(S) \in {0, 1}
<1>1. CASE S = {}
  BY <1>1, FS_EmptySet
<1>2. CASE S # {}
  <2>1. PICK a \in S : TRUE
    BY <1>2
  <2>2. S = {a}
    BY <2>1
  <2> QED BY <2>2, FS_Singleton
<1> QED BY <1>1, <1>2

\* A sequence and one more element.
LEMMA AppendFacts ==
    ASSUME NEW S, NEW s \in Seq(S), NEW x \in S
    PROVE  /\ Append(s, x) \in Seq(S) /\ Len(Append(s, x)) = Len(s) + 1
           /\ Len(s) \in Nat /\ Append(s, x)[Len(s) + 1] = x
BY AppendProperties, LenProperties

\* A sequence with one element replaced, if there is such an element.
LEMMA ExceptFacts ==
    ASSUME NEW S, NEW s \in Seq(S), NEW n, NEW x \in S
    PROVE  [s EXCEPT ![n] = x] \in Seq(S) /\ Len([s EXCEPT ![n] = x]) = Len(s)
<1>1. n \notin 1 .. Len(s) => [s EXCEPT ![n] = x] = s
  BY LenProperties
<1> QED BY <1>1, ExceptSeq

\* The cardinality that the instances of Casework speak of is the same.
LEMMA SameCardinality ==
    ASSUME NEW S
    PROVE  /\ V!Cardinality(S) = Cardinality(S) /\ L!Cardinality(S) = Cardinality(S)
           /\ I!Cardinality(S) = Cardinality(S)
BY DEF Cardinality, V!Cardinality, L!Cardinality, I!Cardinality

-----------------------------------------------------------------------------
(* Tenders: the award, and the vote of the board. *)

\* What the tender's row holds.
TenderRows == [status : T!Statuses, voteId : Nat, awardedBidId : Items \cup {None}]

\* What was read, and will be written, by the requests that change the tender or a bid.
TenderRequestOK(q) ==
    /\ requests[q].step \in {"open", "evaluating", "cancelled", "award"} =>
          requests[q].status # "awarded"
    /\ requests[q].step \in {"bid", "award"} => requests[q].vendor \in Items
    /\ T!At(q, "bid") => requests[q].next \in {"submitted", "shortlisted"}
    /\ T!At(q, "link vote") => requests[q].vote \in Nat

\* Before the award no bid has been decided.
BidsOK ==
    crossed \/
    /\ tender.status # "awarded" =>
          \A v \in Items : bids[v] \in {"none", "submitted", "shortlisted"}
    /\ T!AwardDecidesBids

\* The request is putting the tender to the vote.
BeginsVote(q) == requests[q].step \in {"create vote", "link vote", "open vote"}

\* One request puts the tender to the vote, and its vote is the first.
OneVote ==
    /\ tender.voteId \in {0, 1} /\ Len(votes) <= 1
    /\ tender.voteId = 0 => \A n \in 1 .. Len(votes) : votes[n] # "open"

\* A request of the vote, and how far it is.
VoteRequestOK(q) ==
    /\ T!At(q, "create vote") => Len(votes) = 0 /\ tender.voteId = 0
    /\ T!At(q, "link vote") => Len(votes) = 1 /\ requests[q].vote = 1 /\ tender.voteId = 0
    /\ T!At(q, "open vote") => Len(votes) = 1 /\ requests[q].vote = 1 /\ tender.voteId = 1

\* One request puts the tender to the vote, and each knows how far that is.
VoteSound ==
    /\ OneVote
    /\ \A q, o \in Requests : BeginsVote(q) /\ BeginsVote(o) => q = o
    /\ \A q \in Requests : VoteRequestOK(q)
    /\ tender.voteId # 0 \/ Len(votes) = 0 \/ \E q \in Requests : T!At(q, "link vote")

\* All of it, unless a second vote was begun.
VoteOK == restarted \/ VoteSound

\* The types of the variables.
TenderTyped ==
    /\ tender \in TenderRows
    /\ bids \in [Items -> T!BidStatuses]
    /\ votes \in Seq({"draft", "open"})
    /\ crossed \in BOOLEAN /\ restarted \in BOOLEAN

\* The inductive invariant.
TenderIInv ==
    /\ RequestsOK /\ TenderTyped /\ BidsOK /\ VoteOK
    /\ \A q \in Requests : TenderRequestOK(q)

\* The invariant gives the two properties.
LEMMA TenderSafe == TenderIInv => T!AwardDecidesBids /\ T!OneExcoVote
<1>1. TenderIInv => T!AwardDecidesBids
  BY DEF TenderIInv, BidsOK, T!AwardDecidesBids
<1>2. ASSUME TenderIInv, ~ restarted
      PROVE  Len(votes) <= 1 /\ \A n \in 1 .. Len(votes) : votes[n] = "open" => tender.voteId = n
  <2>1. OneVote /\ Len(votes) \in Nat
    BY <1>2, LenProperties DEF TenderIInv, TenderTyped, VoteOK, VoteSound
  <2>2. \A n \in 1 .. Len(votes) : n = 1
    BY <2>1 DEF OneVote
  <2> QED BY <2>1, <2>2 DEF OneVote
<1> QED BY <1>1, <1>2 DEF T!OneExcoVote

\* A tender that is drafted satisfies the invariant.
LEMMA TenderInit == T!Init => TenderIInv
<1> SUFFICES ASSUME T!Init PROVE TenderIInv
  OBVIOUS
<1>1. RequestsOK /\ \A q \in Requests : TenderRequestOK(q) /\ T!At(q, "idle")
  BY DEF T!Init, T!NoRequests, T!Idle, RequestsOK, TenderRequestOK, T!At
<1>2. votes \in Seq({"draft", "open"}) /\ Len(votes) = 0
  BY DEF T!Init
<1>3. tender \in TenderRows /\ tender.status = "draft" /\ tender.voteId = 0
  BY DEF T!Init, TenderRows, T!Statuses
<1>4. TenderTyped /\ BidsOK
  BY <1>2, <1>3 DEF T!Init, TenderTyped, T!BidStatuses, BidsOK, T!AwardDecidesBids
<1>5. VoteSound
  <2>1. \A q \in Requests : ~ BeginsVote(q)
    BY <1>1 DEF BeginsVote, T!At
  <2>2. OneVote
    BY <1>2, <1>3 DEF OneVote
  <2> QED BY <1>2, <2>1, <2>2 DEF VoteSound, VoteRequestOK, BeginsVote, T!At
<1> QED BY <1>1, <1>4, <1>5 DEF TenderIInv, VoteOK

\* A step that is none of the vote's.
LEMMA VoteFrame ==
    ASSUME RequestsOK, VoteOK, NEW q \in Requests, NEW t, requests' = [requests EXCEPT ![q] = t],
           ~ BeginsVote(q), t.step \notin {"create vote", "link vote", "open vote"},
           UNCHANGED <<votes, restarted>>, tender'.voteId = tender.voteId
    PROVE  VoteOK'
<1>1. /\ RequestsOK'
      /\ requests'[q] = t /\ \A o \in Requests \ {q} : requests'[o] = requests[o]
  BY MoveEffect
<1>2. \A o \in Requests :
        /\ BeginsVote(o)' => BeginsVote(o) /\ requests'[o] = requests[o]
        /\ BeginsVote(o) => BeginsVote(o)' /\ requests'[o] = requests[o]
  BY <1>1 DEF BeginsVote
<1>3. ASSUME VoteSound, NEW o \in Requests PROVE VoteRequestOK(o)'
  BY <1>1, <1>3 DEF VoteSound, VoteRequestOK, BeginsVote, T!At
<1>4. VoteSound => OneVote'
  BY DEF VoteSound, OneVote
<1>5. VoteSound => VoteSound'
  BY <1>1, <1>2, <1>3, <1>4 DEF VoteSound, BeginsVote, T!At
<1> QED BY <1>5 DEF VoteOK

\* A step of the only request of the vote.
LEMMA VoteStep ==
    ASSUME RequestsOK, NEW q \in Requests, NEW t, requests' = [requests EXCEPT ![q] = t],
           \A o \in Requests \ {q} : ~ BeginsVote(o), OneVote', VoteRequestOK(q)',
           tender'.voteId # 0 \/ Len(votes') = 0 \/ t.step = "link vote"
    PROVE  VoteSound'
<1>1. requests'[q] = t /\ \A o \in Requests \ {q} : requests'[o] = requests[o]
  BY MoveEffect
<1>2. \A o \in Requests \ {q} : ~ BeginsVote(o)' /\ VoteRequestOK(o)'
  BY <1>1 DEF BeginsVote, VoteRequestOK, T!At
<1> QED BY <1>1, <1>2 DEF VoteSound, T!At

\* Every step of the requests keeps the invariant: one step per action.
LEMMA TenderNext == TenderIInv /\ T!Next => TenderIInv'
<1> SUFFICES ASSUME TenderIInv, T!Next PROVE TenderIInv'
  OBVIOUS
<1>0. /\ RequestsOK /\ TenderTyped /\ BidsOK /\ VoteOK
      /\ \A q \in Requests : TenderRequestOK(q)
  BY DEF TenderIInv
<1>i. T!Idle.step = "idle"
  BY DEF T!Idle
\* A request that has read what it is going to change.
<1>r. ASSUME NEW q \in Requests, NEW t, T!ReadBy(q, t),
             t.step \in {"open", "evaluating", "cancelled", "bid", "award"},
             t.step \in {"open", "evaluating", "cancelled", "award"} => t.status # "awarded",
             t.step \in {"bid", "award"} => t.vendor \in Items,
             t.step = "bid" => t.next \in {"submitted", "shortlisted"}
      PROVE  TenderIInv'
  <2>1. /\ requests' = [requests EXCEPT ![q] = t] /\ T!At(q, "idle")
        /\ UNCHANGED <<tender, bids, votes, crossed, late, restarted>>
    BY <1>r DEF T!ReadBy, T!Begin, T!tenderHistory
  <2>2. TenderTyped' /\ BidsOK'
    BY <1>0, <2>1 DEF TenderTyped, BidsOK, T!AwardDecidesBids
  <2>3. VoteOK'
    BY <1>0, <1>r, <2>1, VoteFrame DEF BeginsVote, T!At
  <2>4. RequestsOK' /\ \A o \in Requests : TenderRequestOK(o)'
    BY <1>0, <1>r, <2>1, MoveEffect DEF TenderRequestOK, T!At
  <2> QED BY <2>2, <2>3, <2>4 DEF TenderIInv
\* A request that goes on, or ends.
<1>w. ASSUME NEW q \in Requests, NEW t, requests' = [requests EXCEPT ![q] = t],
             t.step \in {"idle", "create vote", "link vote", "open vote"},
             t.step = "link vote" => t.vote \in Nat,
             TenderTyped', BidsOK', VoteOK'
      PROVE  TenderIInv'
  <2>1. RequestsOK' /\ \A o \in Requests : TenderRequestOK(o)'
    <3>1. /\ RequestsOK' /\ requests'[q] = t
          /\ \A o \in Requests \ {q} : requests'[o] = requests[o]
      BY <1>0, <1>w, MoveEffect
    <3> QED BY <1>0, <1>w, <3>1 DEF TenderRequestOK, T!At
  <2> QED BY <1>w, <2>1 DEF TenderIInv
<1>1. ASSUME NEW q \in Requests, T!ReadToOpen(q) PROVE TenderIInv'
  <2>1. PICK t : t = T!Read("open")
    OBVIOUS
  <2> QED BY <1>1, <1>r, <2>1 DEF T!ReadToOpen, T!Read
<1>2. ASSUME NEW q \in Requests, T!ReadToClose(q) PROVE TenderIInv'
  <2>1. PICK t : t = T!Read("evaluating")
    OBVIOUS
  <2> QED BY <1>2, <1>r, <2>1 DEF T!ReadToClose, T!Read
<1>3. ASSUME NEW q \in Requests, T!ReadToCancel(q) PROVE TenderIInv'
  <2>1. PICK t : t = T!Read("cancelled")
    OBVIOUS
  <2> QED BY <1>3, <1>r, <2>1 DEF T!ReadToCancel, T!Read
<1>4. ASSUME NEW q \in Requests, NEW v \in Items, NEW s \in {"submitted", "shortlisted"},
             T!ReadToBid(q, v, s)
      PROVE  TenderIInv'
  <2>1. PICK t : t = [step |-> "bid", status |-> tender.status, vendor |-> v, next |-> s]
    OBVIOUS
  <2> QED BY <1>4, <1>r, <2>1 DEF T!ReadToBid
<1>5. ASSUME NEW q \in Requests, NEW v \in Items, T!ReadToAward(q, v) PROVE TenderIInv'
  <2>1. PICK t : t = [step |-> "award", status |-> tender.status, vendor |-> v]
    OBVIOUS
  <2> QED BY <1>5, <1>r, <2>1 DEF T!ReadToAward, T!Awardable
<1>6. ASSUME NEW q \in Requests, T!ReadToStartVote(q) PROVE TenderIInv'
  <2>1. PICK t : t = [step |-> "create vote"]
    OBVIOUS
  <2>2. /\ requests' = [requests EXCEPT ![q] = t] /\ t.step = "create vote"
        /\ tender.voteId = 0 /\ restarted' = (restarted \/ T!Voting # {})
        /\ UNCHANGED <<tender, bids, votes, crossed, late>>
    BY <1>6, <2>1 DEF T!ReadToStartVote, T!NoVoteYet, T!Begin
  <2>3. TenderTyped' /\ BidsOK'
    BY <1>0, <2>2 DEF TenderTyped, BidsOK, T!AwardDecidesBids
  <2>4. ASSUME ~ restarted' PROVE VoteSound'
    <3>1. VoteSound /\ \A o \in Requests : ~ BeginsVote(o)
      BY <1>0, <2>2, <2>4 DEF T!Voting, BeginsVote, VoteOK
    <3>2. Len(votes) = 0
      BY <2>2, <3>1 DEF VoteSound, BeginsVote, T!At
    <3>3. OneVote'
      BY <2>2, <3>1 DEF VoteSound, OneVote
    <3>4. VoteRequestOK(q)'
      BY <1>0, <2>2, <3>2, MoveEffect DEF VoteRequestOK, T!At
    <3> QED BY <1>0, <2>2, <3>1, <3>2, <3>3, <3>4, VoteStep
  <2> QED BY <1>w, <2>2, <2>3, <2>4 DEF VoteOK
<1>7. ASSUME NEW q \in Requests, T!CreateVote(q) PROVE TenderIInv'
  <2>1. PICK t : t = [step |-> "link vote", vote |-> Len(votes) + 1]
    OBVIOUS
  <2>2. /\ requests' = [requests EXCEPT ![q] = t] /\ t.step = "link vote" /\ T!At(q, "create vote")
        /\ t.vote = Len(votes) + 1
        /\ UNCHANGED <<tender, bids, crossed, late, restarted>>
    BY <1>7, <2>1, Zenon DEF T!CreateVote, T!Continue, T!tenderHistory
  <2>3. votes \in Seq({"draft", "open"}) /\ votes' = Append(votes, "draft")
    BY <1>0, <1>7, Zenon DEF TenderTyped, T!CreateVote
  <2>4. /\ Len(votes) \in Nat /\ Len(votes') = Len(votes) + 1 /\ votes' \in Seq({"draft", "open"})
        /\ votes'[Len(votes) + 1] = "draft"
    <3>1. "draft" \in {"draft", "open"}
      OBVIOUS
    <3> QED BY <2>3, <3>1, AppendFacts, Zenon
  <2>n. t.vote = Len(votes) + 1 /\ Len(votes') = t.vote /\ t.vote \in Nat
    <3>1. t.vote = Len(votes) + 1
      BY <2>2
    <3>2. Len(votes') = Len(votes) + 1 /\ Len(votes) \in Nat
      BY <2>4
    <3> QED BY <3>1, <3>2
  <2>5. TenderTyped' /\ BidsOK'
    BY <1>0, <2>2, <2>4 DEF TenderTyped, BidsOK, T!AwardDecidesBids
  <2>6. ASSUME ~ restarted PROVE VoteSound'
    <3>1. VoteSound /\ (\A o \in Requests \ {q} : ~ BeginsVote(o)) /\ VoteRequestOK(q)
      BY <1>0, <2>2, <2>6 DEF VoteOK, VoteSound, BeginsVote, T!At
    <3>2. Len(votes) = 0 /\ tender.voteId = 0
      BY <2>2, <3>1 DEF VoteRequestOK
    <3>3. Len(votes') = 1 /\ t.vote = 1
      BY <2>n, <3>2
    <3>4. votes'[1] = "draft"
      BY <2>4, <3>2
    <3>5. OneVote'
      <4>1. tender'.voteId = 0
        BY <2>2, <3>2
      <4> QED BY <3>3, <3>4, <4>1 DEF OneVote
    <3>6. VoteRequestOK(q)'
      BY <1>0, <2>2, <3>2, <3>3, MoveEffect DEF VoteRequestOK, T!At
    <3> QED BY <1>0, <2>2, <3>1, <3>5, <3>6, VoteStep
  <2> QED BY <1>w, <2>2, <2>n, <2>5, <2>6 DEF VoteOK
<1>8. ASSUME NEW q \in Requests, T!LinkVote(q) PROVE TenderIInv'
  <2>1. PICK t : t = [step |-> "open vote", vote |-> requests[q].vote]
    OBVIOUS
  <2>2. /\ requests' = [requests EXCEPT ![q] = t] /\ T!At(q, "link vote")
        /\ t.step = "open vote" /\ t.vote = requests[q].vote
        /\ tender' = [tender EXCEPT !.voteId = requests[q].vote]
        /\ UNCHANGED <<bids, votes, crossed, late, restarted>>
    BY <1>8, <2>1 DEF T!LinkVote, T!Continue, T!tenderHistory
  <2>3. t.vote \in Nat
    BY <1>0, <2>2 DEF TenderRequestOK
  <2>4. /\ TenderTyped' /\ tender'.status = tender.status /\ tender'.voteId = t.vote
        /\ tender'.awardedBidId = tender.awardedBidId
    BY <1>0, <2>2, <2>3 DEF TenderTyped, TenderRows
  <2>5. BidsOK'
    BY <1>0, <2>2, <2>4 DEF BidsOK, T!AwardDecidesBids
  <2>6. ASSUME ~ restarted PROVE VoteSound'
    <3>1. VoteSound /\ (\A o \in Requests \ {q} : ~ BeginsVote(o)) /\ VoteRequestOK(q)
      BY <1>0, <2>2, <2>6 DEF VoteOK, VoteSound, BeginsVote, T!At
    <3>2. Len(votes') = 1 /\ t.vote = 1 /\ tender'.voteId = 1
      BY <2>2, <2>4, <3>1 DEF VoteRequestOK
    <3>3. OneVote'
      BY <3>2 DEF OneVote
    <3>4. VoteRequestOK(q)'
      BY <1>0, <2>2, <3>2, MoveEffect DEF VoteRequestOK, T!At
    <3> QED BY <1>0, <2>2, <3>1, <3>2, <3>3, <3>4, VoteStep
  <2> QED BY <1>w, <2>2, <2>4, <2>5, <2>6 DEF VoteOK
<1>9. ASSUME NEW q \in Requests, T!OpenVote(q) PROVE TenderIInv'
  <2>1. /\ requests' = [requests EXCEPT ![q] = T!Idle] /\ T!At(q, "open vote")
        /\ UNCHANGED <<tender, bids, crossed, late, restarted>>
    BY <1>9 DEF T!OpenVote, T!Finish, T!Continue, T!tenderHistory
  <2>2. votes \in Seq({"draft", "open"}) /\ votes' = [votes EXCEPT ![requests[q].vote] = "open"]
    BY <1>0, <1>9, Zenon DEF TenderTyped, T!OpenVote
  <2>3. votes' \in Seq({"draft", "open"}) /\ Len(votes') = Len(votes)
    <3>1. "open" \in {"draft", "open"}
      OBVIOUS
    <3>2. PICK n : n = requests[q].vote
      OBVIOUS
    <3>3. votes' = [votes EXCEPT ![n] = "open"]
      BY <2>2, <3>2, Zenon
    <3> QED BY <2>2, <3>1, <3>3, ExceptFacts
  <2>4. TenderTyped' /\ BidsOK'
    BY <1>0, <2>1, <2>3 DEF TenderTyped, BidsOK, T!AwardDecidesBids
  <2>5. ASSUME ~ restarted PROVE VoteSound'
    <3>1. VoteSound /\ (\A o \in Requests \ {q} : ~ BeginsVote(o)) /\ VoteRequestOK(q)
      BY <1>0, <2>1, <2>5 DEF VoteOK, VoteSound, BeginsVote, T!At
    <3>2. Len(votes') = 1 /\ tender'.voteId = 1
      BY <2>1, <2>3, <3>1 DEF VoteRequestOK
    <3>3. OneVote'
      BY <3>2 DEF OneVote
    <3>4. VoteRequestOK(q)'
      BY <1>0, <1>i, <2>1, MoveEffect DEF VoteRequestOK, T!At
    <3> QED BY <1>0, <2>1, <3>1, <3>2, <3>3, <3>4, VoteStep
  <2> QED BY <1>i, <1>w, <2>1, <2>4, <2>5 DEF VoteOK
<1>10. ASSUME NEW q \in Requests, T!SetStatus(q) PROVE TenderIInv'
  <2>1. /\ requests' = [requests EXCEPT ![q] = T!Idle]
        /\ requests[q].step \in {"open", "evaluating", "cancelled"}
        /\ tender' = [tender EXCEPT !.status = requests[q].step]
        /\ crossed' = (crossed \/ T!Unread(q))
        /\ UNCHANGED <<bids, votes, late, restarted>>
    BY <1>10 DEF T!SetStatus, T!Write, T!Finish, T!Continue
  <2>2. TenderTyped' /\ tender'.voteId = tender.voteId /\ tender'.status = requests[q].step
    BY <1>0, <2>1 DEF TenderTyped, TenderRows, T!Statuses, T!Unread
  <2>3. VoteOK'
    BY <1>0, <1>i, <2>1, <2>2, VoteFrame DEF BeginsVote
  <2>4. ~ crossed' => ~ crossed /\ tender.status # "awarded"
    BY <1>0, <2>1 DEF T!Unread, TenderRequestOK
  <2>5. BidsOK'
    BY <1>0, <2>1, <2>2, <2>4 DEF BidsOK, T!AwardDecidesBids
  <2> QED BY <1>i, <1>w, <2>1, <2>2, <2>3, <2>5
<1>11. ASSUME NEW q \in Requests, T!WriteBid(q) PROVE TenderIInv'
  <2> DEFINE v == requests[q].vendor
  <2>1. /\ requests' = [requests EXCEPT ![q] = T!Idle] /\ T!At(q, "bid")
        /\ bids' = [bids EXCEPT ![v] = requests[q].next]
        /\ late' = IF tender.status \in {"awarded", "cancelled"} THEN late \cup {v} ELSE late
        /\ UNCHANGED <<tender, votes, crossed, restarted>>
    BY <1>11 DEF T!WriteBid, T!Finish, T!Continue
  <2>2. v \in Items /\ requests[q].next \in {"submitted", "shortlisted"}
    BY <1>0, <2>1 DEF TenderRequestOK, T!At
  <2>3. TenderTyped' /\ \A w \in Items : bids'[w] = IF w = v THEN requests[q].next ELSE bids[w]
    BY <1>0, <2>1, <2>2 DEF TenderTyped, T!BidStatuses
  <2>4. VoteOK'
    BY <1>0, <1>i, <2>1, VoteFrame DEF BeginsVote, T!At
  <2>5. BidsOK'
    BY <1>0, <2>1, <2>2, <2>3 DEF BidsOK, T!AwardDecidesBids
  <2> QED BY <1>i, <1>w, <2>1, <2>3, <2>4, <2>5
<1>12. ASSUME NEW q \in Requests, T!Award(q) PROVE TenderIInv'
  <2> DEFINE winner == requests[q].vendor
  <2>1. /\ requests' = [requests EXCEPT ![q] = T!Idle] /\ T!At(q, "award")
        /\ tender' = [tender EXCEPT !.status = "awarded", !.awardedBidId = winner]
        /\ crossed' = (crossed \/ T!Unread(q))
        /\ bids' = [v \in Items |->
                      IF v = winner THEN "awarded"
                      ELSE IF bids[v] \in {"submitted", "shortlisted"} THEN "rejected"
                           ELSE bids[v]]
        /\ UNCHANGED <<votes, late, restarted>>
    BY <1>12 DEF T!Award, T!Write, T!Finish, T!Continue
  <2>2. winner \in Items
    BY <1>0, <2>1 DEF TenderRequestOK, T!At
  <2>3. /\ tender' = [status |-> "awarded", voteId |-> tender.voteId, awardedBidId |-> winner]
        /\ tender.voteId \in Nat
    BY <1>0, <2>1 DEF TenderTyped, TenderRows
  <2>4. /\ tender' \in TenderRows /\ tender'.voteId = tender.voteId
        /\ tender'.status = "awarded" /\ tender'.awardedBidId = winner
    BY <2>2, <2>3 DEF TenderRows, T!Statuses
  <2>5. TenderTyped'
    BY <1>0, <2>1, <2>4 DEF TenderTyped, T!BidStatuses, T!Unread
  <2>6. VoteOK'
    BY <1>0, <1>i, <2>1, <2>4, VoteFrame DEF BeginsVote, T!At
  <2>7. ~ crossed' => ~ crossed /\ tender.status # "awarded"
    BY <1>0, <2>1 DEF T!Unread, TenderRequestOK, T!At
  <2>8. BidsOK'
    BY <1>0, <2>1, <2>4, <2>7 DEF BidsOK, T!AwardDecidesBids
  <2> QED BY <1>i, <1>w, <2>1, <2>5, <2>6, <2>8
<1>13. ASSUME NEW q \in Requests, T!Abort(q) PROVE TenderIInv'
  <2>1. /\ requests' = [requests EXCEPT ![q] = T!Idle]
        /\ restarted' = (restarted \/ T!At(q, "link vote"))
        /\ UNCHANGED <<tender, bids, votes, crossed, late>>
    BY <1>13 DEF T!Abort, T!Finish, T!Continue
  <2>2. TenderTyped' /\ BidsOK'
    BY <1>0, <2>1 DEF TenderTyped, BidsOK, T!AwardDecidesBids, T!At
  <2>3. ASSUME ~ restarted' PROVE VoteSound'
    <3>1. VoteSound /\ ~ T!At(q, "link vote")
      BY <1>0, <2>1, <2>3 DEF VoteOK
    <3>2. requests'[q] = T!Idle /\ \A o \in Requests \ {q} : requests'[o] = requests[o]
      BY <1>0, <2>1, MoveEffect
    <3>3. OneVote'
      BY <2>1, <3>1 DEF VoteSound, OneVote
    <3>4. \A o \in Requests : VoteRequestOK(o)' /\ (BeginsVote(o)' => BeginsVote(o))
      BY <1>i, <2>1, <3>1, <3>2 DEF VoteSound, VoteRequestOK, BeginsVote, T!At
    <3> QED BY <2>1, <3>1, <3>2, <3>3, <3>4 DEF VoteSound, T!At
  <2> QED BY <1>i, <1>w, <2>1, <2>2, <2>3 DEF VoteOK
<1>14. PICK q \in Requests : T!Reads(q) \/ T!Writes(q) \/ T!Abort(q)
  BY DEF T!Next
<1> QED BY <1>1, <1>2, <1>3, <1>4, <1>5, <1>6, <1>7, <1>8, <1>9, <1>10, <1>11, <1>12, <1>13, <1>14
     DEF T!Reads, T!Writes, T!ReadToSubmit, T!ReadToShortlist

-----------------------------------------------------------------------------
(* Passes: the entries of a gate pass. *)

\* The types of the variables.
PassTyped ==
    /\ pass \in [type : P!Types, status : {"active", "revoked", "used"}, maxUses : Nat,
                 usesCount : Nat]
    /\ logs \in [P!LogTypes -> Nat]
    /\ overlapped \in BOOLEAN

\* What a request has read of the pass, and what it will log.
EntryOK(q) ==
    /\ P!At(q, "entry") =>
          /\ requests[q].type \in {"entry", "override_entry"}
          /\ requests[q].status \in {"active", "revoked", "used"}
          /\ requests[q].usesCount \in Nat
          /\ requests[q].type = "entry" => requests[q].usesCount < pass.maxUses
    /\ P!At(q, "log") => requests[q].type \in {"exit", "denied"}

\* The inductive invariant.
PassIInv ==
    /\ RequestsOK /\ PassTyped
    /\ \A q \in Requests : EntryOK(q)
    /\ P!EntriesWithinUses

\* A pass that was just issued satisfies the invariant.
LEMMA PassInit == P!Init => PassIInv
<1> SUFFICES ASSUME P!Init PROVE PassIInv
  OBVIOUS
<1>1. RequestsOK /\ \A q \in Requests : EntryOK(q)
  BY DEF P!Init, P!NoRequests, P!Idle, RequestsOK, EntryOK, P!At
<1>2. PICK type \in P!Types :
        pass = [type |-> type, status |-> "active", maxUses |-> P!MaxUses(type), usesCount |-> 0]
  BY DEF P!Init
<1>3. P!MaxUses(type) \in Nat
  BY CaseworkAssumption DEF P!MaxUses
<1>4. PassTyped
  BY <1>2, <1>3 DEF P!Init, PassTyped
<1>5. P!EntriesWithinUses
  BY <1>2, <1>3 DEF P!Init, P!EntriesWithinUses, P!LogTypes
<1> QED BY <1>1, <1>4, <1>5 DEF PassIInv

\* Every step keeps the invariant: one step per action.
LEMMA PassNext == PassIInv /\ P!Next => PassIInv'
<1> SUFFICES ASSUME PassIInv, P!Next PROVE PassIInv'
  OBVIOUS
<1>0. RequestsOK /\ PassTyped /\ (\A q \in Requests : EntryOK(q)) /\ P!EntriesWithinUses
  BY DEF PassIInv
<1>i. P!Idle.step = "idle"
  BY DEF P!Idle
<1>m. ASSUME NEW q \in Requests, NEW t, requests' = [requests EXCEPT ![q] = t],
             t.step = "entry" => /\ t.type \in {"entry", "override_entry"}
                                 /\ t.status \in {"active", "revoked", "used"}
                                 /\ t.usesCount \in Nat
                                 /\ t.type = "entry" => t.usesCount < pass.maxUses,
             t.step = "log" => t.type \in {"exit", "denied"},
             PassTyped', pass'.maxUses = pass.maxUses, P!EntriesWithinUses'
      PROVE  PassIInv'
  BY <1>0, <1>m, MoveEffect DEF PassIInv, EntryOK, P!At
<1>1. ASSUME NEW q \in Requests, P!ReadToRevoke(q) PROVE PassIInv'
  <2>1. PICK t : t = [step |-> "revoke"]
    OBVIOUS
  <2>2. /\ requests' = [requests EXCEPT ![q] = t] /\ t.step = "revoke"
        /\ UNCHANGED <<pass, logs, overlapped>>
    BY <1>1, <2>1 DEF P!ReadToRevoke, P!Begin
  <2> QED BY <1>0, <1>m, <2>2 DEF PassTyped, P!EntriesWithinUses
<1>2. ASSUME NEW q \in Requests, P!Revoke(q) PROVE PassIInv'
  BY <1>0, <1>i, <1>m, <1>2 DEF P!Revoke, P!Finish, P!Continue, PassTyped, P!EntriesWithinUses
<1>3. ASSUME NEW q \in Requests, P!LogEntry(q) PROVE PassIInv'
  <2> DEFINE t == requests[q]
  <2>1. /\ logs' = [logs EXCEPT ![t.type] = @ + 1]
        /\ pass' = [pass EXCEPT !.usesCount = t.usesCount + 1,
                                !.status = P!StatusAfter(t.usesCount + 1, t.status)]
        /\ overlapped' = (overlapped \/ t.usesCount # pass.usesCount)
        /\ requests' = [requests EXCEPT ![q] = P!Idle]
    BY <1>3 DEF P!LogEntry, P!Finish, P!Continue
  <2>2. /\ t.type \in {"entry", "override_entry"} /\ t.status \in {"active", "revoked", "used"}
        /\ t.usesCount \in Nat /\ (t.type = "entry" => t.usesCount < pass.maxUses)
    BY <1>0, <1>3 DEF P!LogEntry, EntryOK
  <2>3. P!StatusAfter(t.usesCount + 1, t.status) \in {"active", "revoked", "used"}
    BY <2>2 DEF P!StatusAfter
  <2>4. /\ pass' \in [type : P!Types, status : {"active", "revoked", "used"}, maxUses : Nat,
                       usesCount : Nat]
        /\ pass'.maxUses = pass.maxUses /\ pass'.usesCount = t.usesCount + 1
    <3>1. pass' = [type |-> pass.type, status |-> P!StatusAfter(t.usesCount + 1, t.status),
                   maxUses |-> pass.maxUses, usesCount |-> t.usesCount + 1]
      BY <1>0, <2>1 DEF PassTyped
    <3>2. pass.type \in P!Types /\ pass.maxUses \in Nat
      BY <1>0 DEF PassTyped
    <3> QED BY <2>2, <2>3, <3>1, <3>2
  <2>5. /\ logs' \in [P!LogTypes -> Nat] /\ logs'[t.type] = logs[t.type] + 1
        /\ \A type \in P!LogTypes \ {t.type} : logs'[type] = logs[type]
    BY <1>0, <2>1, <2>2 DEF PassTyped, P!LogTypes
  <2>6. PassTyped'
    BY <1>0, <2>1, <2>4, <2>5 DEF PassTyped
  <2>7. logs["entry"] \in Nat /\ logs["override_entry"] \in Nat /\ pass.maxUses \in Nat
    BY <1>0 DEF PassTyped, P!LogTypes
  <2>8. t.type = "entry" => (~ overlapped' => P!EntriesWithinUses')
    <3>0. HAVE t.type = "entry"
    <3>1. logs'["entry"] = logs["entry"] + 1 /\ logs'["override_entry"] = logs["override_entry"]
      BY <2>5, <3>0 DEF P!LogTypes
    <3>2. HAVE ~ overlapped'
    <3>3. ~ overlapped /\ t.usesCount = pass.usesCount
      BY <2>1, <3>2
    <3>4. logs["entry"] <= pass.maxUses /\ pass.usesCount = logs["entry"] + logs["override_entry"]
      BY <1>0, <3>3 DEF P!EntriesWithinUses
    <3>5. logs'["entry"] <= pass'.maxUses /\ pass'.usesCount = logs'["entry"] + logs'["override_entry"]
      BY <2>2, <2>4, <2>7, <3>0, <3>1, <3>3, <3>4
    <3> QED BY <3>5 DEF P!EntriesWithinUses
  <2>9. t.type = "override_entry" => (~ overlapped' => P!EntriesWithinUses')
    <3>0. HAVE t.type = "override_entry"
    <3>1. logs'["override_entry"] = logs["override_entry"] + 1 /\ logs'["entry"] = logs["entry"]
      BY <2>5, <3>0 DEF P!LogTypes
    <3>2. HAVE ~ overlapped'
    <3>3. ~ overlapped /\ t.usesCount = pass.usesCount
      BY <2>1, <3>2
    <3>4. logs["entry"] <= pass.maxUses /\ pass.usesCount = logs["entry"] + logs["override_entry"]
      BY <1>0, <3>3 DEF P!EntriesWithinUses
    <3>5. logs'["entry"] <= pass'.maxUses /\ pass'.usesCount = logs'["entry"] + logs'["override_entry"]
      BY <2>2, <2>4, <2>7, <3>0, <3>1, <3>3, <3>4
    <3> QED BY <3>5 DEF P!EntriesWithinUses
  <2>10. P!EntriesWithinUses'
    BY <2>2, <2>8, <2>9 DEF P!EntriesWithinUses
  <2> QED BY <1>i, <1>m, <2>1, <2>4, <2>6, <2>10
<1>4. ASSUME NEW q \in Requests, P!Log(q) PROVE PassIInv'
  <2>1. requests[q].type \in {"exit", "denied"}
    BY <1>0, <1>4 DEF P!Log, EntryOK
  <2>2. PassTyped' /\ P!EntriesWithinUses'
    BY <1>0, <1>4, <2>1 DEF P!Log, PassTyped, P!LogTypes, P!EntriesWithinUses
  <2> QED BY <1>i, <1>m, <1>4, <2>2 DEF P!Log, P!Finish, P!Continue
<1>5. ASSUME NEW q \in Requests, P!Abort(q) PROVE PassIInv'
  BY <1>0, <1>i, <1>m, <1>5 DEF P!Abort, P!Finish, P!Continue, PassTyped, P!EntriesWithinUses
<1>6. ASSUME NEW q \in Requests, NEW inTime \in BOOLEAN, NEW overrideReason \in BOOLEAN,
             P!ReadToLogEntry(q, inTime, overrideReason)
      PROVE  PassIInv'
  <2>1. PICK t : t = [step |-> "entry", status |-> pass.status, usesCount |-> pass.usesCount,
                      type |-> IF P!Valid(inTime) THEN "entry" ELSE "override_entry"]
    OBVIOUS
  <2>2. requests' = [requests EXCEPT ![q] = t] /\ UNCHANGED <<pass, logs, overlapped>>
    BY <1>6, <2>1 DEF P!ReadToLogEntry, P!Begin
  <2>3. /\ t.step = "entry" /\ t.type \in {"entry", "override_entry"}
        /\ t.status \in {"active", "revoked", "used"} /\ t.usesCount \in Nat
        /\ t.type = "entry" => t.usesCount < pass.maxUses
    BY <1>0, <2>1 DEF PassTyped, P!Valid, P!HasUsesLeft
  <2> QED BY <1>0, <1>m, <2>2, <2>3 DEF PassTyped, P!EntriesWithinUses
<1>7. ASSUME NEW q \in Requests, NEW type \in P!LogTypes, P!ReadToLog(q, type) PROVE PassIInv'
  <2>1. PICK t : t = [step |-> "log", type |-> type]
    OBVIOUS
  <2>2. /\ requests' = [requests EXCEPT ![q] = t] /\ t.step = "log" /\ t.type \in {"exit", "denied"}
        /\ UNCHANGED <<pass, logs, overlapped>>
    BY <1>7, <2>1 DEF P!ReadToLog, P!Begin
  <2> QED BY <1>0, <1>m, <2>2 DEF PassTyped, P!EntriesWithinUses
<1> QED BY <1>1, <1>2, <1>3, <1>4, <1>5, <1>6, <1>7 DEF P!Next

-----------------------------------------------------------------------------
(* Violations: the appeals. *)

\* The statuses from which an appeal was submitted, and those since.
Early == {"open", "noticed", "acknowledged"}

\* The types of the variables.
ViolationTyped ==
    /\ violation \in [status : V!Statuses, noticeSent : BOOLEAN, fine : BOOLEAN]
    /\ appeals \in [Items -> {"none"} \cup V!AppealStatuses]
    /\ crossed \in BOOLEAN /\ steered \in BOOLEAN

\* What was read, and will be written.
ViolationRequestTyped(q) ==
    /\ requests[q].step \in {"notice", "acknowledge", "resolve", "appeal", "decide"} =>
          requests[q].to \in V!Statuses /\ requests[q].status \in V!Statuses
    /\ V!At(q, "decide") => requests[q].appeal \in Items /\ requests[q].decision \in V!AppealStatuses

\* The table of transitions, and an appeal decided, as long as nothing has crossed.
ViolationRequestOK(q) ==
    /\ V!At(q, "notice") =>
          requests[q].to = requests[q].status \/ (requests[q].status \in Early /\ requests[q].to \in Early)
    /\ V!At(q, "acknowledge") => requests[q].status \in Early /\ requests[q].to \in Early
    /\ V!At(q, "resolve") => requests[q].status # "appealing" /\ requests[q].to \in V!Outcomes
    /\ V!At(q, "appeal") => requests[q].status \in Early /\ requests[q].to = "appealing"
    /\ V!At(q, "decide") =>
          /\ requests[q].status = "appealing"
          /\ requests[q].to \in {"upheld", "dismissed"} /\ requests[q].decision \in {"upheld", "dismissed"}
          /\ violation.status \notin Early
          /\ violation.status = "appealing" => requests[q].appeal \in V!Pending

\* One appeal is undecided, and as long as it is the violation says so.
AppealsOK ==
    /\ \A a, b \in V!Pending : a = b
    /\ violation.status = "appealing" <=> V!Pending # {}

\* What holds unless something crossed.
ViolationSound == AppealsOK /\ \A q \in Requests : ViolationRequestOK(q)

\* The inductive invariant.
ViolationIInv ==
    /\ RequestsOK /\ ViolationTyped
    /\ \A q \in Requests : ViolationRequestTyped(q)
    /\ crossed \/ steered \/ ViolationSound

\* The invariant gives the property.
LEMMA ViolationSafe == ViolationIInv => V!AppealTies
<1> SUFFICES ASSUME ViolationSound
             PROVE  /\ Cardinality(V!Pending) <= 1
                    /\ violation.status = "appealing" <=> V!Pending # {}
  BY SameCardinality DEF ViolationIInv, V!AppealTies
<1>1. Cardinality(V!Pending) \in {0, 1}
  BY AtMostOne DEF ViolationSound, AppealsOK
<1> QED BY <1>1 DEF ViolationSound, AppealsOK

\* A violation that was just opened satisfies the invariant.
LEMMA ViolationInit == V!Init => ViolationIInv
<1> SUFFICES ASSUME V!Init PROVE ViolationIInv
  OBVIOUS
<1>1. RequestsOK /\ \A q \in Requests : V!At(q, "idle")
  BY DEF V!Init, V!NoRequests, V!Idle, RequestsOK, V!At
<1>2. ViolationTyped
  BY DEF V!Init, ViolationTyped, V!Statuses
<1>3. AppealsOK
  BY DEF V!Init, AppealsOK, V!Pending
<1>4. \A q \in Requests : ViolationRequestTyped(q) /\ ViolationRequestOK(q)
  BY <1>1 DEF ViolationRequestTyped, ViolationRequestOK, V!At
<1> QED BY <1>1, <1>2, <1>3, <1>4 DEF ViolationIInv, ViolationSound

\* The table of transitions, for the statuses that the requests look up.
LEMMA ViolationTable ==
    ASSUME ViolationTyped
    PROVE  /\ V!MayBecome("noticed") \/ V!MayBecome("acknowledged") => violation.status \in Early
           /\ \A outcome \in V!Outcomes : V!MayBecome(outcome) => violation.status # "appealing"
BY DEF ViolationTyped, V!MayBecome, V!ALLOWED_TRANSITIONS, V!Statuses, Early, V!Outcomes

\* What the table of the transitions of an appeal leads to.
LEMMA AppealTable ==
    ASSUME ViolationTyped, NEW a \in Items, appeals[a] # "none",
           NEW decision \in V!APPEAL_TRANSITIONS[appeals[a]]
    PROVE  a \in V!Pending /\ decision \in {"reviewing", "upheld", "dismissed"}
BY DEF ViolationTyped, V!APPEAL_TRANSITIONS, V!AppealStatuses, V!Pending

\* Every step keeps the invariant: one step per action.
LEMMA ViolationNext == ViolationIInv /\ V!Next => ViolationIInv'
<1> SUFFICES ASSUME ViolationIInv, V!Next PROVE ViolationIInv'
  OBVIOUS
<1>0. /\ RequestsOK /\ ViolationTyped
      /\ \A q \in Requests : ViolationRequestTyped(q)
      /\ ~ crossed /\ ~ steered => AppealsOK /\ \A q \in Requests : ViolationRequestOK(q)
  BY DEF ViolationIInv, ViolationSound
<1>i. V!Idle.step = "idle"
  BY DEF V!Idle
\* A request that reads: the rows stay.
<1>r. ASSUME NEW q \in Requests, NEW t, requests' = [requests EXCEPT ![q] = t],
             UNCHANGED <<violation, appeals, crossed>>, steered' \in BOOLEAN,
             steered => steered',
             t.step \in {"fine", "notice", "acknowledge", "resolve", "appeal", "decide"},
             t.step # "fine" => t.to \in V!Statuses /\ t.status = violation.status,
             t.step = "decide" => t.appeal \in Items /\ t.decision \in V!AppealStatuses,
             ~ crossed' /\ ~ steered' => ViolationRequestOK(q)'
      PROVE  ViolationIInv'
  <2>1. /\ RequestsOK' /\ requests'[q] = t
        /\ \A o \in Requests \ {q} : requests'[o] = requests[o]
    BY <1>0, <1>r, MoveEffect
  <2>2. ViolationTyped' /\ \A o \in Requests : ViolationRequestTyped(o)'
    BY <1>0, <1>r, <2>1 DEF ViolationTyped, ViolationRequestTyped, V!At
  <2>3. ASSUME ~ crossed', ~ steered' PROVE ViolationSound'
    <3>1. AppealsOK /\ \A o \in Requests : ViolationRequestOK(o)
      BY <1>0, <1>r, <2>3
    <3>2. AppealsOK'
      BY <1>r, <3>1 DEF AppealsOK, V!Pending
    <3>3. \A o \in Requests \ {q} : ViolationRequestOK(o)'
      BY <1>r, <2>1, <3>1 DEF ViolationRequestOK, V!At, V!Pending
    <3> QED BY <1>r, <2>3, <3>2, <3>3 DEF ViolationSound
  <2> QED BY <2>1, <2>2, <2>3 DEF ViolationIInv
\* A request that has written what it was to write, and ends.
<1>w. ASSUME NEW q \in Requests, requests' = [requests EXCEPT ![q] = V!Idle],
             ViolationTyped', UNCHANGED steered, crossed => crossed',
             ~ crossed' /\ ~ steered' => AppealsOK' /\
                \A o \in Requests \ {q} : V!At(o, "decide") =>
                    /\ violation'.status \notin Early
                    /\ violation'.status = "appealing" => requests[o].appeal \in V!Pending'
      PROVE  ViolationIInv'
  <2>1. /\ RequestsOK' /\ requests'[q] = V!Idle
        /\ \A o \in Requests \ {q} : requests'[o] = requests[o]
    BY <1>0, <1>w, MoveEffect
  <2>2. \A o \in Requests : ViolationRequestTyped(o)'
    BY <1>0, <1>i, <2>1 DEF ViolationRequestTyped, V!At
  <2>3. ASSUME ~ crossed', ~ steered' PROVE ViolationSound'
    <3>1. \A o \in Requests : ViolationRequestOK(o)
      BY <1>0, <1>w, <2>3
    <3>2. \A o \in Requests : ViolationRequestOK(o)'
      BY <1>i, <1>w, <2>1, <2>3, <3>1 DEF ViolationRequestOK, V!At
    <3> QED BY <1>w, <2>3, <3>2 DEF ViolationSound
  <2> QED BY <1>w, <2>1, <2>2, <2>3 DEF ViolationIInv
<1>1. ASSUME NEW q \in Requests, V!ReadToFine(q) PROVE ViolationIInv'
  <2>1. PICK t : t = [step |-> "fine"]
    OBVIOUS
  <2>2. /\ requests' = [requests EXCEPT ![q] = t] /\ t.step = "fine"
        /\ UNCHANGED <<violation, appeals, crossed, steered>>
    BY <1>1, <2>1 DEF V!ReadToFine, V!Begin, V!violationHistory
  <2>3. ViolationRequestOK(q)'
    BY <1>0, <2>2, MoveEffect DEF ViolationRequestOK, V!At
  <2> QED BY <1>0, <1>r, <2>2, <2>3 DEF ViolationTyped
<1>2. ASSUME NEW q \in Requests, NEW step \in {"notice", "acknowledge", "appeal"}, NEW to \in V!Statuses,
             V!ReadTo(q, step, to),
             step = "notice" => to = violation.status \/ (violation.status \in Early /\ to \in Early),
             step = "acknowledge" => violation.status \in Early /\ to \in Early,
             step = "appeal" => violation.status \in Early /\ to = "appealing"
      PROVE  ViolationIInv'
  <2>1. PICK t : t = [step |-> step, status |-> violation.status, to |-> to]
    OBVIOUS
  <2>2. /\ requests' = [requests EXCEPT ![q] = t]
        /\ t.step = step /\ t.to = to /\ t.status = violation.status
        /\ UNCHANGED <<violation, appeals, crossed, steered>>
    BY <1>2, <2>1 DEF V!ReadTo, V!Begin, V!violationHistory
  <2>3. requests'[q] = t
    BY <1>0, <2>2, MoveEffect
  <2>4. ViolationRequestOK(q)'
    BY <1>2, <2>2, <2>3 DEF ViolationRequestOK, V!At
  <2> QED BY <1>0, <1>r, <2>2, <2>4 DEF ViolationTyped
<1>3. ASSUME NEW q \in Requests, NEW outcome \in V!Statuses, V!ReadToResolve(q, outcome)
      PROVE  ViolationIInv'
  <2>1. PICK t : t = [step |-> "resolve", status |-> violation.status, to |-> outcome]
    OBVIOUS
  <2>2. /\ requests' = [requests EXCEPT ![q] = t]
        /\ t.step = "resolve" /\ t.to = outcome /\ t.status = violation.status
        /\ steered' = (steered \/ outcome \notin V!Outcomes) /\ V!MayBecome(outcome)
        /\ UNCHANGED <<violation, appeals, crossed>>
    BY <1>3, <2>1 DEF V!ReadToResolve, V!Begin
  <2>3. requests'[q] = t
    BY <1>0, <2>2, MoveEffect
  <2>4. ~ steered' => ViolationRequestOK(q)'
    BY <1>0, <2>2, <2>3, ViolationTable DEF ViolationRequestOK, V!At
  <2> QED BY <1>0, <1>r, <2>2, <2>4 DEF ViolationTyped
<1>4. ASSUME NEW q \in Requests, NEW a \in Items, NEW decision \in V!AppealStatuses,
             V!ReadToDecide(q, a, decision)
      PROVE  ViolationIInv'
  <2>1. PICK t : t = [step |-> "decide", status |-> violation.status, appeal |-> a,
                      decision |-> decision,
                      to |-> IF decision = "dismissed" THEN "upheld" ELSE "dismissed"]
    OBVIOUS
  <2>2. /\ requests' = [requests EXCEPT ![q] = t]
        /\ t.step = "decide" /\ t.to \in {"upheld", "dismissed"} /\ t.status = violation.status
        /\ t.appeal = a /\ t.decision = decision
        /\ steered' = (steered \/ decision = "reviewing")
        /\ UNCHANGED <<violation, appeals, crossed>>
    BY <1>4, <2>1 DEF V!ReadToDecide, V!Begin
  <2>3. requests'[q] = t
    BY <1>0, <2>2, MoveEffect
  <2>4. a \in V!Pending /\ decision \in {"reviewing", "upheld", "dismissed"}
    BY <1>0, <1>4, AppealTable DEF V!ReadToDecide
  <2>5. ASSUME ~ crossed', ~ steered' PROVE ViolationRequestOK(q)'
    <3>1. violation.status = "appealing"
      BY <1>0, <2>2, <2>4, <2>5 DEF AppealsOK
    <3> QED BY <2>2, <2>3, <2>4, <2>5, <3>1 DEF ViolationRequestOK, V!At, V!Pending, Early
  <2> QED BY <1>0, <1>r, <2>2, <2>5 DEF ViolationTyped, V!Statuses
\* A status is written.
<1>s. ASSUME NEW q \in Requests, NEW row \in [status : V!Statuses, noticeSent : BOOLEAN, fine : BOOLEAN],
             V!SetStatus(q, row), requests[q].to \in V!Statuses
      PROVE  /\ violation' \in [status : V!Statuses, noticeSent : BOOLEAN, fine : BOOLEAN]
             /\ violation'.status = requests[q].to
             /\ crossed' \in BOOLEAN /\ (crossed => crossed')
             /\ ~ crossed' => ~ crossed /\ violation.status = requests[q].status
  BY <1>0, <1>s DEF V!SetStatus, ViolationTyped
\* A status is written of a violation whose appeals stay as they are.
<1>p. ASSUME NEW q \in Requests, NEW row \in [status : V!Statuses, noticeSent : BOOLEAN, fine : BOOLEAN],
             requests[q].step \in {"notice", "acknowledge", "resolve"},
             V!SetStatus(q, row), V!Finish(q), UNCHANGED <<appeals, steered>>
      PROVE  ViolationIInv'
  <2>1. requests[q].to \in V!Statuses
    BY <1>0, <1>p DEF ViolationRequestTyped
  <2>2. requests' = [requests EXCEPT ![q] = V!Idle]
    BY <1>p DEF V!Finish, V!Continue
  <2>3. ViolationTyped'
    BY <1>0, <1>p, <1>s, <2>1 DEF ViolationTyped
  <2>4. V!Pending' = V!Pending
    BY <1>p DEF V!Pending
  <2>5. ASSUME ~ crossed', ~ steered'
        PROVE  /\ violation.status \notin Early => violation'.status \notin Early
               /\ (violation'.status = "appealing") <=> (violation.status = "appealing")
               /\ AppealsOK /\ \A o \in Requests : ViolationRequestOK(o)
    <3>1. /\ violation.status = requests[q].status /\ violation'.status = requests[q].to
          /\ ~ crossed /\ ~ steered
      BY <1>p, <1>s, <2>1, <2>5
    <3>2. ViolationRequestOK(q)
      BY <1>0, <3>1
    <3> QED BY <1>0, <1>p, <3>1, <3>2 DEF ViolationRequestOK, V!At, Early, V!Outcomes
  <2>6. ASSUME ~ crossed', ~ steered'
        PROVE  AppealsOK' /\
                \A o \in Requests \ {q} : V!At(o, "decide") =>
                    /\ violation'.status \notin Early
                    /\ violation'.status = "appealing" => requests[o].appeal \in V!Pending'
    BY <2>4, <2>5, <2>6 DEF AppealsOK, ViolationRequestOK
  <2>7. crossed => crossed'
    BY <1>p, <1>s, <2>1
  <2> QED BY <1>p, <1>w, <2>2, <2>3, <2>6, <2>7
<1>5. ASSUME NEW q \in Requests, V!IssueNotice(q) PROVE ViolationIInv'
  <2>1. PICK row : row = [violation EXCEPT !.noticeSent = TRUE]
    OBVIOUS
  <2>2. row \in [status : V!Statuses, noticeSent : BOOLEAN, fine : BOOLEAN]
    BY <1>0, <2>1 DEF ViolationTyped
  <2> QED BY <1>5, <1>p, <2>1, <2>2 DEF V!IssueNotice, V!At
<1>6. ASSUME NEW q \in Requests, V!WriteStatus(q) PROVE ViolationIInv'
  BY <1>0, <1>6, <1>p DEF V!WriteStatus, ViolationTyped
<1>7. ASSUME NEW q \in Requests, V!IssueFine(q) PROVE ViolationIInv'
  <2>1. /\ requests' = [requests EXCEPT ![q] = V!Idle]
        /\ violation' = [violation EXCEPT !.fine = TRUE]
        /\ UNCHANGED <<appeals, crossed, steered>>
    BY <1>7 DEF V!IssueFine, V!Finish, V!Continue, V!violationHistory
  <2>2. ViolationTyped' /\ violation'.status = violation.status /\ V!Pending' = V!Pending
    BY <1>0, <2>1 DEF ViolationTyped, V!Pending
  <2>3. ASSUME ~ crossed', ~ steered'
        PROVE  AppealsOK' /\
                \A o \in Requests \ {q} : V!At(o, "decide") =>
                    /\ violation'.status \notin Early
                    /\ violation'.status = "appealing" => requests[o].appeal \in V!Pending'
    BY <1>0, <2>1, <2>2, <2>3 DEF AppealsOK, ViolationRequestOK
  <2> QED BY <1>w, <2>1, <2>2, <2>3
<1>8. ASSUME NEW q \in Requests, V!SubmitAppeal(q) PROVE ViolationIInv'
  <2>1. PICK a \in Items : appeals[a] = "none" /\ appeals' = [appeals EXCEPT ![a] = "submitted"]
    BY <1>8 DEF V!SubmitAppeal
  <2>2. /\ requests' = [requests EXCEPT ![q] = V!Idle] /\ UNCHANGED steered
        /\ V!SetStatus(q, violation) /\ V!At(q, "appeal")
        /\ violation \in [status : V!Statuses, noticeSent : BOOLEAN, fine : BOOLEAN]
    BY <1>0, <1>8 DEF V!SubmitAppeal, V!Finish, V!Continue, ViolationTyped
  <2>3. requests[q].to \in V!Statuses
    BY <1>0, <2>2 DEF ViolationRequestTyped, V!At
  <2>4. ViolationTyped'
    BY <1>0, <1>s, <2>1, <2>2, <2>3 DEF ViolationTyped, V!AppealStatuses
  <2>5. V!Pending' = V!Pending \cup {a}
    BY <1>0, <2>1 DEF ViolationTyped, V!Pending
  <2>6. ASSUME ~ crossed', ~ steered'
        PROVE  AppealsOK' /\ \A o \in Requests \ {q} : ~ V!At(o, "decide")
    <3>1. /\ violation.status = requests[q].status /\ violation'.status = requests[q].to
          /\ ~ crossed /\ ~ steered
      BY <1>s, <2>2, <2>3, <2>6
    <3>2. AppealsOK /\ \A o \in Requests : ViolationRequestOK(o)
      BY <1>0, <3>1
    <3>3. violation.status \in Early /\ violation'.status = "appealing"
      BY <2>2, <3>1, <3>2 DEF ViolationRequestOK
    <3>4. V!Pending' = {a}
      BY <2>5, <3>2, <3>3 DEF AppealsOK, Early
    <3> QED BY <3>2, <3>3, <3>4 DEF AppealsOK, ViolationRequestOK
  <2>7. crossed => crossed'
    BY <1>s, <2>2, <2>3
  <2> QED BY <1>w, <2>2, <2>4, <2>6, <2>7
<1>9. ASSUME NEW q \in Requests, V!DecideAppeal(q) PROVE ViolationIInv'
  <2> DEFINE a == requests[q].appeal
  <2>1. /\ requests' = [requests EXCEPT ![q] = V!Idle] /\ UNCHANGED steered
        /\ V!SetStatus(q, violation) /\ V!At(q, "decide")
        /\ appeals' = [appeals EXCEPT ![a] = requests[q].decision]
        /\ violation \in [status : V!Statuses, noticeSent : BOOLEAN, fine : BOOLEAN]
    BY <1>0, <1>9 DEF V!DecideAppeal, V!Finish, V!Continue, ViolationTyped
  <2>2. requests[q].to \in V!Statuses /\ a \in Items /\ requests[q].decision \in V!AppealStatuses
    BY <1>0, <2>1 DEF ViolationRequestTyped, V!At
  <2>3. ViolationTyped'
    BY <1>0, <1>s, <2>1, <2>2 DEF ViolationTyped
  <2>4. ASSUME ~ crossed', ~ steered'
        PROVE  AppealsOK' /\
                \A o \in Requests \ {q} : V!At(o, "decide") =>
                    /\ violation'.status \notin Early
                    /\ violation'.status = "appealing" => requests[o].appeal \in V!Pending'
    <3>1. /\ violation.status = requests[q].status /\ violation'.status = requests[q].to
          /\ ~ crossed /\ ~ steered
      BY <1>s, <2>1, <2>2, <2>4
    <3>2. AppealsOK /\ ViolationRequestOK(q)
      BY <1>0, <3>1
    <3>3. /\ violation.status = "appealing" /\ violation'.status \in {"upheld", "dismissed"}
          /\ requests[q].decision \in {"upheld", "dismissed"} /\ a \in V!Pending
      BY <2>1, <3>1, <3>2 DEF ViolationRequestOK
    <3>4. V!Pending' = V!Pending \ {a}
      BY <1>0, <2>1, <2>2, <3>3 DEF ViolationTyped, V!Pending
    <3>5. V!Pending' = {}
      BY <3>2, <3>3, <3>4 DEF AppealsOK
    <3> QED BY <3>3, <3>5 DEF AppealsOK, Early
  <2>5. crossed => crossed'
    BY <1>s, <2>1, <2>2
  <2> QED BY <1>w, <2>1, <2>3, <2>4, <2>5
<1>10. ASSUME NEW q \in Requests, V!Abort(q) PROVE ViolationIInv'
  <2>1. /\ requests' = [requests EXCEPT ![q] = V!Idle]
        /\ UNCHANGED <<violation, appeals, crossed, steered>>
    BY <1>10 DEF V!Abort, V!Finish, V!Continue, V!violationHistory
  <2>2. ViolationTyped' /\ V!Pending' = V!Pending
    BY <1>0, <2>1 DEF ViolationTyped, V!Pending
  <2>3. ASSUME ~ crossed', ~ steered'
        PROVE  AppealsOK' /\
                \A o \in Requests \ {q} : V!At(o, "decide") =>
                    /\ violation'.status \notin Early
                    /\ violation'.status = "appealing" => requests[o].appeal \in V!Pending'
    BY <1>0, <2>1, <2>2, <2>3 DEF AppealsOK, ViolationRequestOK
  <2> QED BY <1>w, <2>1, <2>2, <2>3
<1>11. ASSUME NEW q \in Requests, V!ReadToAcknowledge(q) PROVE ViolationIInv'
  BY <1>0, <1>2, <1>11, ViolationTable DEF V!ReadToAcknowledge, V!Statuses, Early
<1>12. ASSUME NEW q \in Requests, V!ReadToAppeal(q) PROVE ViolationIInv'
  BY <1>2, <1>12 DEF V!ReadToAppeal, V!Appealable, V!Statuses, Early
<1>13. ASSUME NEW q \in Requests, NEW forceResend \in BOOLEAN, V!ReadToNotice(q, forceResend)
       PROVE  ViolationIInv'
  <2>1. CASE forceResend
    <3>1. PICK to \in V!Statuses : to = violation.status
      BY <1>0 DEF ViolationTyped
    <3>2. V!ReadTo(q, "notice", to)
      BY <1>13, <2>1, <3>1 DEF V!ReadToNotice
    <3>3. /\ "notice" \in {"notice", "acknowledge", "appeal"}
          /\ "notice" # "acknowledge" /\ "notice" # "appeal"
      OBVIOUS
    <3> QED BY <1>2, <3>1, <3>2, <3>3, Zenon
  <2>2. CASE ~ forceResend
    BY <1>0, <1>2, <1>13, <2>2, ViolationTable DEF V!ReadToNotice, V!Statuses, Early
  <2> QED BY <2>1, <2>2
<1> QED BY <1>1, <1>3, <1>4, <1>5, <1>6, <1>7, <1>8, <1>9, <1>10, <1>11, <1>12, <1>13
        DEF V!Next, V!Reads, V!Writes

-----------------------------------------------------------------------------
(* ResidentRequests: the table of transitions. *)

\* What a request is going to write follows, by the table, what it has read.
TicketRequestOK(q) ==
    /\ requests[q].step \in {"transition", "reply"} =>
          /\ requests[q].status \in R!Statuses
          /\ requests[q].to \in R!ALLOWED_TRANSITIONS[requests[q].status]
    /\ R!At(q, "assign") =>
          requests[q].to = "none" \/ (requests[q].to = "triaged" /\ requests[q].status = "submitted")

\* The inductive invariant.
TicketIInv ==
    /\ RequestsOK /\ ticket \in R!Statuses /\ overtaken \in BOOLEAN
    /\ \A q \in Requests : TicketRequestOK(q)

\* What a step does to the status.
TicketStep == ticket' # ticket => ticket' \in R!ALLOWED_TRANSITIONS[ticket] \/ overtaken'

\* What the table of transitions leads to.
LEMMA TicketTable ==
    /\ \A s \in R!Statuses : R!ALLOWED_TRANSITIONS[s] \subseteq R!Statuses
    /\ "triaged" \in R!ALLOWED_TRANSITIONS["submitted"]
    /\ "in_progress" \in R!ALLOWED_TRANSITIONS["waiting_resident"]
BY DEF R!ALLOWED_TRANSITIONS, R!Statuses

\* A request that was just submitted satisfies the invariant.
LEMMA TicketInit == R!Init => TicketIInv
<1> SUFFICES ASSUME R!Init PROVE TicketIInv
  OBVIOUS
<1>1. RequestsOK /\ \A q \in Requests : TicketRequestOK(q)
  BY DEF R!Init, RequestsOK, TicketRequestOK, R!NoRequests, R!Idle, R!At
<1> QED BY <1>1 DEF R!Init, TicketIInv, R!Statuses

\* Every step keeps the invariant, and follows the table: one step per action.
LEMMA TicketNext == TicketIInv /\ R!Next => TicketIInv' /\ TicketStep
<1> SUFFICES ASSUME TicketIInv, R!Next PROVE TicketIInv' /\ TicketStep
  OBVIOUS
<1>0. /\ RequestsOK /\ ticket \in R!Statuses /\ overtaken \in BOOLEAN
      /\ \A q \in Requests : TicketRequestOK(q)
  BY DEF TicketIInv
<1>i. R!Idle.step = "idle"
  BY DEF R!Idle
<1>m. ASSUME NEW q \in Requests, NEW t, requests' = [requests EXCEPT ![q] = t],
             t.step \in {"transition", "reply"} =>
                t.status \in R!Statuses /\ t.to \in R!ALLOWED_TRANSITIONS[t.status],
             t.step = "assign" => t.to = "none" \/ (t.to = "triaged" /\ t.status = "submitted"),
             ticket' \in R!Statuses, overtaken' \in BOOLEAN, TicketStep
      PROVE  TicketIInv' /\ TicketStep
  <2>1. /\ RequestsOK' /\ requests'[q] = t
        /\ \A o \in Requests \ {q} : requests'[o] = requests[o]
    BY <1>0, <1>m, MoveEffect
  <2>2. \A o \in Requests : TicketRequestOK(o)'
    BY <1>0, <1>m, <2>1 DEF TicketRequestOK, R!At
  <2> QED BY <1>m, <2>1, <2>2 DEF TicketIInv
<1>r. ASSUME NEW q \in Requests, NEW step \in {"transition", "reply"},
             NEW to \in R!ALLOWED_TRANSITIONS[ticket], R!ReadTo(q, step, to)
      PROVE  TicketIInv' /\ TicketStep
  <2>1. PICK t : t = [step |-> step, status |-> ticket, to |-> to]
    OBVIOUS
  <2>2. requests' = [requests EXCEPT ![q] = t] /\ UNCHANGED <<ticket, overtaken>>
    BY <1>r, <2>1 DEF R!ReadTo, R!Begin
  <2> QED BY <1>0, <1>m, <2>1, <2>2 DEF TicketStep
<1>1. ASSUME NEW q \in Requests, R!ReadToReply(q) PROVE TicketIInv' /\ TicketStep
  BY <1>1, <1>r, TicketTable DEF R!ReadToReply
<1>2. ASSUME NEW q \in Requests, NEW to, NEW isResident, R!ReadToTransition(q, to, isResident)
      PROVE  TicketIInv' /\ TicketStep
  BY <1>2, <1>r DEF R!ReadToTransition
<1>3. ASSUME NEW q \in Requests, NEW someone \in BOOLEAN, R!ReadToAssign(q, someone)
      PROVE  TicketIInv' /\ TicketStep
  <2>1. PICK t : t = [step |-> "assign", status |-> ticket, someone |-> someone,
                      to |-> R!TriagedBy(someone)]
    OBVIOUS
  <2>2. requests' = [requests EXCEPT ![q] = t] /\ UNCHANGED <<ticket, overtaken>>
    BY <1>3, <2>1 DEF R!ReadToAssign, R!Begin
  <2>3. t.to = "none" \/ (t.to = "triaged" /\ t.status = "submitted")
    <3>1. t.status = ticket /\ t.to = R!TriagedBy(someone)
      BY <2>1
    <3>2. CASE someone
      BY <3>1, <3>2 DEF R!TriagedBy
    <3>3. CASE ~ someone
      BY <3>1, <3>3, Zenon DEF R!TriagedBy
    <3> QED BY <3>2, <3>3
  <2> QED BY <1>0, <1>m, <2>1, <2>2, <2>3 DEF TicketStep
\* What was read is still so, or the request has overtaken another.
<1>w. ASSUME NEW q \in Requests, R!SetStatus(q), requests' = [requests EXCEPT ![q] = R!Idle],
             requests[q].status \in R!Statuses, requests[q].to \in R!ALLOWED_TRANSITIONS[requests[q].status]
      PROVE  TicketIInv' /\ TicketStep
  <2>1. /\ ticket' = requests[q].to /\ overtaken' \in BOOLEAN
        /\ overtaken' \/ ticket = requests[q].status
    BY <1>0, <1>w DEF R!SetStatus
  <2>2. TicketStep
    BY <1>w, <2>1 DEF TicketStep
  <2> QED BY <1>i, <1>m, <1>w, <2>1, <2>2, TicketTable
<1>4. ASSUME NEW q \in Requests, R!Transition(q) PROVE TicketIInv' /\ TicketStep
  BY <1>0, <1>4, <1>w DEF R!Transition, R!Finish, R!Continue, TicketRequestOK, R!At
<1>5. ASSUME NEW q \in Requests, R!AddComment(q) PROVE TicketIInv' /\ TicketStep
  BY <1>0, <1>5, <1>w DEF R!AddComment, R!Finish, R!Continue, TicketRequestOK, R!At
<1>6. ASSUME NEW q \in Requests, R!Assign(q) PROVE TicketIInv' /\ TicketStep
  <2>1. requests' = [requests EXCEPT ![q] = R!Idle]
    BY <1>6 DEF R!Assign, R!Finish, R!Continue
  <2>2. CASE requests[q].to = "none"
    <3>1. UNCHANGED <<ticket, overtaken>>
      BY <1>6, <2>2 DEF R!Assign
    <3> QED BY <1>0, <1>i, <1>m, <2>1, <3>1 DEF TicketStep
  <2>3. CASE requests[q].to # "none"
    <3>1. R!SetStatus(q) /\ requests[q].to = "triaged" /\ requests[q].status = "submitted"
      BY <1>0, <1>6, <2>3 DEF R!Assign, TicketRequestOK
    <3> QED BY <1>w, <2>1, <3>1, TicketTable DEF R!Statuses
  <2> QED BY <2>2, <2>3
<1>7. ASSUME NEW q \in Requests, R!Abort(q) PROVE TicketIInv' /\ TicketStep
  BY <1>0, <1>i, <1>m, <1>7 DEF R!Abort, R!Finish, R!Continue, TicketStep
<1> QED BY <1>1, <1>2, <1>3, <1>4, <1>5, <1>6, <1>7 DEF R!Next

-----------------------------------------------------------------------------
(* Reconciliation: the lines of a locked period. *)

\* The types of the variables.
ReconTyped ==
    /\ lines \in [Items -> B!Statuses] /\ posted \in [Items -> Int]
    /\ recon \in {"none", "open", "locked"} /\ stale \subseteq Items

\* What was read: an import and an unmatch have found the period not locked.
ReconRequestOK(q) ==
    /\ requests[q].step \in {"import", "match", "exclude", "unmatch"} => requests[q].line \in Items
    /\ requests[q].step \in {"import", "unmatch"} => requests[q].recon # "locked"
    /\ requests[q].step \in {"match", "exclude"} => requests[q].status = "unmatched"
    /\ B!At(q, "unmatch") => requests[q].status = "matched"
    /\ B!At(q, "lock") => \A l \in Items : requests[q].lines[l] # "unmatched"

\* The journal has a line as long as it is matched, and none is left unmatched in a
\* locked period.
LineOK(l) ==
    l \notin stale =>
        /\ posted[l] = IF lines[l] = "matched" THEN 1 ELSE 0
        /\ recon = "locked" => lines[l] # "unmatched"

\* The inductive invariant.
ReconIInv ==
    /\ RequestsOK /\ ReconTyped
    /\ \A q \in Requests : ReconRequestOK(q)
    /\ \A l \in Items : LineOK(l)

\* The invariant gives the property.
LEMMA ReconSafe == ReconIInv => B!LockedPeriodTies
BY DEF ReconIInv, ReconTyped, LineOK, B!LockedPeriodTies, B!Statuses

\* A period that is open, without lines, satisfies the invariant.
LEMMA ReconInit == B!Init => ReconIInv
<1> SUFFICES ASSUME B!Init PROVE ReconIInv
  OBVIOUS
<1>1. RequestsOK /\ \A q \in Requests : ReconRequestOK(q)
  BY DEF B!Init, RequestsOK, ReconRequestOK, B!NoRequests, B!Idle, B!At
<1>2. ReconTyped /\ \A l \in Items : LineOK(l)
  BY DEF B!Init, ReconTyped, LineOK, B!Statuses
<1> QED BY <1>1, <1>2 DEF ReconIInv

\* Every step keeps the invariant: one step per action.
LEMMA ReconNext == ReconIInv /\ B!Next => ReconIInv'
<1> SUFFICES ASSUME ReconIInv, B!Next PROVE ReconIInv'
  OBVIOUS
<1>0. /\ RequestsOK /\ ReconTyped
      /\ \A q \in Requests : ReconRequestOK(q)
      /\ \A l \in Items : LineOK(l)
  BY DEF ReconIInv
<1>i. B!Idle.step = "idle"
  BY DEF B!Idle
<1>m. ASSUME NEW q \in Requests, NEW t, requests' = [requests EXCEPT ![q] = t],
             t.step \in {"import", "match", "exclude", "unmatch"} => t.line \in Items,
             t.step \in {"import", "unmatch"} => t.recon # "locked",
             t.step \in {"match", "exclude"} => t.status = "unmatched",
             t.step = "unmatch" => t.status = "matched",
             t.step = "lock" => \A l \in Items : t.lines[l] # "unmatched",
             ReconTyped', \A l \in Items : LineOK(l)'
      PROVE  ReconIInv'
  <2>1. /\ RequestsOK' /\ requests'[q] = t
        /\ \A o \in Requests \ {q} : requests'[o] = requests[o]
    BY <1>0, <1>m, MoveEffect
  <2>2. \A o \in Requests : ReconRequestOK(o)'
    BY <1>0, <1>m, <2>1 DEF ReconRequestOK, B!At
  <2> QED BY <1>m, <2>1, <2>2 DEF ReconIInv
\* The rows stay.
<1>u. ASSUME UNCHANGED <<lines, posted, recon, stale>>
      PROVE  ReconTyped' /\ \A l \in Items : LineOK(l)'
  BY <1>0, <1>u DEF ReconTyped, LineOK
<1>r. ASSUME NEW q \in Requests, NEW l \in Items,
             NEW step \in {"import", "match", "exclude", "unmatch"}, B!ReadLine(q, l, step),
             step \in {"import", "unmatch"} => recon # "locked",
             step \in {"match", "exclude"} => lines[l] = "unmatched",
             step = "unmatch" => lines[l] = "matched"
      PROVE  ReconIInv'
  <2>1. PICK t : t = [step |-> step, line |-> l, status |-> lines[l], recon |-> recon]
    OBVIOUS
  <2>2. requests' = [requests EXCEPT ![q] = t] /\ UNCHANGED <<lines, posted, recon, agrees, stale>>
    BY <1>r, <2>1 DEF B!ReadLine, B!Begin
  <2>3. t.step = step /\ t.line = l /\ t.status = lines[l] /\ t.recon = recon
    BY <2>1
  <2> QED BY <1>m, <1>r, <1>u, <2>2, <2>3
\* A line is written, with what it adds to the journal.
<1>w. ASSUME NEW q \in Requests, NEW status \in B!Statuses, NEW entries \in Int,
             B!WriteLine(q, status, entries), requests[q].line \in Items,
             lines[requests[q].line] = requests[q].status /\ requests[q].line \notin stale =>
                posted[requests[q].line] + entries = IF status = "matched" THEN 1 ELSE 0,
             requests[q].status # lines[requests[q].line] \/ requests[q].recon # "locked"
                \/ status # "unmatched"
      PROVE  ReconIInv'
  <2>0. PICK l \in Items : l = requests[q].line
    BY <1>w
  <2>1. /\ lines' = [lines EXCEPT ![l] = status] /\ posted' = [posted EXCEPT ![l] = @ + entries]
        /\ stale' = IF B!Stale(q, l) THEN stale \cup {l} ELSE stale
        /\ requests' = [requests EXCEPT ![q] = B!Idle] /\ UNCHANGED recon
    BY <1>w, <2>0 DEF B!WriteLine, B!Finish, B!Continue
  <2>2. ReconTyped'
    BY <1>0, <1>w, <2>1 DEF ReconTyped
  <2>3. ASSUME NEW k \in Items, k # l PROVE LineOK(k)'
    BY <1>0, <1>w, <2>1, <2>3 DEF ReconTyped, LineOK
  <2>4. ASSUME l \notin stale' PROVE LineOK(l)'
    <3>1. /\ l \notin stale /\ lines[l] = requests[q].status
          /\ recon = "locked" => requests[q].recon = "locked"
      BY <2>0, <2>1, <2>4 DEF B!Stale
    <3>2. lines'[l] = status /\ posted'[l] = posted[l] + entries
      BY <1>0, <1>w, <2>1 DEF ReconTyped
    <3>3. posted'[l] = IF lines'[l] = "matched" THEN 1 ELSE 0
      BY <1>w, <2>0, <3>1, <3>2
    <3>4. recon' = "locked" => lines'[l] # "unmatched"
      BY <1>w, <2>0, <2>1, <3>1, <3>2
    <3> QED BY <3>3, <3>4 DEF LineOK
  <2>5. \A k \in Items : LineOK(k)'
    BY <2>3, <2>4 DEF LineOK
  <2> QED BY <1>i, <1>m, <2>1, <2>2, <2>5
<1>1. ASSUME B!StartReconciliation PROVE ReconIInv'
  <2>1. /\ recon' = "open" /\ UNCHANGED <<lines, posted, stale, requests>>
    BY <1>1 DEF B!StartReconciliation
  <2> QED BY <1>0, <2>1 DEF ReconIInv, RequestsOK, ReconTyped, ReconRequestOK, LineOK, B!At
<1>2. ASSUME NEW q \in Requests, B!Import(q) PROVE ReconIInv'
  <2>1. B!At(q, "import") /\ requests[q].line \in Items /\ requests[q].recon # "locked"
    BY <1>0, <1>2 DEF B!Import, ReconRequestOK, B!At
  <2>2. CASE lines[requests[q].line] = "absent"
    <3>1. B!WriteLine(q, "unmatched", 0)
      BY <1>2, <2>2 DEF B!Import
    <3>2. requests[q].line \notin stale => posted[requests[q].line] = 0
      BY <1>0, <2>1, <2>2 DEF LineOK
    <3> QED BY <1>w, <2>1, <3>1, <3>2 DEF B!Statuses
  <2>3. CASE lines[requests[q].line] # "absent"
    BY <1>2, <1>i, <1>m, <1>u, <2>3 DEF B!Import, B!Finish, B!Continue
  <2> QED BY <2>2, <2>3
<1>3. ASSUME NEW q \in Requests, B!Match(q) PROVE ReconIInv'
  <2>1. B!At(q, "match") /\ requests[q].line \in Items /\ requests[q].status = "unmatched"
    BY <1>0, <1>3 DEF B!Match, ReconRequestOK, B!At
  <2>2. lines[requests[q].line] = "unmatched" /\ requests[q].line \notin stale =>
          posted[requests[q].line] + 1 = 1
    BY <1>0, <2>1 DEF LineOK
  <2> QED BY <1>3, <1>w, <2>1, <2>2 DEF B!Match, B!Statuses
<1>4. ASSUME NEW q \in Requests, B!Exclude(q) PROVE ReconIInv'
  <2>1. B!At(q, "exclude") /\ requests[q].line \in Items /\ requests[q].status = "unmatched"
    BY <1>0, <1>4 DEF B!Exclude, ReconRequestOK, B!At
  <2>2. lines[requests[q].line] = "unmatched" /\ requests[q].line \notin stale =>
          posted[requests[q].line] + 0 = 0
    BY <1>0, <2>1 DEF LineOK
  <2> QED BY <1>4, <1>w, <2>1, <2>2 DEF B!Exclude, B!Statuses
<1>5. ASSUME NEW q \in Requests, B!Unmatch(q) PROVE ReconIInv'
  <2>1. /\ B!At(q, "unmatch") /\ requests[q].line \in Items /\ requests[q].status = "matched"
        /\ requests[q].recon # "locked"
    BY <1>0, <1>5 DEF B!Unmatch, ReconRequestOK, B!At
  <2>2. lines[requests[q].line] = "matched" /\ requests[q].line \notin stale =>
          posted[requests[q].line] + (-1) = 0
    BY <1>0, <2>1 DEF LineOK
  <2> QED BY <1>5, <1>w, <2>1, <2>2 DEF B!Unmatch, B!Statuses
<1>6. ASSUME NEW q \in Requests, B!ReadToLock(q) PROVE ReconIInv'
  <2>1. PICK t : t = [step |-> "lock", lines |-> lines]
    OBVIOUS
  <2>2. requests' = [requests EXCEPT ![q] = t] /\ UNCHANGED <<lines, posted, recon, stale>>
    BY <1>6, <2>1 DEF B!ReadToLock, B!Begin
  <2>3. t.step = "lock" /\ t.lines = lines /\ \A l \in Items : lines[l] # "unmatched"
    BY <1>6, <2>1 DEF B!ReadToLock, B!Lockable
  <2> QED BY <1>m, <1>u, <2>2, <2>3
<1>7. ASSUME NEW q \in Requests, B!LockReconciliation(q) PROVE ReconIInv'
  <2>1. /\ requests' = [requests EXCEPT ![q] = B!Idle] /\ B!At(q, "lock")
        /\ UNCHANGED <<lines, posted>>
    BY <1>7 DEF B!LockReconciliation, B!Finish, B!Continue
  <2>2. \A l \in Items : requests[q].lines[l] # "unmatched"
    BY <1>0, <2>1 DEF ReconRequestOK
  <2>3. CASE recon = "open"
    <3>1. recon' = "locked" /\ stale' = stale \cup {l \in Items : lines[l] # requests[q].lines[l]}
      BY <1>7, <2>3 DEF B!LockReconciliation
    <3>2. ReconTyped' /\ \A l \in Items : LineOK(l)'
      BY <1>0, <2>1, <2>2, <3>1 DEF ReconTyped, LineOK
    <3> QED BY <1>i, <1>m, <2>1, <3>2
  <2>4. CASE recon # "open"
    BY <1>7, <1>i, <1>m, <1>u, <2>1, <2>4 DEF B!LockReconciliation
  <2> QED BY <2>3, <2>4
<1>8. ASSUME NEW q \in Requests, B!Abort(q) PROVE ReconIInv'
  BY <1>8, <1>i, <1>m, <1>u DEF B!Abort, B!Finish, B!Continue
<1>9. ASSUME NEW q \in Requests, NEW l \in Items, B!ReadToImport(q, l) PROVE ReconIInv'
  BY <1>9, <1>r DEF B!ReadToImport
<1>10. ASSUME NEW q \in Requests, NEW l \in Items, B!ReadToMatch(q, l) PROVE ReconIInv'
  BY <1>10, <1>r DEF B!ReadToMatch
<1>11. ASSUME NEW q \in Requests, NEW l \in Items, B!ReadToExclude(q, l) PROVE ReconIInv'
  BY <1>11, <1>r DEF B!ReadToExclude
<1>12. ASSUME NEW q \in Requests, NEW l \in Items, B!ReadToUnmatch(q, l) PROVE ReconIInv'
  BY <1>12, <1>r DEF B!ReadToUnmatch, B!Unmatchable
<1> QED BY <1>1, <1>2, <1>3, <1>4, <1>5, <1>6, <1>7, <1>8, <1>9, <1>10, <1>11, <1>12 DEF B!Next

-----------------------------------------------------------------------------
(* Erasures: who is erased, and when. *)

\* The types of the variables.
ErasureTyped ==
    /\ erasures \in [Items -> [status : E!Statuses, elapsed : BOOLEAN]]
    /\ runs \in [Items -> Nat]

\* What was read, and will be written.
ErasureRequestOK(q) ==
    /\ requests[q].step \in {"cancel", "moderate", "execute"} => requests[q].erasure \in Items
    /\ E!At(q, "cancel") => requests[q].status \in {"submitted", "approved"}
    /\ E!At(q, "moderate") => requests[q].decision \in E!Decisions
    /\ E!At(q, "execute") => erasures[requests[q].erasure].elapsed

\* Only what was approved is executed, and neither that nor what was withdrawn is
\* touched again, but by a moderation that comes too late.
ErasureOK(e) ==
    e \notin overruled =>
        /\ runs[e] = IF erasures[e].status = "completed" THEN 1 ELSE 0
        /\ erasures[e].status = "completed" => erasures[e].elapsed
        /\ e \in withdrawn => erasures[e].status = "cancelled"

\* The inductive invariant.
ErasureIInv ==
    /\ RequestsOK /\ ErasureTyped
    /\ \A q \in Requests : ErasureRequestOK(q)
    /\ \A e \in Items : ErasureOK(e)

\* The invariant gives the property.
LEMMA ErasureSafe == ErasureIInv => E!ErasedAsAsked
BY DEF ErasureIInv, ErasureTyped, ErasureOK, E!ErasedAsAsked

\* No request for erasure yet: the invariant holds.
LEMMA ErasureInit == E!Init => ErasureIInv
<1> SUFFICES ASSUME E!Init PROVE ErasureIInv
  OBVIOUS
<1>1. RequestsOK /\ \A q \in Requests : ErasureRequestOK(q)
  BY DEF E!Init, RequestsOK, ErasureRequestOK, E!NoRequests, E!Idle, E!At
<1>2. ErasureTyped /\ \A e \in Items : ErasureOK(e)
  BY DEF E!Init, ErasureTyped, ErasureOK, E!Statuses
<1> QED BY <1>1, <1>2 DEF ErasureIInv

\* Every step keeps the invariant: one step per action.
LEMMA ErasureNext == ErasureIInv /\ E!Next => ErasureIInv'
<1> SUFFICES ASSUME ErasureIInv, E!Next PROVE ErasureIInv'
  OBVIOUS
<1>0. /\ RequestsOK /\ ErasureTyped
      /\ \A q \in Requests : ErasureRequestOK(q)
      /\ \A e \in Items : ErasureOK(e)
  BY DEF ErasureIInv
<1>i. E!Idle.step = "idle"
  BY DEF E!Idle
\* A request goes on; no window is taken back.
<1>m. ASSUME NEW q \in Requests, NEW t, requests' = [requests EXCEPT ![q] = t],
             t.step \in {"cancel", "moderate", "execute"} => t.erasure \in Items,
             t.step = "cancel" => t.status \in {"submitted", "approved"},
             t.step = "moderate" => t.decision \in E!Decisions,
             t.step = "execute" => erasures[t.erasure].elapsed,
             \A e \in Items : erasures[e].elapsed => erasures'[e].elapsed,
             ErasureTyped', \A e \in Items : ErasureOK(e)'
      PROVE  ErasureIInv'
  <2>1. /\ RequestsOK' /\ requests'[q] = t
        /\ \A o \in Requests \ {q} : requests'[o] = requests[o]
    BY <1>0, <1>m, MoveEffect
  <2>2. \A o \in Requests : ErasureRequestOK(o)'
    BY <1>0, <1>m, <2>1 DEF ErasureRequestOK, E!At
  <2> QED BY <1>m, <2>1, <2>2 DEF ErasureIInv
<1>u. ASSUME UNCHANGED <<erasures, runs, withdrawn, overruled>>
      PROVE  /\ ErasureTyped' /\ \A e \in Items : ErasureOK(e)'
             /\ \A e \in Items : erasures[e].elapsed => erasures'[e].elapsed
  BY <1>0, <1>u DEF ErasureTyped, ErasureOK
\* What Status does to the rows.
<1>s. ASSUME NEW e \in Items, NEW status \in E!Statuses, E!Status(e, status)
      PROVE  /\ erasures' \in [Items -> [status : E!Statuses, elapsed : BOOLEAN]]
             /\ erasures'[e].status = status /\ erasures'[e].elapsed = erasures[e].elapsed
             /\ \A o \in Items \ {e} : erasures'[o] = erasures[o]
             /\ \A o \in Items : erasures[o].elapsed => erasures'[o].elapsed
  BY <1>0, <1>s DEF E!Status, ErasureTyped
<1>1. ASSUME NEW e \in Items, E!WaitingEnds(e) PROVE ErasureIInv'
  <2>1. /\ erasures' = [erasures EXCEPT ![e].elapsed = TRUE]
        /\ UNCHANGED <<runs, withdrawn, overruled, requests>>
    BY <1>1 DEF E!WaitingEnds
  <2>2. /\ ErasureTyped' /\ \A o \in Items : erasures'[o].status = erasures[o].status
        /\ \A o \in Items : erasures[o].elapsed => erasures'[o].elapsed
    BY <1>0, <2>1 DEF ErasureTyped
  <2>3. \A o \in Items : ErasureOK(o)'
    BY <1>0, <2>1, <2>2 DEF ErasureOK
  <2>4. RequestsOK' /\ \A q \in Requests : ErasureRequestOK(q)'
    BY <1>0, <2>1, <2>2 DEF RequestsOK, ErasureRequestOK, E!At
  <2> QED BY <2>2, <2>3, <2>4 DEF ErasureIInv
<1>2. ASSUME NEW q \in Requests, E!ReadToSubmit(q) PROVE ErasureIInv'
  <2>1. PICK t : t = [step |-> "submit"]
    OBVIOUS
  <2>2. /\ requests' = [requests EXCEPT ![q] = t] /\ t.step = "submit"
        /\ UNCHANGED <<erasures, runs, withdrawn, overruled>>
    BY <1>2, <2>1 DEF E!ReadToSubmit, E!ReadBy, E!Begin
  <2> QED BY <1>m, <1>u, <2>2
<1>3. ASSUME NEW q \in Requests, E!Submit(q) PROVE ErasureIInv'
  <2>1. PICK e \in Items : erasures[e].status = "none" /\ E!Status(e, "submitted")
    BY <1>3 DEF E!Submit
  <2>2. requests' = [requests EXCEPT ![q] = E!Idle] /\ UNCHANGED <<runs, withdrawn, overruled>>
    BY <1>3 DEF E!Submit, E!Finish, E!Continue
  <2>3. "submitted" \in E!Statuses
    BY DEF E!Statuses
  <2>4. ErasureTyped'
    BY <1>0, <1>s, <2>1, <2>2, <2>3 DEF ErasureTyped
  <2>5. \A o \in Items : ErasureOK(o)'
    BY <1>0, <1>s, <2>1, <2>2, <2>3 DEF ErasureOK
  <2>6. \A o \in Items : erasures[o].elapsed => erasures'[o].elapsed
    BY <1>s, <2>1, <2>3
  <2> QED BY <1>i, <1>m, <2>2, <2>4, <2>5, <2>6
<1>4. ASSUME NEW q \in Requests, E!Cancel(q) PROVE ErasureIInv'
  <2> DEFINE e == requests[q].erasure
  <2>1. /\ requests' = [requests EXCEPT ![q] = E!Idle] /\ UNCHANGED <<runs, overruled>>
        /\ e \in Items /\ requests[q].status \in {"submitted", "approved"}
    BY <1>0, <1>4 DEF E!Cancel, E!Finish, E!Continue, ErasureRequestOK, E!At
  <2>2. CASE erasures[e].status = requests[q].status
    <3>1. E!Status(e, "cancelled") /\ withdrawn' = withdrawn \cup {e} /\ "cancelled" \in E!Statuses
      BY <1>4, <2>2 DEF E!Cancel, E!Statuses
    <3>2. ErasureTyped'
      BY <1>0, <1>s, <2>1, <3>1 DEF ErasureTyped
    <3>3. \A o \in Items : ErasureOK(o)'
      BY <1>0, <1>s, <2>1, <2>2, <3>1 DEF ErasureOK
    <3>4. \A o \in Items : erasures[o].elapsed => erasures'[o].elapsed
      BY <1>s, <2>1, <3>1
    <3> QED BY <1>i, <1>m, <2>1, <3>2, <3>3, <3>4
  <2>3. CASE erasures[e].status # requests[q].status
    BY <1>4, <1>i, <1>m, <1>u, <2>1, <2>3 DEF E!Cancel
  <2> QED BY <2>2, <2>3
<1>5. ASSUME NEW q \in Requests, E!Moderate(q) PROVE ErasureIInv'
  <2> DEFINE e == requests[q].erasure
  <2>1. /\ requests' = [requests EXCEPT ![q] = E!Idle] /\ UNCHANGED <<runs, withdrawn>>
        /\ e \in Items /\ requests[q].decision \in E!Decisions
        /\ E!Status(e, requests[q].decision)
        /\ overruled' = IF erasures[e].status = "submitted" THEN overruled ELSE overruled \cup {e}
    BY <1>0, <1>5 DEF E!Moderate, E!Finish, E!Continue, ErasureRequestOK, E!At
  <2>2. requests[q].decision \in E!Statuses /\ requests[q].decision \notin {"completed", "cancelled"}
    BY <2>1 DEF E!Decisions, E!Statuses
  <2>3. ErasureTyped'
    BY <1>0, <1>s, <2>1, <2>2 DEF ErasureTyped
  <2>4. \A o \in Items : ErasureOK(o)'
    BY <1>0, <1>s, <2>1, <2>2 DEF ErasureOK
  <2>5. \A o \in Items : erasures[o].elapsed => erasures'[o].elapsed
    BY <1>s, <2>1, <2>2
  <2> QED BY <1>i, <1>m, <2>1, <2>3, <2>4, <2>5
<1>6. ASSUME NEW q \in Requests, E!Execute(q) PROVE ErasureIInv'
  <2>0. PICK e \in Items : e = requests[q].erasure
    BY <1>0, <1>6 DEF E!Execute, ErasureRequestOK, E!At
  <2>1. /\ requests' = [requests EXCEPT ![q] = E!Idle] /\ UNCHANGED <<withdrawn, overruled>>
        /\ e \in Items /\ erasures[e].elapsed
    BY <1>0, <2>0, <1>6 DEF E!Execute, E!Finish, E!Continue, ErasureRequestOK, E!At
  <2>2. CASE E!Claimable(e)
    <3>1. /\ E!Status(e, "completed") /\ runs' = [runs EXCEPT ![e] = @ + 1] /\ "completed" \in E!Statuses
          /\ erasures[e].status = "approved"
      BY <1>6, <2>0, <2>2 DEF E!Execute, E!Claimable, E!Statuses
    <3>2. ErasureTyped'
      BY <1>0, <1>s, <2>1, <3>1 DEF ErasureTyped
    <3>3. ErasureOK(e)'
      <4>1. runs'[e] = runs[e] + 1 /\ erasures'[e].status = "completed" /\ erasures'[e].elapsed
        BY <1>0, <1>s, <2>1, <3>1 DEF ErasureTyped
      <4> QED BY <1>0, <2>1, <3>1, <4>1 DEF ErasureOK, ErasureTyped
    <3>4. \A o \in Items \ {e} : ErasureOK(o)'
      BY <1>0, <1>s, <2>1, <3>1 DEF ErasureOK, ErasureTyped
    <3>5. \A o \in Items : erasures[o].elapsed => erasures'[o].elapsed
      BY <1>s, <2>1, <3>1
    <3> QED BY <1>i, <1>m, <2>1, <3>2, <3>3, <3>4, <3>5
  <2>3. CASE ~ E!Claimable(e)
    BY <1>6, <1>i, <1>m, <1>u, <2>0, <2>1, <2>3 DEF E!Execute
  <2> QED BY <2>2, <2>3
<1>7. ASSUME NEW q \in Requests, E!Abort(q) PROVE ErasureIInv'
  BY <1>7, <1>i, <1>m, <1>u DEF E!Abort, E!Finish, E!Continue
<1>8. ASSUME NEW q \in Requests, NEW e \in Items, E!ReadToCancel(q, e) PROVE ErasureIInv'
  <2>1. PICK t : t = [step |-> "cancel", erasure |-> e, status |-> erasures[e].status]
    OBVIOUS
  <2>2. /\ requests' = [requests EXCEPT ![q] = t]
        /\ t.step = "cancel" /\ t.erasure = e /\ t.status \in {"submitted", "approved"}
        /\ UNCHANGED <<erasures, runs, withdrawn, overruled>>
    BY <1>8, <2>1 DEF E!ReadToCancel, E!Cancellable, E!ReadBy, E!Begin
  <2> QED BY <1>m, <1>u, <2>2
<1>9. ASSUME NEW q \in Requests, NEW e \in Items, NEW decision \in E!Decisions,
             E!ReadToModerate(q, e, decision)
      PROVE  ErasureIInv'
  <2>1. PICK t : t = [step |-> "moderate", erasure |-> e, decision |-> decision]
    OBVIOUS
  <2>2. /\ requests' = [requests EXCEPT ![q] = t]
        /\ t.step = "moderate" /\ t.erasure = e /\ t.decision = decision
        /\ UNCHANGED <<erasures, runs, withdrawn, overruled>>
    BY <1>9, <2>1 DEF E!ReadToModerate, E!ReadBy, E!Begin
  <2> QED BY <1>m, <1>u, <2>2
<1>10. ASSUME NEW q \in Requests, NEW e \in Items, E!ReadToExecute(q, e) PROVE ErasureIInv'
  <2>1. PICK t : t = [step |-> "execute", erasure |-> e]
    OBVIOUS
  <2>2. /\ requests' = [requests EXCEPT ![q] = t]
        /\ t.step = "execute" /\ t.erasure = e /\ erasures[e].elapsed
        /\ UNCHANGED <<erasures, runs, withdrawn, overruled>>
    BY <1>10, <2>1 DEF E!ReadToExecute, E!ReadBy, E!Begin
  <2> QED BY <1>m, <1>u, <2>2
<1> QED BY <1>1, <1>2, <1>3, <1>4, <1>5, <1>6, <1>7, <1>8, <1>9, <1>10 DEF E!Next

-----------------------------------------------------------------------------
(* Ballots: the ballots of a voter, and the outcome. *)

\* What the row of the vote holds.
VoteRows == [status : L!Statuses, special : BOOLEAN, exco : BOOLEAN, anonymous : BOOLEAN,
             allowMultiple : BOOLEAN, quorumPercent : QuorumPercents,
             passThresholdPercent : PassPercents, options : OptionLists,
             seconded : BOOLEAN, eligibleCountSnapshot : Nat, outcome : L!Outcomes]

\* What a ballot's row holds.
BallotRows == [picks : [Options -> Nat], castByUserId : Items \cup {None}]

\* The types of the variables.
VoteTyped ==
    /\ vote \in VoteRows
    /\ ballots \in [L!Keys -> [Items -> BallotRows]]
    /\ stragglers \in Nat /\ latePicks \in [Options -> Nat]

\* What was read, and will be written.
VoteRequestTyped(q) ==
    /\ L!At(q, "open") => requests[q].status = "draft" /\ requests[q].count \in Nat
    /\ L!At(q, "close") => requests[q].status = "open" /\ requests[q].count \in Nat
    /\ L!At(q, "cancel") => requests[q].status \in {"draft", "open"}
    /\ L!At(q, "cast") => /\ requests[q].user \in Items /\ requests[q].voter \in Items
                        /\ requests[q].key \in L!Keys /\ requests[q].picks \in Picks

\* The column that the ballots of the vote are kept under.
Column == IF vote.exco THEN "user" ELSE IF vote.anonymous THEN "hash" ELSE "person"

\* Once a ballot is in, or on its way, the vote is no draft any more and its column
\* stays.
ColumnKept ==
    /\ \A k \in L!Keys, p \in Items :
          ballots[k][p] # L!NoBallot => k = Column /\ vote.status # "draft"
    /\ \A q \in Requests : L!At(q, "cast") => requests[q].key = Column /\ vote.status # "draft"

\* The rule of a vote.
RuleOf(row) ==
    <<row.quorumPercent, row.passThresholdPercent, row.options, row.eligibleCountSnapshot>>

\* What a rule makes of n ballots with f picks of the first option.
Verdict(rule, n, f) ==
    IF n < L!QuorumThreshold(rule[1], rule[4]) THEN "quorum_not_met"
    ELSE IF f >= L!CeilPercent(rule[2], n) THEN "passed" ELSE "failed"

\* The picks of the first option.
FirstTotal == L!OptionTotal(Head(vote.options))
FirstLate == latePicks[Head(vote.options)]

\* The outcome is the verdict on the ballots without some of the stragglers.
DecidedBy(rule, outcome, n, f) ==
    /\ n <= L!BallotCount /\ L!BallotCount <= n + stragglers
    /\ f <= FirstTotal /\ FirstTotal <= f + FirstLate
    /\ outcome = Verdict(rule, n, f)

\* What a close has read is what there is, stragglers apart, and a closed vote has
\* the outcome of its ballots.
CountKept ==
    /\ \A q \in Requests : L!At(q, "close") =>
          /\ vote.status # "draft"
          /\ RuleOf(requests[q].row) = RuleOf(vote)
          /\ requests[q].count <= L!BallotCount
          /\ L!BallotCount <= requests[q].count + stragglers
    /\ vote.status = "closed" => \E n, f \in Nat : DecidedBy(RuleOf(vote), vote.outcome, n, f)

\* The inductive invariant.
VoteIInv ==
    /\ RequestsOK /\ VoteTyped
    /\ stragglers <= L!BallotCount
    /\ \A q \in Requests : VoteRequestTyped(q)
    /\ lateEdit \/ ColumnKept
    /\ crossed \/ ruleEdited \/ CountKept

\* A quotient that is rounded up is reached when the dividend is.
LEMMA CeilFacts ==
    ASSUME NEW n \in Nat, NEW c \in Nat
    PROVE  /\ (n + 99) \div 100 \in Nat
           /\ c >= (n + 99) \div 100 <=> 100 * c >= n
           /\ n % 100 = 0 => 100 * ((n + 99) \div 100) = n
OBVIOUS

\* A percentage that is rounded up is reached only when the percentage is, and not
\* reached only when it is not, or equal and rounded up too far.
LEMMA PercentFacts ==
    ASSUME NEW percent \in Nat, NEW n \in Nat, NEW c \in Nat
    PROVE  /\ L!CeilPercent(percent, n) \in Nat
           /\ c >= L!CeilPercent(percent, n) => 100 * c >= percent * n
           /\ c < L!CeilPercent(percent, n) => L!Below(c, percent, n)
<1> DEFINE x == percent * n
           share == (x + 99) \div 100
<1>1. x \in Nat
  OBVIOUS
<1>2. <<percent, n>> \in RoundsUp => x % 100 = 0
  BY CaseworkAssumption
<1>3. /\ share \in Nat
      /\ c >= share <=> 100 * c >= x
      /\ x % 100 = 0 => 100 * share = x
  BY <1>1, CeilFacts
<1>4. L!CeilPercent(percent, n) = share + IF <<percent, n>> \in RoundsUp THEN 1 ELSE 0
  BY DEF L!CeilPercent
<1>5. L!Below(c, percent, n) <=> 100 * c < x \/ (100 * c = x /\ <<percent, n>> \in RoundsUp)
  BY DEF L!Below
<1> HIDE DEF share, x
<1>6. CASE <<percent, n>> \in RoundsUp
  <2>1. 100 * share = x /\ L!CeilPercent(percent, n) = share + 1
    BY <1>2, <1>3, <1>4, <1>6
  <2>2. c < share + 1 => 100 * c <= x
    BY <1>1, <1>3, <2>1
  <2>3. c >= share + 1 => 100 * c >= x
    BY <1>1, <1>3, <2>1
  <2> QED BY <1>1, <1>3, <1>5, <1>6, <2>1, <2>2, <2>3 DEF x
<1>7. CASE <<percent, n>> \notin RoundsUp
  <2>1. L!CeilPercent(percent, n) = share
    BY <1>3, <1>4, <1>7
  <2>2. c < share => 100 * c < x
    BY <1>1, <1>3
  <2> QED BY <1>1, <1>3, <1>5, <2>1, <2>2 DEF x
<1> QED BY <1>6, <1>7

\* A percentage of more is more.
LEMMA PercentGrows ==
    ASSUME NEW percent \in Nat, NEW m \in Nat, NEW n \in Nat, m <= n
    PROVE  percent * m <= percent * n
OBVIOUS

\* The sum of the instance is that of the theorems.
LEMMA SameSum == \A f : L!SumFunction(f) = SumFunctionOnSet(f, DOMAIN f)
BY DEF L!SumFunction, L!SumFunctionOnSet, L!FoldFunctionOnSet, L!MapThenFoldSet,
       SumFunctionOnSet, FoldFunctionOnSet, MapThenFoldSet

\* There are finitely many places for a ballot.
LEMMA PlacesAreFinite == IsFiniteSet(L!Keys \X Items)
<1>1. IsFiniteSet(L!Keys)
  <2>1. IsFiniteSet({"person"} \cup {"user"})
    BY FS_Singleton, FS_AddElement
  <2>2. IsFiniteSet(({"person"} \cup {"user"}) \cup {"hash"})
    BY <2>1, FS_AddElement
  <2>3. L!Keys = ({"person"} \cup {"user"}) \cup {"hash"}
    BY DEF L!Keys
  <2> QED BY <2>2, <2>3
<1> QED BY <1>1, CaseworkAssumption, FS_Product

\* What the ballots pick of an option, by their places.
PicksOf(o) == [b \in L!Keys \X Items |-> ballots[b[1]][b[2]].picks[o]]

\* The picks of an option are the sum over the places.
LEMMA TotalIsSum ==
    ASSUME NEW o
    PROVE  L!OptionTotal(o) = SumFunctionOnSet(PicksOf(o), L!Keys \X Items)
<1>1. L!OptionTotal(o) = L!SumFunction(PicksOf(o))
  BY DEF L!OptionTotal, PicksOf
<1>2. DOMAIN PicksOf(o) = L!Keys \X Items
  BY DEF PicksOf
<1> QED BY <1>1, <1>2, SameSum

\* A place has so many picks.
LEMMA PicksAreNat ==
    ASSUME VoteTyped, NEW o \in Options
    PROVE  \A b \in L!Keys \X Items : PicksOf(o)[b] \in Nat
<1> SUFFICES ASSUME NEW b \in L!Keys \X Items PROVE PicksOf(o)[b] \in Nat
  OBVIOUS
<1>1. b[1] \in L!Keys /\ b[2] \in Items
  OBVIOUS
<1>2. ballots[b[1]][b[2]] \in BallotRows
  BY <1>1 DEF VoteTyped
<1> QED BY <1>2 DEF PicksOf, BallotRows

\* The ballots can be counted.
LEMMA CountsAreNat ==
    ASSUME VoteTyped
    PROVE  L!BallotCount \in Nat /\ \A o \in Options : L!OptionTotal(o) \in Nat
<1>1. IsFiniteSet(L!Cast)
  BY PlacesAreFinite, FS_Subset DEF L!Cast
<1>2. L!BallotCount \in Nat
  BY <1>1, SameCardinality, FS_CardinalityType DEF L!BallotCount
<1>3. ASSUME NEW o \in Options PROVE L!OptionTotal(o) \in Nat
  BY PicksAreNat, PlacesAreFinite, SumNat, TotalIsSum
<1> QED BY <1>2, <1>3

\* One more ballot is one more, and adds its picks.
LEMMA BallotAdded ==
    ASSUME VoteTyped, VoteTyped', NEW k \in L!Keys, NEW p \in Items, NEW b \in BallotRows,
           ballots[k][p] = L!NoBallot, b # L!NoBallot,
           ballots' = [ballots EXCEPT ![k][p] = b]
    PROVE  /\ L!BallotCount' = L!BallotCount + 1
           /\ \A o \in Options : L!OptionTotal(o)' = L!OptionTotal(o) + b.picks[o]
<1> DEFINE place == <<k, p>>
           Places == L!Keys \X Items
<1>1. place \in Places
  OBVIOUS
<1>2. /\ ballots'[k][p] = b
      /\ \A c \in L!Keys, r \in Items : <<c, r>> # place => ballots'[c][r] = ballots[c][r]
  BY DEF VoteTyped
<1>3. \A c \in Places \ {place} : ballots'[c[1]][c[2]] = ballots[c[1]][c[2]]
  <2> SUFFICES ASSUME NEW c \in Places, c # place PROVE ballots'[c[1]][c[2]] = ballots[c[1]][c[2]]
    OBVIOUS
  <2>1. c[1] \in L!Keys /\ c[2] \in Items /\ c = <<c[1], c[2]>>
    OBVIOUS
  <2> QED BY <1>2, <2>1
<1>4. L!Cast' = L!Cast \cup {place} /\ place \notin L!Cast
  BY <1>1, <1>2, <1>3 DEF L!Cast
<1>5. IsFiniteSet(L!Cast)
  BY PlacesAreFinite, FS_Subset DEF L!Cast
<1>6. Cardinality(L!Cast') = Cardinality(L!Cast) + 1
  BY <1>4, <1>5, FS_AddElement
<1>7. L!BallotCount' = L!BallotCount + 1
  <2>1. L!BallotCount' = L!Cardinality(L!Cast')
    BY DEF L!BallotCount
  <2> QED BY <1>6, <2>1, SameCardinality DEF L!BallotCount
<1>8. ASSUME NEW o \in Options PROVE L!OptionTotal(o)' = L!OptionTotal(o) + b.picks[o]
  <2> DEFINE f == PicksOf(o)
             e == [c \in Places |-> ballots'[c[1]][c[2]].picks[o]]
  <2>1. L!OptionTotal(o) = SumFunctionOnSet(f, Places)
    BY TotalIsSum
  <2>2. L!OptionTotal(o)' = SumFunctionOnSet(e, Places)
    <3>1. L!OptionTotal(o)' = L!SumFunction(e)
      BY DEF L!OptionTotal
    <3>2. DOMAIN e = Places
      OBVIOUS
    <3> QED BY <3>1, <3>2, SameSum
  <2>3. \A c \in Places : f[c] \in Nat
    BY PicksAreNat
  <2>4. \A c \in Places \ {place} : f[c] = e[c]
    BY <1>3 DEF PicksOf
  <2>5. f[place] = 0 /\ e[place] = b.picks[o]
    BY <1>1, <1>2 DEF PicksOf, L!NoBallot, L!NoPicks
  <2>6. b.picks[o] \in Nat
    BY DEF BallotRows
  <2>7. \A c \in Places : f[c] \in Int /\ e[c] \in Int
    BY <2>3, <2>4, <2>5, <2>6
  <2> HIDE DEF e, f, Places
  <2>8. SumFunctionOnSet(e, Places) = (SumFunctionOnSet(f, Places) - f[place]) + e[place]
    BY <1>1, <2>4, <2>7, PlacesAreFinite, SumUpdate DEF Places
  <2>9. SumFunctionOnSet(f, Places) \in Nat
    BY <2>1, CountsAreNat
  <2> QED BY <2>1, <2>2, <2>5, <2>6, <2>8, <2>9
<1> QED BY <1>7, <1>8

\* The fields of a vote.
LEMMA VoteFields ==
    ASSUME VoteTyped
    PROVE  /\ vote.status \in L!Statuses /\ vote.outcome \in L!Outcomes
           /\ vote.quorumPercent \in Nat /\ vote.passThresholdPercent \in Nat
           /\ vote.options \in OptionLists /\ Head(vote.options) \in Options
           /\ vote.eligibleCountSnapshot \in Nat
           /\ FirstTotal \in Nat /\ FirstLate \in Nat
<1>1. vote \in VoteRows
  BY DEF VoteTyped
<1>2. /\ vote.status \in L!Statuses /\ vote.outcome \in L!Outcomes
      /\ vote.quorumPercent \in QuorumPercents /\ vote.passThresholdPercent \in PassPercents
      /\ vote.options \in OptionLists /\ vote.eligibleCountSnapshot \in Nat
  BY <1>1 DEF VoteRows
<1>3. Head(vote.options) \in Options
  <2>1. vote.options \in Seq(Options) /\ vote.options # <<>>
    BY <1>2, CaseworkAssumption
  <2> QED BY <2>1, HeadTailProperties
<1>4. vote.quorumPercent \in Nat /\ vote.passThresholdPercent \in Nat
  <2>1. QuorumPercents \subseteq 0 .. 100 /\ PassPercents \subseteq 0 .. 100
    BY CaseworkAssumption
  <2>2. QuorumPercents \subseteq Nat /\ PassPercents \subseteq Nat
    BY <2>1
  <2> QED BY <1>2, <2>2
<1> QED BY <1>2, <1>3, <1>4, CountsAreNat DEF VoteTyped, FirstTotal, FirstLate

\* The invariant gives the two properties.
LEMMA VoteSafe == VoteIInv => L!OneBallotEach /\ L!OutcomeCounts
<1> SUFFICES ASSUME VoteIInv PROVE L!OneBallotEach /\ L!OutcomeCounts
  OBVIOUS
<1>1. ASSUME NEW p \in Items, ~ lateEdit PROVE Cardinality(L!BallotsOf(p)) <= 1
  <2>1. \A a, b \in L!BallotsOf(p) : a = b
    BY <1>1 DEF VoteIInv, ColumnKept, L!BallotsOf
  <2> QED BY <2>1, AtMostOne
<1> DEFINE count == L!BallotCount
           eligible == vote.eligibleCountSnapshot
           quorum == vote.quorumPercent
           percent == vote.passThresholdPercent
<1>2. ASSUME vote.status = "closed", ~ crossed, ~ ruleEdited
      PROVE  /\ vote.outcome = "passed" => 100 * FirstTotal >= percent * (count - stragglers)
             /\ vote.outcome = "failed" =>
                  \E n \in (count - stragglers) .. count : L!Below(FirstTotal - FirstLate, percent, n)
             /\ vote.outcome \in {"passed", "failed"} =>
                  count >= 1 /\ 100 * count >= quorum * eligible
             /\ vote.outcome = "quorum_not_met" =>
                  count - stragglers = 0 \/ L!Below(count - stragglers, quorum, eligible)
             /\ vote.outcome # "none"
  <2>1. /\ count \in Nat /\ stragglers \in Nat /\ stragglers <= count
        /\ FirstTotal \in Nat /\ FirstLate \in Nat
        /\ quorum \in Nat /\ percent \in Nat /\ eligible \in Nat
    BY CountsAreNat, VoteFields DEF VoteIInv, VoteTyped
  <2>2. PICK n \in Nat, f \in Nat : DecidedBy(RuleOf(vote), vote.outcome, n, f)
    BY <1>2 DEF VoteIInv, CountKept
  <2>3. /\ n <= count /\ count <= n + stragglers
        /\ f <= FirstTotal /\ FirstTotal <= f + FirstLate
        /\ vote.outcome = IF n < L!QuorumThreshold(quorum, eligible) THEN "quorum_not_met"
                          ELSE IF f >= L!CeilPercent(percent, n) THEN "passed" ELSE "failed"
    BY <2>2 DEF DecidedBy, Verdict, RuleOf
  <2> HIDE DEF count, eligible, quorum, percent
  <2> DEFINE timely == count - stragglers
  <2>4. timely \in Nat /\ timely <= n /\ n \in timely .. count
    BY <2>1, <2>3
  <2>5. /\ L!CeilPercent(quorum, eligible) \in Nat
        /\ n >= L!CeilPercent(quorum, eligible) => 100 * n >= quorum * eligible
        /\ n < L!CeilPercent(quorum, eligible) => L!Below(n, quorum, eligible)
    BY <2>1, PercentFacts
  <2>6. /\ f >= L!CeilPercent(percent, n) => 100 * f >= percent * n
        /\ f < L!CeilPercent(percent, n) => L!Below(f, percent, n)
        /\ L!CeilPercent(percent, n) \in Nat
    BY <2>1, PercentFacts
  <2>7. ASSUME vote.outcome = "passed" PROVE 100 * FirstTotal >= percent * timely
    <3>1. 100 * f >= percent * n
      BY <2>1, <2>3, <2>6, <2>7
    <3>2. percent * timely <= percent * n /\ percent * timely \in Nat /\ percent * n \in Nat
      BY <2>1, <2>4, PercentGrows
    <3> HIDE DEF timely
    <3> QED BY <2>1, <2>3, <3>1, <3>2
  <2>8. ASSUME vote.outcome = "failed" PROVE L!Below(FirstTotal - FirstLate, percent, n)
    <3>1. L!Below(f, percent, n)
      BY <2>1, <2>3, <2>6, <2>8
    <3>2. percent * n \in Nat
      BY <2>1
    <3> QED BY <2>1, <2>3, <3>1, <3>2 DEF L!Below
  <2>9. ASSUME vote.outcome \in {"passed", "failed"} PROVE count >= 1 /\ 100 * count >= quorum * eligible
    <3>1. ~ (n < L!QuorumThreshold(quorum, eligible))
      BY <2>3, <2>9
    <3>2. n >= 1 /\ n >= L!CeilPercent(quorum, eligible)
      BY <2>5, <3>1 DEF L!QuorumThreshold
    <3>3. quorum * eligible \in Nat
      BY <2>1
    <3> QED BY <2>1, <2>3, <2>5, <3>2, <3>3
  <2>10. ASSUME vote.outcome = "quorum_not_met" PROVE timely = 0 \/ L!Below(timely, quorum, eligible)
    <3>1. n < L!QuorumThreshold(quorum, eligible)
      BY <2>3, <2>10
    <3>2. n = 0 \/ n < L!CeilPercent(quorum, eligible)
      BY <2>5, <3>1 DEF L!QuorumThreshold
    <3>3. quorum * eligible \in Nat
      BY <2>1
    <3>4. CASE n = 0
      BY <2>4, <3>4
    <3>5. CASE L!Below(n, quorum, eligible)
      BY <2>4, <3>3, <3>5 DEF L!Below
    <3> QED BY <2>5, <3>2, <3>4, <3>5
  <2>11. vote.outcome # "none"
    BY <2>3
  <2> QED BY <2>4, <2>7, <2>8, <2>9, <2>10, <2>11
<1> QED BY <1>1, <1>2, SameCardinality DEF L!OneBallotEach, L!OutcomeCounts, FirstTotal, FirstLate

\* A vote that is drafted satisfies the invariant.
LEMMA VoteInit == L!Init => VoteIInv
<1> SUFFICES ASSUME L!Init PROVE VoteIInv
  OBVIOUS
<1>1. /\ RequestsOK /\ \A q \in Requests : requests[q].step = "idle"
  BY DEF L!Init, L!NoRequests, L!Idle, RequestsOK
<1>2. vote \in VoteRows /\ vote.status = "draft"
  <2>1. PICK special \in BOOLEAN, exco \in BOOLEAN, anonymous \in BOOLEAN, multiple \in BOOLEAN,
             quorum \in QuorumPercents, percent \in PassPercents, options \in OptionLists :
          /\ special => percent >= 75
          /\ vote = [status |-> "draft", special |-> special, exco |-> exco,
                     anonymous |-> anonymous, allowMultiple |-> multiple,
                     quorumPercent |-> quorum, passThresholdPercent |-> percent,
                     options |-> options, seconded |-> FALSE,
                     eligibleCountSnapshot |-> 0, outcome |-> "none"]
    BY DEF L!Init
  <2> QED BY <2>1 DEF VoteRows, L!Statuses, L!Outcomes
<1>3. ballots = [k \in L!Keys |-> [p \in Items |-> L!NoBallot]] /\ L!NoBallot \in BallotRows
  BY DEF L!Init, L!NoBallot, L!NoPicks, BallotRows
<1>4. VoteTyped
  BY <1>2, <1>3 DEF L!Init, L!NoPicks, VoteTyped
<1>5. ColumnKept
  BY <1>1, <1>3 DEF ColumnKept, L!At
<1>6. CountKept
  BY <1>1, <1>2 DEF CountKept, L!At
<1>7. stragglers <= L!BallotCount
  BY <1>4, CountsAreNat DEF L!Init
<1> QED BY <1>1, <1>4, <1>5, <1>6, <1>7 DEF VoteIInv, VoteRequestTyped, L!At

\* The counts depend on the ballots, and the first of them on the options.
LEMMA CountsStay ==
    ASSUME UNCHANGED <<ballots, stragglers, latePicks>>
    PROVE  /\ UNCHANGED L!BallotCount
           /\ \A o : L!OptionTotal(o)' = L!OptionTotal(o)
           /\ vote'.options = vote.options =>
                /\ FirstTotal' = FirstTotal /\ FirstLate' = FirstLate
                /\ \A rule, outcome, n, f :
                     DecidedBy(rule, outcome, n, f)' <=> DecidedBy(rule, outcome, n, f)
<1>1. /\ UNCHANGED L!BallotCount
      /\ \A o : L!OptionTotal(o)' = L!OptionTotal(o)
  BY DEF L!BallotCount, L!Cast, L!OptionTotal
<1>2. ASSUME vote'.options = vote.options
      PROVE  /\ FirstTotal' = FirstTotal /\ FirstLate' = FirstLate
             /\ \A rule, outcome, n, f :
                  DecidedBy(rule, outcome, n, f)' <=> DecidedBy(rule, outcome, n, f)
  <2>1. FirstTotal' = FirstTotal /\ FirstLate' = FirstLate
    BY <1>1, <1>2 DEF FirstTotal, FirstLate
  <2> QED BY <1>1, <2>1 DEF DecidedBy, Verdict, L!QuorumThreshold, L!CeilPercent
<1> QED BY <1>1, <1>2

\* Every step keeps the invariant: one step per action.
LEMMA VoteNext == VoteIInv /\ L!Next => VoteIInv'
<1> SUFFICES ASSUME VoteIInv, L!Next PROVE VoteIInv'
  OBVIOUS
<1>0. /\ RequestsOK /\ VoteTyped /\ (\A q \in Requests : VoteRequestTyped(q))
      /\ stragglers <= L!BallotCount
      /\ lateEdit \/ ColumnKept
      /\ crossed \/ ruleEdited \/ CountKept
  BY DEF VoteIInv
<1>i. L!Idle.step = "idle"
  BY DEF L!Idle
\* A request comes to have read t, and nothing else changes.
<1>r. ASSUME NEW q \in Requests, NEW t, L!ReadBy(q, t),
             t.step = "open" => t.status = "draft" /\ t.count \in Nat,
             t.step = "close" => /\ t.status = "open" /\ vote.status # "draft"
                                 /\ t.row = vote /\ t.count = L!BallotCount,
             t.step = "cancel" => t.status \in {"draft", "open"},
             t.step = "cast" => /\ t.user \in Items /\ t.voter \in Items /\ t.key \in L!Keys
                                /\ t.picks \in Picks
                                /\ t.key = Column /\ vote.status # "draft"
      PROVE  VoteIInv'
  <2>1. requests' = [requests EXCEPT ![q] = t] /\ UNCHANGED <<vote, ballots, L!history>>
    BY <1>r DEF L!ReadBy, L!Begin
  <2>2. /\ RequestsOK' /\ requests'[q] = t
        /\ \A o \in Requests \ {q} : requests'[o] = requests[o]
    BY <1>0, <2>1, MoveEffect
  <2>h. UNCHANGED <<vote, ballots, crossed, lateEdit, ruleEdited, stragglers, latePicks>>
    BY <2>1 DEF L!history
  <2>c. L!BallotCount \in Nat
    BY <1>0, CountsAreNat
  <2>3. VoteTyped' /\ \A o \in Requests : VoteRequestTyped(o)'
    BY <1>0, <1>r, <2>h, <2>2, <2>c DEF VoteTyped, VoteRequestTyped, L!At
  <2>4. ColumnKept => ColumnKept'
    BY <1>r, <2>h, <2>2 DEF ColumnKept, Column, L!At
  <2>5. /\ L!BallotCount' = L!BallotCount
        /\ \A rule, outcome, n, f :
             DecidedBy(rule, outcome, n, f)' <=> DecidedBy(rule, outcome, n, f)
    BY <2>h, CountsStay
  <2>6. CountKept => CountKept'
    <3>1. HAVE CountKept
    <3>2. ASSUME NEW o \in Requests, L!At(o, "close")'
          PROVE  /\ vote.status # "draft"
                 /\ RuleOf(requests'[o].row) = RuleOf(vote)
                 /\ requests'[o].count <= L!BallotCount
                 /\ L!BallotCount <= requests'[o].count + stragglers
      <4>1. CASE o = q
        <5>1. requests'[o] = t /\ t.step = "close"
          BY <2>2, <3>2, <4>1 DEF L!At
        <5>2. stragglers \in Nat
          BY <1>0 DEF VoteTyped
        <5> QED BY <1>r, <2>c, <5>1, <5>2
      <4>2. CASE o # q
        BY <2>2, <3>1, <3>2, <4>2 DEF CountKept, L!At
      <4> QED BY <4>1, <4>2
    <3>3. vote.status = "closed" => \E n, f \in Nat : DecidedBy(RuleOf(vote), vote.outcome, n, f)
      BY <3>1 DEF CountKept
    <3> QED BY <2>h, <2>5, <3>2, <3>3 DEF CountKept, RuleOf
  <2> QED BY <1>0, <2>h, <2>2, <2>3, <2>4, <2>5, <2>6 DEF VoteIInv
\* A request ends without having touched a ballot.
<1>f. ASSUME NEW q \in Requests, L!Finish(q), vote' \in VoteRows,
             UNCHANGED <<ballots, stragglers, latePicks>>,
             lateEdit => lateEdit', crossed => crossed', ruleEdited => ruleEdited',
             ~ lateEdit' => \/ vote.status = "draft"
                            \/ vote'.status # "draft" /\ Column' = Column,
             ~ crossed' /\ ~ ruleEdited' /\ CountKept =>
                \/ ~ L!Closing /\ vote'.status # "closed"
                \/ /\ vote.status # "draft" => vote'.status # "draft"
                   /\ RuleOf(vote') = RuleOf(vote)
                   /\ vote'.status = "closed" =>
                        \E n, f \in Nat : DecidedBy(RuleOf(vote), vote'.outcome, n, f)
      PROVE  VoteIInv'
  <2>1. requests' = [requests EXCEPT ![q] = L!Idle]
    BY <1>f DEF L!Finish, L!Continue
  <2>2. /\ RequestsOK' /\ requests'[q].step = "idle"
        /\ \A o \in Requests \ {q} : requests'[o] = requests[o]
    BY <1>0, <1>i, <2>1, MoveEffect
  <2>3. VoteTyped' /\ \A o \in Requests : VoteRequestTyped(o)'
    BY <1>0, <1>f, <2>2 DEF VoteTyped, VoteRequestTyped, L!At
  <2>4. ColumnKept /\ ~ lateEdit' => ColumnKept'
    BY <1>f, <2>2 DEF ColumnKept, L!At
  <2>5. L!BallotCount' = L!BallotCount
    BY <1>f, CountsStay
  <2>6. CountKept /\ ~ crossed' /\ ~ ruleEdited' => CountKept'
    <3>1. HAVE CountKept /\ ~ crossed' /\ ~ ruleEdited'
    <3>2. \A o \in Requests : L!At(o, "close")' => L!At(o, "close") /\ requests'[o] = requests[o]
      BY <2>2 DEF L!At
    <3>3. CASE ~ L!Closing /\ vote'.status # "closed"
      BY <3>2, <3>3 DEF CountKept, L!Closing
    <3>4. CASE /\ vote.status # "draft" => vote'.status # "draft"
               /\ RuleOf(vote') = RuleOf(vote)
               /\ vote'.status = "closed" =>
                    \E n, f \in Nat : DecidedBy(RuleOf(vote), vote'.outcome, n, f)
      <4>1. vote'.options = vote.options
        BY <3>4 DEF RuleOf
      <4>2. \A rule, outcome, n, f :
              DecidedBy(rule, outcome, n, f)' <=> DecidedBy(rule, outcome, n, f)
        BY <1>f, <4>1, CountsStay
      <4>3. ASSUME NEW o \in Requests, L!At(o, "close")'
            PROVE  /\ vote'.status # "draft"
                   /\ RuleOf(requests'[o].row) = RuleOf(vote')
                   /\ requests'[o].count <= L!BallotCount'
                   /\ L!BallotCount' <= requests'[o].count + stragglers'
        <5>1. L!At(o, "close") /\ requests'[o] = requests[o]
          BY <3>2, <4>3
        <5>2. /\ vote.status # "draft" /\ RuleOf(requests[o].row) = RuleOf(vote)
              /\ requests[o].count <= L!BallotCount
              /\ L!BallotCount <= requests[o].count + stragglers
          BY <3>1, <5>1 DEF CountKept
        <5> QED BY <1>f, <2>5, <3>4, <5>1, <5>2
      <4>4. vote'.status = "closed" =>
              (\E n, f \in Nat : DecidedBy(RuleOf(vote), vote.outcome, n, f))'
        BY <3>4, <4>2
      <4> QED BY <4>3, <4>4 DEF CountKept, RuleOf
    <3> QED BY <1>f, <3>1, <3>3, <3>4
  <2> QED BY <1>0, <1>f, <2>2, <2>3, <2>4, <2>5, <2>6 DEF VoteIInv
<1>k. /\ vote \in VoteRows
      /\ vote.status \in L!Statuses /\ vote.special \in BOOLEAN /\ vote.exco \in BOOLEAN
      /\ vote.anonymous \in BOOLEAN /\ vote.allowMultiple \in BOOLEAN
      /\ vote.seconded \in BOOLEAN
      /\ vote.quorumPercent \in QuorumPercents /\ vote.passThresholdPercent \in PassPercents
      /\ vote.options \in OptionLists
      /\ vote.eligibleCountSnapshot \in Nat /\ vote.outcome \in L!Outcomes
  BY <1>0 DEF VoteTyped, VoteRows
\* What a status is written over was read, or the step crosses.
<1>w. ASSUME NEW q \in Requests, NEW row \in VoteRows, L!SetStatus(q, row), row.status # "draft",
             row.exco = vote.exco, row.anonymous = vote.anonymous,
             ~ crossed' /\ ~ ruleEdited /\ CountKept =>
                \/ requests[q].status = "draft" /\ row.status # "closed"
                \/ /\ RuleOf(row) = RuleOf(vote)
                   /\ row.status = "closed" =>
                        \E n, f \in Nat : DecidedBy(RuleOf(vote), row.outcome, n, f)
      PROVE  VoteIInv'
  <2>1. /\ vote' = row /\ L!Finish(q)
        /\ UNCHANGED <<ballots, lateEdit, ruleEdited, stragglers, latePicks>>
        /\ (crossed => crossed') /\ (~ crossed' => vote.status = requests[q].status)
    BY <1>w DEF L!SetStatus
  <2>2. Column' = Column
    BY <1>w, <2>1 DEF Column
  <2>3. CountKept /\ vote.status = "draft" => ~ L!Closing
    BY DEF CountKept, L!Closing
  <2> QED BY <1>f, <1>w, <2>1, <2>2, <2>3
<1>1. ASSUME NEW q \in Requests, L!ReadToUpdate(q) PROVE VoteIInv'
  <2>1. PICK t : t = [step |-> "update"]
    OBVIOUS
  <2>2. L!ReadBy(q, t) /\ t.step = "update"
    BY <1>1, <2>1 DEF L!ReadToUpdate
  <2> QED BY <1>r, <2>2
<1>2. ASSUME NEW q \in Requests, L!ReadToSecond(q) PROVE VoteIInv'
  <2>1. PICK t : t = [step |-> "second"]
    OBVIOUS
  <2>2. L!ReadBy(q, t) /\ t.step = "second"
    BY <1>2, <2>1 DEF L!ReadToSecond
  <2> QED BY <1>r, <2>2
<1>3. ASSUME NEW q \in Requests, NEW count \in 0 .. L!Cardinality(Items), L!ReadToOpen(q, count)
      PROVE  VoteIInv'
  <2>1. PICK t : t = [step |-> "open", status |-> vote.status, count |-> count]
    OBVIOUS
  <2>2. L!ReadBy(q, t) /\ t.step = "open" /\ t.status = "draft" /\ t.count \in Nat
    BY <1>3, <2>1 DEF L!ReadToOpen
  <2> QED BY <1>r, <2>2
<1>4. ASSUME NEW q \in Requests, L!ReadToClose(q) PROVE VoteIInv'
  <2>1. PICK t : t = [step |-> "close", status |-> vote.status, count |-> L!BallotCount,
                      row |-> vote]
    OBVIOUS
  <2>2. /\ L!ReadBy(q, t) /\ t.step = "close" /\ t.status = "open" /\ vote.status # "draft"
        /\ t.count = L!BallotCount /\ t.row = vote
    BY <1>4, <2>1 DEF L!ReadToClose
  <2> QED BY <1>r, <2>2
<1>5. ASSUME NEW q \in Requests, L!ReadToCancel(q) PROVE VoteIInv'
  <2>1. PICK t : t = [step |-> "cancel", status |-> vote.status]
    OBVIOUS
  <2>2. L!ReadBy(q, t) /\ t.step = "cancel" /\ t.status \in {"draft", "open"}
    BY <1>5, <2>1 DEF L!ReadToCancel
  <2> QED BY <1>r, <2>2
<1>6. ASSUME NEW q \in Requests, NEW u \in Items, NEW p \in Items, NEW picks \in Picks,
             L!ReadToCast(q, u, p, picks)
      PROVE  VoteIInv'
  <2>1. PICK t : t = [step |-> "cast", user |-> u, voter |-> p, key |-> L!KeyOf(u, p),
                      picks |-> picks]
    OBVIOUS
  <2>2. /\ L!ReadBy(q, t) /\ t.step = "cast" /\ t.user = u /\ t.voter = p /\ t.picks = picks
        /\ t.key = Column /\ t.key \in L!Keys /\ vote.status = "open"
    BY <1>6, <2>1 DEF L!ReadToCast, L!KeyOf, Column, L!Keys
  <2> QED BY <1>r, <2>2
<1>7. ASSUME NEW q \in Requests, NEW g, NEW u, L!ReadToGrant(q, g, u) PROVE VoteIInv'
  <2>1. PICK t : t = [step |-> "grant", user |-> u, voter |-> g]
    OBVIOUS
  <2>2. L!ReadBy(q, t) /\ t.step = "grant"
    BY <1>7, <2>1 DEF L!ReadToGrant
  <2> QED BY <1>r, <2>2
<1>8. ASSUME NEW q \in Requests, NEW g, L!ReadToRevoke(q, g) PROVE VoteIInv'
  <2>1. PICK t : t = [step |-> "revoke", voter |-> g]
    OBVIOUS
  <2>2. L!ReadBy(q, t) /\ t.step = "revoke"
    BY <1>8, <2>1 DEF L!ReadToRevoke
  <2> QED BY <1>r, <2>2
<1>9. ASSUME NEW q \in Requests, NEW exco \in BOOLEAN, NEW anonymous \in BOOLEAN,
             NEW multiple \in BOOLEAN, NEW quorum \in QuorumPercents, NEW pc \in PassPercents,
             NEW options \in OptionLists,
             L!Update(q, exco, anonymous, multiple, quorum, pc, options)
      PROVE  VoteIInv'
  <2>1. /\ vote' = [vote EXCEPT !.exco = exco, !.anonymous = anonymous,
                                !.allowMultiple = multiple, !.quorumPercent = quorum,
                                !.passThresholdPercent = pc, !.options = options]
        /\ lateEdit' = (lateEdit \/ vote.status # "draft")
        /\ ruleEdited' = (ruleEdited \/ L!Closing \/ vote.status \in {"closed", "cancelled"})
        /\ L!Finish(q) /\ UNCHANGED <<ballots, stragglers, latePicks, crossed>>
    BY <1>9 DEF L!Update
  <2>2. vote' \in VoteRows /\ vote'.status = vote.status
    BY <1>k, <2>1 DEF VoteRows
  <2>3. /\ lateEdit => lateEdit'
        /\ ruleEdited => ruleEdited'
        /\ ~ lateEdit' => vote.status = "draft"
        /\ ~ ruleEdited' => ~ L!Closing /\ vote'.status # "closed"
    BY <2>1, <2>2
  <2> QED BY <1>f, <2>1, <2>2, <2>3
<1>10. ASSUME NEW q \in Requests, L!Second(q) PROVE VoteIInv'
  <2>1. /\ vote' = [vote EXCEPT !.seconded = TRUE]
        /\ L!Finish(q) /\ UNCHANGED <<ballots, stragglers, latePicks, crossed, lateEdit, ruleEdited>>
    BY <1>10 DEF L!Second, L!history
  <2>2. /\ vote' \in VoteRows /\ vote'.status = vote.status /\ vote'.outcome = vote.outcome
        /\ RuleOf(vote') = RuleOf(vote)
        /\ vote'.exco = vote.exco /\ vote'.anonymous = vote.anonymous
    BY <1>k, <2>1 DEF VoteRows, RuleOf
  <2>3. Column' = Column
    BY <2>2 DEF Column
  <2>4. CountKept /\ vote'.status = "closed" =>
          \E n, f \in Nat : DecidedBy(RuleOf(vote), vote'.outcome, n, f)
    BY <2>2 DEF CountKept
  <2> QED BY <1>f, <2>1, <2>2, <2>3, <2>4
<1>11. ASSUME NEW q \in Requests, L!Open(q) PROVE VoteIInv'
  <2>1. PICK row : row = [vote EXCEPT !.status = "open",
                                      !.eligibleCountSnapshot = requests[q].count]
    OBVIOUS
  <2>2. L!SetStatus(q, row) /\ requests[q].status = "draft" /\ requests[q].count \in Nat
    BY <1>0, <1>11, <2>1 DEF L!Open, VoteRequestTyped
  <2>3. /\ row \in VoteRows /\ row.status = "open" /\ row.exco = vote.exco
        /\ row.anonymous = vote.anonymous
    BY <1>k, <2>1, <2>2 DEF VoteRows, L!Statuses
  <2> QED BY <1>w, <2>2, <2>3
<1>12. ASSUME NEW q \in Requests, L!Close(q) PROVE VoteIInv'
  <2> DEFINE outcome == L!OutcomeOf(requests[q].row, requests[q].count)
  <2>1. PICK row : row = [vote EXCEPT !.status = "closed", !.outcome = outcome]
    OBVIOUS
  <2>2. L!SetStatus(q, row) /\ L!At(q, "close") /\ requests[q].count \in Nat
    BY <1>0, <1>12, <2>1 DEF L!Close, VoteRequestTyped
  <2>3. outcome \in L!Outcomes
    BY DEF L!OutcomeOf, L!Outcomes
  <2> HIDE DEF outcome
  <2>4. /\ row \in VoteRows /\ row.status = "closed" /\ row.exco = vote.exco
        /\ row.anonymous = vote.anonymous /\ row.outcome = outcome
        /\ RuleOf(row) = RuleOf(vote)
    BY <1>k, <2>1, <2>3 DEF VoteRows, L!Statuses, RuleOf
  <2>5. ASSUME CountKept PROVE DecidedBy(RuleOf(vote), outcome, requests[q].count, FirstTotal)
    <3>1. /\ requests[q].count <= L!BallotCount
          /\ L!BallotCount <= requests[q].count + stragglers
          /\ RuleOf(requests[q].row) = RuleOf(vote)
      BY <2>2, <2>5 DEF CountKept
    <3>2. FirstTotal \in Nat /\ FirstLate \in Nat
      BY <1>0, VoteFields
    <3>3. /\ requests[q].row.quorumPercent = vote.quorumPercent
          /\ requests[q].row.passThresholdPercent = vote.passThresholdPercent
          /\ requests[q].row.options = vote.options
          /\ requests[q].row.eligibleCountSnapshot = vote.eligibleCountSnapshot
      BY <3>1 DEF RuleOf
    <3>4. outcome = Verdict(RuleOf(vote), requests[q].count, FirstTotal)
      BY <3>3 DEF outcome, L!OutcomeOf, Verdict, RuleOf, FirstTotal
    <3> QED BY <3>1, <3>2, <3>4 DEF DecidedBy
  <2>6. CountKept => \E n, f \in Nat : DecidedBy(RuleOf(vote), row.outcome, n, f)
    BY <1>0, <2>2, <2>4, <2>5, VoteFields
  <2> QED BY <1>w, <2>2, <2>4, <2>6
<1>13. ASSUME NEW q \in Requests, L!Cancel(q) PROVE VoteIInv'
  <2>1. PICK row : row = [vote EXCEPT !.status = "cancelled"]
    OBVIOUS
  <2>2. L!SetStatus(q, row)
    BY <1>13, <2>1 DEF L!Cancel
  <2>3. /\ row \in VoteRows /\ row.status = "cancelled" /\ row.exco = vote.exco
        /\ row.anonymous = vote.anonymous
        /\ RuleOf(row) = RuleOf(vote)
    BY <1>k, <2>1 DEF VoteRows, L!Statuses, RuleOf
  <2> QED BY <1>w, <2>2, <2>3
<1>14. ASSUME NEW q \in Requests, L!CastBallot(q) PROVE VoteIInv'
  <2> DEFINE t == requests[q]
             tardy == L!Closing \/ vote.status # "open"
             b == [picks |-> t.picks, castByUserId |-> t.user]
  <2>1. /\ L!At(q, "cast") /\ L!Finish(q) /\ UNCHANGED <<vote, crossed, lateEdit, ruleEdited>>
        /\ \/ /\ ballots[t.key][t.voter] = L!NoBallot
              /\ ballots' = [ballots EXCEPT ![t.key][t.voter] = b]
              /\ stragglers' = IF tardy THEN stragglers + 1 ELSE stragglers
              /\ latePicks' = IF tardy THEN [o \in Options |-> latePicks[o] + t.picks[o]]
                                      ELSE latePicks
           \/ UNCHANGED <<ballots, stragglers, latePicks>>
    BY <1>14 DEF L!CastBallot
  <2>2. CASE UNCHANGED <<ballots, stragglers, latePicks>>
    <3>1. /\ UNCHANGED Column
          /\ CountKept /\ vote'.status = "closed" =>
               \E n, f \in Nat : DecidedBy(RuleOf(vote), vote'.outcome, n, f)
      BY <2>1 DEF Column, CountKept
    <3> QED BY <1>f, <1>k, <2>1, <2>2, <3>1
  <2>3. CASE /\ ballots[t.key][t.voter] = L!NoBallot
             /\ ballots' = [ballots EXCEPT ![t.key][t.voter] = b]
             /\ stragglers' = IF tardy THEN stragglers + 1 ELSE stragglers
             /\ latePicks' = IF tardy THEN [o \in Options |-> latePicks[o] + t.picks[o]]
                                     ELSE latePicks
    <3>1. /\ t.user \in Items /\ t.voter \in Items /\ t.key \in L!Keys
          /\ t.picks \in [Options -> Nat] /\ t.picks # L!NoPicks
      BY <1>0, <2>1, CaseworkAssumption DEF VoteRequestTyped, L!NoPicks
    <3>2. b \in BallotRows /\ b # L!NoBallot /\ b.picks = t.picks
      BY <3>1 DEF BallotRows, L!NoBallot
    <3>3. /\ vote \in VoteRows /\ ballots \in [L!Keys -> [Items -> BallotRows]]
          /\ stragglers \in Nat /\ latePicks \in [Options -> Nat]
      BY <1>0 DEF VoteTyped
    <3> HIDE DEF b
    <3>4. /\ stragglers' \in Nat /\ latePicks' \in [Options -> Nat]
          /\ ballots' \in [L!Keys -> [Items -> BallotRows]]
      BY <2>3, <3>1, <3>2, <3>3
    <3>5. VoteTyped'
      BY <2>1, <3>3, <3>4 DEF VoteTyped
    <3>6. /\ L!BallotCount' = L!BallotCount + 1
          /\ \A o \in Options : L!OptionTotal(o)' = L!OptionTotal(o) + t.picks[o]
      BY <1>0, <2>3, <3>1, <3>2, <3>5, BallotAdded
    <3>7. /\ RequestsOK' /\ requests'[q].step = "idle"
          /\ \A o \in Requests \ {q} : requests'[o] = requests[o]
      BY <1>0, <1>i, <2>1, MoveEffect DEF L!Finish, L!Continue
    <3>8. \A o \in Requests : VoteRequestTyped(o)'
      BY <1>0, <3>7 DEF VoteRequestTyped, L!At
    <3>9. ColumnKept => ColumnKept'
      <4>1. HAVE ColumnKept
      <4>2. \A k \in L!Keys, p \in Items :
              <<k, p>> # <<t.key, t.voter>> => ballots'[k][p] = ballots[k][p]
        BY <2>3, <3>1, <3>3
      <4>3. t.key = Column /\ vote.status # "draft"
        BY <2>1, <4>1 DEF ColumnKept
      <4>4. \A k \in L!Keys, p \in Items :
              ballots'[k][p] # L!NoBallot => k = Column /\ vote.status # "draft"
        BY <4>1, <4>2, <4>3 DEF ColumnKept
      <4>5. Column' = Column /\ vote' = vote /\ L!NoBallot' = L!NoBallot
        BY <2>1 DEF Column
      <4>6. \A o \in Requests : L!At(o, "cast")' => L!At(o, "cast") /\ requests'[o] = requests[o]
        BY <3>7 DEF L!At
      <4> QED BY <4>1, <4>4, <4>5, <4>6 DEF ColumnKept
    <3>10. L!BallotCount \in Nat /\ stragglers' <= L!BallotCount'
      BY <1>0, <2>3, <3>3, <3>6, CountsAreNat
    <3> DEFINE first == Head(vote.options)
    <3>11. /\ first \in Options /\ FirstTotal \in Nat /\ FirstLate \in Nat
           /\ t.picks[first] \in Nat
      BY <1>0, <3>1, VoteFields
    <3>12. /\ FirstTotal' = FirstTotal + t.picks[first]
           /\ FirstLate' = IF tardy THEN FirstLate + t.picks[first] ELSE FirstLate
      BY <2>1, <2>3, <3>6, <3>11 DEF FirstTotal, FirstLate
    <3>13. CountKept => CountKept'
      <4>1. HAVE CountKept
      <4>2. \A o \in Requests : L!At(o, "close")' => L!At(o, "close") /\ requests'[o] = requests[o]
        BY <3>7 DEF L!At
      <4>3. ASSUME NEW o \in Requests, L!At(o, "close")'
            PROVE  /\ vote.status # "draft"
                   /\ RuleOf(requests'[o].row) = RuleOf(vote)
                   /\ requests'[o].count <= L!BallotCount'
                   /\ L!BallotCount' <= requests'[o].count + stragglers'
        <5>1. L!At(o, "close") /\ requests'[o] = requests[o] /\ L!Closing /\ requests[o].count \in Nat
          BY <1>0, <4>2, <4>3 DEF L!Closing, VoteRequestTyped
        <5>2. /\ vote.status # "draft" /\ RuleOf(requests[o].row) = RuleOf(vote)
              /\ requests[o].count <= L!BallotCount
              /\ L!BallotCount <= requests[o].count + stragglers
          BY <4>1, <5>1 DEF CountKept
        <5>3. stragglers' = stragglers + 1
          BY <2>3, <5>1
        <5> QED BY <3>3, <3>6, <3>10, <5>1, <5>2, <5>3
      <4>4. ASSUME vote.status = "closed"
            PROVE  \E n, f \in Nat : DecidedBy(RuleOf(vote), vote.outcome, n, f)'
        <5>1. PICK n \in Nat, f \in Nat : DecidedBy(RuleOf(vote), vote.outcome, n, f)
          BY <4>1, <4>4 DEF CountKept
        <5>2. /\ n <= L!BallotCount /\ L!BallotCount <= n + stragglers
              /\ f <= FirstTotal /\ FirstTotal <= f + FirstLate
              /\ vote.outcome = Verdict(RuleOf(vote), n, f)
          BY <5>1 DEF DecidedBy
        <5>3. tardy
          BY <4>4
        <5>4. /\ n <= L!BallotCount' /\ L!BallotCount' <= n + stragglers'
              /\ f <= FirstTotal' /\ FirstTotal' <= f + FirstLate'
          <6> HIDE DEF tardy, first
          <6> QED BY <2>3, <3>3, <3>6, <3>10, <3>11, <3>12, <5>2, <5>3
        <5>5. DecidedBy(RuleOf(vote), vote.outcome, n, f)'
          <6>1. (vote.outcome = Verdict(RuleOf(vote), n, f))'
            BY <2>1, <5>2 DEF Verdict, RuleOf, L!QuorumThreshold, L!CeilPercent
          <6> QED BY <5>4, <6>1 DEF DecidedBy, RuleOf
        <5> QED BY <5>5
      <4>5. CountKept' = (/\ \A o \in Requests : L!At(o, "close")' =>
                              /\ vote.status # "draft"
                              /\ RuleOf(requests'[o].row) = RuleOf(vote)
                              /\ requests'[o].count <= L!BallotCount'
                              /\ L!BallotCount' <= requests'[o].count + stragglers'
                          /\ vote.status = "closed" =>
                              \E n, f \in Nat : DecidedBy(RuleOf(vote), vote.outcome, n, f)')
        BY <2>1 DEF CountKept, RuleOf
      <4> QED BY <4>3, <4>4, <4>5
    <3> QED BY <1>0, <2>1, <3>5, <3>7, <3>8, <3>9, <3>10, <3>13 DEF VoteIInv
  <2> QED BY <2>1, <2>2, <2>3
<1>15. ASSUME NEW q \in Requests, L!GrantProxy(q) \/ L!RevokeProxy(q) \/ L!Abort(q) PROVE VoteIInv'
  <2>1. L!Finish(q) /\ UNCHANGED <<vote, ballots, crossed, lateEdit, ruleEdited, stragglers, latePicks>>
    BY <1>15 DEF L!GrantProxy, L!RevokeProxy, L!Abort, L!history
  <2>2. /\ UNCHANGED Column
        /\ CountKept /\ vote'.status = "closed" =>
             \E n, f \in Nat : DecidedBy(RuleOf(vote), vote'.outcome, n, f)
    BY <2>1 DEF Column, CountKept
  <2> QED BY <1>f, <1>k, <2>1, <2>2
<1> QED BY <1>1, <1>2, <1>3, <1>4, <1>5, <1>6, <1>7, <1>8, <1>9, <1>10, <1>11, <1>12, <1>13, <1>14,
           <1>15 DEF L!Next, L!StaffReads, L!VoterReads, L!Write

-----------------------------------------------------------------------------
(* Idempotency: a call sent again under its key. *)

\* What a call may be told, and which run of the handler it is told of.
Answers == [kind : {"ok", "refused", "failed"}, run : Nat]

\* The request is running the handler, or storing its response.
Runs(q) == requests[q].step \in {"handle", "store"}

\* The types of the variables.
CallTyped ==
    /\ runCount \in Nat /\ thrown \in Nat /\ stored \in Nat
    /\ overran \in BOOLEAN /\ lost \in BOOLEAN
    /\ told \subseteq Answers

\* What a request has to store or to say.
CallRequestTyped(q) ==
    /\ K!At(q, "store") => requests[q] \in [step : {"store"}, answer : Answers]
    /\ K!At(q, "answered") => requests[q] \in [step : {"answered"}, answer : Answers]

\* A run stands: it has done its work, and has not thrown.
Standing == runCount = thrown + 1

\* An answer tells of the run that stands, or of no such run.
Truthful(answer) ==
    IF answer.kind = "ok" THEN Standing /\ answer.run = thrown + 1 ELSE answer.run <= thrown

\* A handler runs only before a run stands.
CallRequestOK(q) ==
    /\ K!At(q, "handle") => ~ Standing
    /\ requests[q].step \in {"store", "answered"} => Truthful(requests[q].answer)
    /\ K!At(q, "store") => requests[q].answer.kind = "ok"

\* The handlers do not overlap, and what has run is stored, or is going to be.
CallSound ==
    /\ \A q, o \in Requests : Runs(q) /\ Runs(o) => q = o
    /\ \A q \in Requests : CallRequestOK(q)
    /\ runCount = thrown \/ Standing
    /\ stored # 0 => Standing /\ stored = thrown + 1
    /\ Standing => stored # 0 \/ \E q \in Requests : K!At(q, "store")
    /\ \A answer \in told : Truthful(answer)

\* The inductive invariant.
CallIInv ==
    /\ RequestsOK /\ CallTyped
    /\ \A q \in Requests : CallRequestTyped(q)
    /\ overran \/ lost \/ CallSound

\* The invariant gives the property.
LEMMA CallSafe == CallIInv => K!RetriesAreSafe
BY DEF CallIInv, CallSound, CallTyped, Truthful, Standing, K!RetriesAreSafe

\* Before the first call the invariant holds.
LEMMA CallInit == K!Init => CallIInv
<1> SUFFICES ASSUME K!Init PROVE CallIInv
  OBVIOUS
<1>1. RequestsOK /\ \A q \in Requests : K!At(q, "idle")
  BY DEF K!Init, RequestsOK, K!NoRequests, K!Idle, K!At
<1>2. runCount = 0 /\ thrown = 0 /\ stored = 0 /\ told = {} /\ overran = FALSE /\ lost = FALSE
  BY DEF K!Init
<1>3. CallTyped
  BY <1>2 DEF CallTyped
<1>4. \A q \in Requests : CallRequestTyped(q) /\ CallRequestOK(q) /\ ~ Runs(q)
  BY <1>1 DEF CallRequestTyped, CallRequestOK, Runs, K!At
<1>5. CallSound
  BY <1>2, <1>4 DEF CallSound, Standing
<1> QED BY <1>1, <1>3, <1>4, <1>5 DEF CallIInv

\* A step in which no handler begins or commits, and no response is stored.
LEMMA CallFrame ==
    ASSUME CallIInv, NEW q \in Requests, NEW t, requests' = [requests EXCEPT ![q] = t],
           t.step \in {"idle", "look up", "answered"},
           t.step = "answered" => t \in [step : {"answered"}, answer : Answers],
           overran' = overran, lost' \in BOOLEAN, lost => lost',
           ~ lost' /\ ~ overran => ~ K!At(q, "store"),
           ~ overran /\ ~ lost /\ t.step = "answered" => Truthful(t.answer),
           UNCHANGED <<runCount, thrown, stored, told>>
    PROVE  CallIInv'
<1>1. /\ RequestsOK' /\ requests'[q] = t
      /\ \A o \in Requests \ {q} : requests'[o] = requests[o]
  BY MoveEffect DEF CallIInv
<1>2. CallTyped' /\ \A o \in Requests : CallRequestTyped(o)'
  BY <1>1 DEF CallIInv, CallTyped, CallRequestTyped, K!At
<1>3. ASSUME ~ overran', ~ lost' PROVE CallSound'
  <2>1. CallSound
    BY <1>3 DEF CallIInv
  <2>2. \A o \in Requests : (Runs(o)' => Runs(o)) /\ (K!At(o, "store") => K!At(o, "store")')
    BY <1>1, <1>3 DEF Runs, K!At
  <2>3. ASSUME NEW o \in Requests PROVE CallRequestOK(o)'
    <3>1. CASE o # q
      BY <1>1, <1>3, <2>1, <3>1 DEF CallSound, CallRequestOK, K!At, Truthful, Standing
    <3>2. CASE o = q
      BY <1>1, <1>3, <3>2 DEF CallRequestOK, K!At, Truthful, Standing
    <3> QED BY <3>1, <3>2
  <2> QED BY <1>3, <2>1, <2>2, <2>3 DEF CallSound, Standing, Truthful
<1> QED BY <1>1, <1>2, <1>3 DEF CallIInv

\* Every step keeps the invariant: one step per action.
LEMMA CallNext == CallIInv /\ K!Next => CallIInv'
<1> SUFFICES ASSUME CallIInv, K!Next PROVE CallIInv'
  OBVIOUS
<1>0. /\ RequestsOK /\ CallTyped /\ \A q \in Requests : CallRequestTyped(q)
      /\ ~ overran /\ ~ lost => CallSound
  BY DEF CallIInv
<1>i. K!Idle.step = "idle"
  BY DEF K!Idle
<1>1. ASSUME UNCHANGED <<requests, runCount, thrown, stored, told, overran, lost>> PROVE CallIInv'
  BY <1>0, <1>1 DEF CallIInv, RequestsOK, CallTyped, CallRequestTyped, CallSound, CallRequestOK,
                    Runs, Truthful, Standing, K!At
<1>2. ASSUME K!Call \/ K!TimeOut PROVE CallIInv'
  BY <1>1, <1>2 DEF K!Call, K!TimeOut, K!history, K!handled
<1>3. ASSUME K!Expire PROVE CallIInv'
  BY <1>0, <1>3 DEF K!Expire, K!clientVars, K!handled, CallIInv, RequestsOK, CallTyped, CallRequestTyped, K!At
<1>4. ASSUME NEW q \in Requests, K!Send(q) PROVE CallIInv'
  <2>1. PICK t : t = [step |-> "look up"]
    OBVIOUS
  <2>2. /\ requests' = [requests EXCEPT ![q] = t] /\ t.step = "look up" /\ K!At(q, "idle")
        /\ UNCHANGED <<runCount, thrown, stored, told, overran, lost>>
    BY <1>4, <2>1 DEF K!Send, K!Begin, K!history, K!handled
  <2> QED BY <1>0, <2>2, CallFrame DEF K!At, CallTyped
<1>5. ASSUME NEW q \in Requests, K!Receive(q) PROVE CallIInv'
  <2>1. /\ requests[q].step \in {"store", "answered"}
        /\ told' \in {told, told \cup {requests[q].answer}}
        /\ UNCHANGED <<requests, runCount, thrown, stored, overran, lost>>
    BY <1>5 DEF K!Receive, K!history, K!handled
  <2>2. requests[q].answer \in Answers
    BY <1>0, <2>1 DEF CallRequestTyped, K!At
  <2>3. RequestsOK' /\ CallTyped' /\ \A o \in Requests : CallRequestTyped(o)'
    BY <1>0, <2>1, <2>2 DEF RequestsOK, CallTyped, CallRequestTyped, K!At
  <2>4. ASSUME ~ overran', ~ lost' PROVE CallSound'
    <3>1. CallSound
      BY <1>0, <2>1, <2>4
    <3>2. Truthful(requests[q].answer)
      BY <2>1, <3>1 DEF CallSound, CallRequestOK
    <3>3. \A answer \in told' : Truthful(answer)
      BY <2>1, <3>1, <3>2 DEF CallSound
    <3>4. \A o \in Requests : CallRequestOK(o)' /\ (Runs(o)' <=> Runs(o))
      BY <2>1, <3>1 DEF CallSound, CallRequestOK, Runs, K!At, Truthful, Standing
    <3> QED BY <2>1, <3>1, <3>3, <3>4 DEF CallSound, Truthful, Standing, K!At
  <2> QED BY <2>3, <2>4 DEF CallIInv
<1>6. ASSUME NEW q \in Requests, K!LookUp(q) PROVE CallIInv'
  <2>1. CASE K!Replayable
    <3>1. PICK t : t = K!Answered("ok", stored)
      OBVIOUS
    <3>2. /\ requests' = [requests EXCEPT ![q] = t] /\ K!At(q, "look up") /\ stored # 0
          /\ UNCHANGED <<runCount, thrown, stored, told, overran, lost>>
      BY <1>6, <2>1, <3>1 DEF K!LookUp, K!Continue, K!clientVars, K!handled, K!Replayable
    <3>3. /\ t \in [step : {"answered"}, answer : Answers] /\ t.step = "answered"
          /\ t.answer.run = stored /\ t.answer.kind = "ok"
      BY <1>0, <3>1 DEF K!Answered, Answers, CallTyped
    <3>4. ~ overran /\ ~ lost => Truthful(t.answer)
      <4> QED BY <1>0, <3>2, <3>3 DEF CallSound, Truthful
    <3> QED BY <1>0, <3>2, <3>3, <3>4, CallFrame DEF K!At, CallTyped
  <2>2. CASE ~ K!Replayable
    <3>1. PICK t : t = [step |-> "handle"]
      OBVIOUS
    <3>2. /\ requests' = [requests EXCEPT ![q] = t] /\ K!At(q, "look up") /\ stored = 0
          /\ t.step = "handle"
          /\ overran' = (overran \/ K!Running # {})
          /\ UNCHANGED <<runCount, thrown, stored, told, lost>>
      BY <1>6, <2>2, <3>1 DEF K!LookUp, K!Continue, K!clientVars, K!handled, K!Replayable
    <3>3. /\ RequestsOK' /\ requests'[q] = t
          /\ \A o \in Requests \ {q} : requests'[o] = requests[o]
      BY <1>0, <3>2, MoveEffect
    <3>4. CallTyped' /\ \A o \in Requests : CallRequestTyped(o)'
      BY <1>0, <3>2, <3>3 DEF CallTyped, CallRequestTyped, K!At
    <3>5. ASSUME ~ overran', ~ lost' PROVE CallSound'
      <4>1. CallSound /\ \A o \in Requests : ~ Runs(o)
        BY <1>0, <3>2, <3>5 DEF K!Running, Runs
      <4>2. ~ Standing
        <5>1. \A o \in Requests : ~ K!At(o, "store")
          BY <4>1 DEF Runs, K!At
        <5> QED BY <3>2, <4>1, <5>1 DEF CallSound
      <4>3. \A o \in Requests : CallRequestOK(o)'
        BY <3>2, <3>3, <4>1, <4>2 DEF CallSound, CallRequestOK, Runs, K!At, Truthful, Standing
      <4>4. \A o \in Requests \ {q} : ~ Runs(o)'
        BY <3>3, <4>1 DEF Runs
      <4> QED BY <3>2, <4>1, <4>2, <4>3, <4>4 DEF CallSound, Truthful, Standing
    <3> QED BY <3>3, <3>4, <3>5 DEF CallIInv
  <2> QED BY <2>1, <2>2
<1>7. ASSUME NEW q \in Requests, K!Handle(q) PROVE CallIInv'
  <2>1. CASE /\ runCount' = runCount + 1
             /\ K!Continue(q, [step |-> "store", answer |-> [kind |-> "ok", run |-> runCount + 1]])
             /\ UNCHANGED thrown
    <3>1. PICK t : t = [step |-> "store", answer |-> [kind |-> "ok", run |-> runCount + 1]]
      OBVIOUS
    <3>2. /\ requests' = [requests EXCEPT ![q] = t] /\ K!At(q, "handle") /\ runCount' = runCount + 1
          /\ UNCHANGED <<thrown, stored, told, overran, lost>>
      BY <1>7, <2>1, <3>1 DEF K!Handle, K!Continue, K!clientVars, K!handled, K!history
    <3>3. /\ t \in [step : {"store"}, answer : Answers] /\ t.step = "store"
          /\ t.answer.run = runCount + 1 /\ t.answer.kind = "ok"
      BY <1>0, <3>1 DEF Answers, CallTyped
    <3>4. /\ RequestsOK' /\ requests'[q] = t
          /\ \A o \in Requests \ {q} : requests'[o] = requests[o]
      BY <1>0, <3>2, MoveEffect
    <3>5. CallTyped' /\ \A o \in Requests : CallRequestTyped(o)'
      BY <1>0, <3>2, <3>3, <3>4 DEF CallTyped, CallRequestTyped, K!At
    <3>6. ASSUME ~ overran', ~ lost' PROVE CallSound'
      <4>1. CallSound
        BY <1>0, <3>2, <3>6
      <4>2. runCount = thrown /\ runCount' = thrown + 1 /\ thrown' = thrown /\ stored = 0
        BY <1>0, <3>2, <4>1 DEF CallSound, CallRequestOK, CallTyped
      <4>k. ~ Standing /\ Standing'
        BY <1>0, <3>2, <4>1, <4>2 DEF CallSound, CallRequestOK, Standing
      <4>t. \A answer : Truthful(answer) => Truthful(answer)'
        BY <4>2, <4>k DEF Truthful
      <4>3. \A o \in Requests \ {q} : ~ Runs(o) /\ ~ Runs(o)'
        BY <3>2, <3>4, <4>1 DEF CallSound, Runs, K!At
      <4>4. \A o \in Requests : CallRequestOK(o)'
        <5>1. ASSUME NEW o \in Requests \ {q} PROVE CallRequestOK(o)'
          BY <3>4, <4>1, <4>3, <4>t, <5>1 DEF CallSound, CallRequestOK, Runs, K!At
        <5>2. CallRequestOK(q)'
          BY <3>3, <3>4, <4>2, <4>k DEF CallRequestOK, K!At, Truthful
        <5> QED BY <5>1, <5>2
      <4>5. K!At(q, "store")'
        BY <3>3, <3>4 DEF K!At
      <4> QED BY <3>2, <4>1, <4>2, <4>3, <4>4, <4>5, <4>k, <4>t DEF CallSound
    <3> QED BY <3>4, <3>5, <3>6 DEF CallIInv
  <2>2. ASSUME NEW kind \in {"refused", "failed"}, K!Continue(q, K!Answered(kind, runCount)), UNCHANGED K!handled
        PROVE  CallIInv'
    <3>1. PICK t : t = K!Answered(kind, runCount)
      OBVIOUS
    <3>2. /\ requests' = [requests EXCEPT ![q] = t] /\ K!At(q, "handle")
          /\ UNCHANGED <<runCount, thrown, stored, told, overran, lost>>
      BY <1>7, <2>2, <3>1 DEF K!Handle, K!Continue, K!clientVars, K!handled, K!history
    <3>3. /\ t \in [step : {"answered"}, answer : Answers] /\ t.step = "answered"
          /\ t.answer.run = runCount /\ t.answer.kind # "ok"
      BY <1>0, <3>1 DEF K!Answered, Answers, CallTyped
    <3>4. ~ overran /\ ~ lost => Truthful(t.answer)
      <4>1. ASSUME ~ overran, ~ lost PROVE runCount = thrown
        BY <1>0, <3>2, <4>1 DEF CallSound, CallRequestOK
      <4> QED BY <1>0, <3>3, <4>1 DEF Truthful, CallTyped
    <3> QED BY <1>0, <3>2, <3>3, <3>4, CallFrame DEF K!At, CallTyped
  <2>3. CASE /\ runCount' = runCount + 1 /\ thrown' = thrown + 1
             /\ K!Continue(q, K!Answered("failed", runCount + 1))
    <3>1. PICK t : t = K!Answered("failed", runCount + 1)
      OBVIOUS
    <3>2. /\ requests' = [requests EXCEPT ![q] = t] /\ K!At(q, "handle")
          /\ UNCHANGED <<stored, told, overran, lost>>
      BY <1>7, <2>3, <3>1 DEF K!Handle, K!Continue, K!clientVars, K!history
    <3>3. /\ t \in [step : {"answered"}, answer : Answers] /\ t.step = "answered"
          /\ t.answer.run = runCount + 1 /\ t.answer.kind = "failed"
      BY <1>0, <3>1 DEF K!Answered, Answers, CallTyped
    <3>4. /\ RequestsOK' /\ requests'[q] = t
          /\ \A o \in Requests \ {q} : requests'[o] = requests[o]
      BY <1>0, <3>2, MoveEffect
    <3>5. CallTyped' /\ \A o \in Requests : CallRequestTyped(o)'
      BY <1>0, <2>3, <3>2, <3>3, <3>4 DEF CallTyped, CallRequestTyped, K!At
    <3>6. ASSUME ~ overran', ~ lost' PROVE CallSound'
      <4>1. CallSound
        BY <1>0, <3>2, <3>6
      <4>2. ~ Standing /\ runCount = thrown /\ stored = 0
        BY <1>0, <3>2, <4>1 DEF CallSound, CallRequestOK, CallTyped
      <4>3. runCount' = thrown' /\ ~ Standing'
        BY <1>0, <2>3, <4>2 DEF CallTyped, Standing
      <4>4. \A answer : Truthful(answer) /\ answer.run \in Nat => Truthful(answer)'
        BY <1>0, <2>3, <4>2, <4>3 DEF Truthful, CallTyped
      <4>5. \A answer \in told : Truthful(answer)'
        BY <1>0, <4>1, <4>4 DEF CallSound, CallTyped, Answers
      <4>6. \A o \in Requests \ {q} : ~ Runs(o) /\ ~ Runs(o)'
        BY <3>2, <3>4, <4>1 DEF CallSound, Runs, K!At
      <4>7. ~ Runs(q)' /\ Truthful(t.answer)'
        BY <1>0, <2>3, <3>3, <3>4, <4>3 DEF Runs, Truthful, CallTyped
      <4>8. \A o \in Requests : CallRequestOK(o)'
        <5>1. ASSUME NEW o \in Requests \ {q} PROVE CallRequestOK(o)'
          <6>1. requests[o].step = "answered" => requests[o].answer.run \in Nat
            BY <1>0 DEF CallRequestTyped, K!At, Answers
          <6> QED BY <3>4, <4>1, <4>4, <4>6, <6>1 DEF CallSound, CallRequestOK, Runs, K!At
        <5>2. CallRequestOK(q)'
          BY <3>3, <3>4, <4>7 DEF CallRequestOK, K!At
        <5> QED BY <5>1, <5>2
      <4> QED BY <3>2, <4>2, <4>3, <4>5, <4>6, <4>7, <4>8 DEF CallSound
    <3> QED BY <3>4, <3>5, <3>6 DEF CallIInv
  <2> QED BY <1>7, <2>1, <2>2, <2>3 DEF K!Handle
<1>8. ASSUME NEW q \in Requests, K!Store(q) PROVE CallIInv'
  <2>1. PICK t : t = [requests[q] EXCEPT !.step = "answered"]
    OBVIOUS
  <2>2. /\ requests' = [requests EXCEPT ![q] = t] /\ K!At(q, "store")
        /\ UNCHANGED <<runCount, thrown, told, overran>>
        /\ \/ stored' = requests[q].answer.run /\ UNCHANGED lost
           \/ lost' = TRUE /\ UNCHANGED stored
    BY <1>8, <2>1 DEF K!Store, K!Continue, K!clientVars, K!handled
  <2>3. /\ t \in [step : {"answered"}, answer : Answers] /\ t.step = "answered"
        /\ t.answer = requests[q].answer
    BY <1>0, <2>1, <2>2 DEF CallRequestTyped
  <2>4. /\ RequestsOK' /\ requests'[q] = t
        /\ \A o \in Requests \ {q} : requests'[o] = requests[o]
    BY <1>0, <2>2, MoveEffect
  <2>5. CallTyped' /\ \A o \in Requests : CallRequestTyped(o)'
    <3>1. requests[q].answer.run \in Nat
      BY <2>3 DEF Answers
    <3> QED BY <1>0, <2>2, <2>3, <2>4, <3>1 DEF CallTyped, CallRequestTyped, K!At
  <2>6. ASSUME ~ overran', ~ lost' PROVE CallSound'
    <3>1. CallSound /\ stored' = requests[q].answer.run
      BY <1>0, <2>2, <2>6
    <3>2. Standing /\ stored' = thrown + 1 /\ Truthful(t.answer)
      <4>1. CallRequestOK(q)
        BY <3>1 DEF CallSound
      <4>2. requests[q].answer.kind = "ok" /\ Truthful(requests[q].answer)
        BY <2>2, <4>1 DEF CallRequestOK, K!At
      <4> QED BY <2>3, <3>1, <4>2 DEF Truthful
    <3>n. thrown \in Nat /\ thrown + 1 # 0
      BY <1>0 DEF CallTyped
    <3>3. \A o \in Requests : CallRequestOK(o)' /\ (Runs(o)' => Runs(o))
      BY <2>2, <2>3, <2>4, <3>1, <3>2 DEF CallSound, CallRequestOK, Runs, K!At, Truthful, Standing
    <3> QED BY <2>2, <3>1, <3>2, <3>3, <3>n DEF CallSound, Truthful, Standing
  <2> QED BY <2>4, <2>5, <2>6 DEF CallIInv
<1>9. ASSUME NEW q \in Requests, K!Respond(q) PROVE CallIInv'
  <2>1. /\ requests' = [requests EXCEPT ![q] = K!Idle] /\ K!At(q, "answered")
        /\ UNCHANGED <<runCount, thrown, stored, told, overran, lost>>
    BY <1>9 DEF K!Respond, K!Finish, K!Continue, K!clientVars, K!handled, K!history
  <2> QED BY <1>0, <1>i, <2>1, CallFrame DEF K!At, CallTyped
<1>10. ASSUME NEW q \in Requests, K!Abort(q) PROVE CallIInv'
  <2>1. /\ requests' = [requests EXCEPT ![q] = K!Idle] /\ lost' = (lost \/ K!At(q, "store"))
        /\ UNCHANGED <<runCount, thrown, stored, told, overran>>
    BY <1>10 DEF K!Abort, K!Finish, K!Continue, K!clientVars, K!handled
  <2> QED BY <1>0, <1>i, <2>1, CallFrame DEF K!At, CallTyped
<1> QED BY <1>2, <1>3, <1>4, <1>5, <1>6, <1>7, <1>8, <1>9, <1>10 DEF K!Next

-----------------------------------------------------------------------------
(* Invites: an address and its account. *)

\* The statuses of an invitation, and that of none.
InviteStatuses == {"none", "pending", "revoked", "expired", "redeemed"}

\* What the row of an invitation holds.
InviteRows == [status : InviteStatuses, lapsed : BOOLEAN, link : Nat]

\* The types of the variables.
InviteTyped ==
    /\ invites \in [Items -> InviteRows]
    /\ account \in BOOLEAN /\ doubled \in BOOLEAN
    /\ granted \subseteq Items

\* What was read, and will be written.
InviteRequestOK(q) ==
    requests[q].step \in {"revoked", "expired", "resend", "redeem"} =>
        requests[q].invite \in Items /\ requests[q].status = "pending"

\* An account comes of one invitation, which is redeemed; what was ended is not
\* redeemed; unless a request crossed.
InviteOK(i) ==
    /\ invites[i].status = "redeemed" => i \in granted
    /\ i \notin mixed =>
          /\ i \in granted => invites[i].status = "redeemed"
          /\ i \in ended => invites[i].status \in {"revoked", "expired"}

\* The inductive invariant.
InviteIInv ==
    /\ RequestsOK /\ InviteTyped
    /\ \A q \in Requests : InviteRequestOK(q)
    /\ \A i \in Items : InviteOK(i)
    /\ granted # {} => account
    /\ \A i, j \in granted : i = j
    /\ ~ doubled => \A i, j \in I!Pending : i = j

\* The invariant gives the property.
LEMMA InviteSafe == InviteIInv => I!InviteTies
<1> SUFFICES ASSUME InviteIInv PROVE I!InviteTies
  OBVIOUS
<1>1. Cardinality(granted) \in {0, 1}
  BY AtMostOne DEF InviteIInv
<1>2. ~ doubled => Cardinality(I!Pending) \in {0, 1}
  BY AtMostOne DEF InviteIInv
<1>3. Cardinality(granted) <= 1
  BY <1>1
<1>4. ~ doubled => Cardinality(I!Pending) <= 1
  BY <1>2
<1> QED BY <1>3, <1>4, SameCardinality DEF InviteIInv, InviteTyped, InviteOK, I!InviteTies

\* Without an invitation the invariant holds.
LEMMA InviteInit == I!Init => InviteIInv
<1> SUFFICES ASSUME I!Init PROVE InviteIInv
  OBVIOUS
<1>1. RequestsOK /\ \A q \in Requests : InviteRequestOK(q)
  BY DEF I!Init, RequestsOK, InviteRequestOK, I!NoRequests, I!Idle, I!At
<1>2. InviteTyped /\ (\A i \in Items : InviteOK(i)) /\ I!Pending = {}
  BY DEF I!Init, InviteTyped, InviteRows, InviteStatuses, InviteOK, I!Pending
<1> QED BY <1>1, <1>2 DEF I!Init, InviteIInv

\* Every step keeps the invariant: one step per action.
LEMMA InviteNext == InviteIInv /\ I!Next => InviteIInv'
<1> SUFFICES ASSUME InviteIInv, I!Next PROVE InviteIInv'
  OBVIOUS
<1>0. /\ RequestsOK /\ InviteTyped
      /\ \A q \in Requests : InviteRequestOK(q)
      /\ \A i \in Items : InviteOK(i)
      /\ granted # {} => account
      /\ \A i, j \in granted : i = j
      /\ ~ doubled => \A i, j \in I!Pending : i = j
  BY DEF InviteIInv
<1>i. I!Idle.step = "idle"
  BY DEF I!Idle
<1>m. ASSUME NEW q \in Requests, NEW t, requests' = [requests EXCEPT ![q] = t],
             t.step \in {"revoked", "expired", "resend", "redeem"} =>
                t.invite \in Items /\ t.status = "pending"
      PROVE  RequestsOK' /\ \A o \in Requests : InviteRequestOK(o)'
  <2>1. /\ RequestsOK' /\ requests'[q] = t
        /\ \A o \in Requests \ {q} : requests'[o] = requests[o]
    BY <1>0, <1>m, MoveEffect
  <2> QED BY <1>0, <1>m, <2>1 DEF InviteRequestOK
<1>k. ASSUME UNCHANGED requests
      PROVE  RequestsOK' /\ \A o \in Requests : InviteRequestOK(o)'
  BY <1>0, <1>k DEF RequestsOK, InviteRequestOK
\* The rows stay.
<1>u. ASSUME UNCHANGED <<invites, account, granted, ended, mixed, doubled>>,
             RequestsOK' /\ \A o \in Requests : InviteRequestOK(o)'
      PROVE  InviteIInv'
  BY <1>0, <1>u DEF InviteIInv, InviteTyped, InviteOK, I!Pending
<1>r. ASSUME NEW q \in Requests, NEW i \in I!Pending, NEW step, I!ReadTo(q, step, i)
      PROVE  InviteIInv'
  <2>1. PICK t : t = [step |-> step, invite |-> i,
                      status |-> invites[i].status, link |-> invites[i].link]
    OBVIOUS
  <2>2. /\ requests' = [requests EXCEPT ![q] = t]
        /\ t.invite \in Items /\ t.status = "pending"
        /\ UNCHANGED <<invites, account, granted, ended, mixed, doubled>>
    BY <1>r, <2>1 DEF I!ReadTo, I!ReadBy, I!Begin, I!Pending
  <2> QED BY <1>m, <1>u, <2>2
\* What a request does when it writes its invitation.
<1>w. ASSUME NEW q \in Requests, NEW i \in Items, i = requests[q].invite,
             NEW row \in InviteRows, I!Write(q, row), requests[q].status = "pending"
      PROVE  /\ invites' \in [Items -> InviteRows] /\ invites'[i] = row
             /\ \A j \in Items \ {i} : invites'[j] = invites[j]
             /\ mixed \subseteq mixed' /\ (\A j \in Items \ {i} : j \in mixed' => j \in mixed)
             /\ i \notin mixed' => i \notin mixed /\ invites[i].status = "pending"
             /\ UNCHANGED doubled
             /\ RequestsOK' /\ \A o \in Requests : InviteRequestOK(o)'
  <2>1. /\ invites' = [invites EXCEPT ![i] = row]
        /\ mixed' = IF I!Crossed(i, q) THEN mixed \cup {i} ELSE mixed
        /\ requests' = [requests EXCEPT ![q] = I!Idle] /\ UNCHANGED doubled
    BY <1>w DEF I!Write, I!Finish, I!Continue
  <2>2. invites[i].status # "pending" => I!Crossed(i, q)
    BY <1>w DEF I!Crossed
  <2>3. RequestsOK' /\ \A o \in Requests : InviteRequestOK(o)'
    BY <1>i, <1>m, <2>1
  <2> QED BY <1>0, <1>w, <2>1, <2>2, <2>3 DEF InviteTyped
<1>1. ASSUME NEW q \in Requests, I!ReadToCreate(q) PROVE InviteIInv'
  <2>1. PICK t : t = [step |-> "create"]
    OBVIOUS
  <2>2. /\ requests' = [requests EXCEPT ![q] = t] /\ t.step = "create"
        /\ UNCHANGED <<invites, account, granted, ended, mixed, doubled>>
    BY <1>1, <2>1 DEF I!ReadToCreate, I!ReadBy, I!Begin
  <2> QED BY <1>m, <1>u, <2>2
<1>2. ASSUME NEW q \in Requests, I!Create(q) PROVE InviteIInv'
  <2>1. PICK i \in Items :
          /\ invites[i].status = "none"
          /\ invites' = [invites EXCEPT ![i] =
                           [status |-> "pending", lapsed |-> FALSE, link |-> 1]]
    BY <1>2 DEF I!Create
  <2>2. /\ doubled' = (doubled \/ I!Pending # {}) /\ requests' = [requests EXCEPT ![q] = I!Idle]
        /\ UNCHANGED <<account, granted, ended, mixed>>
    BY <1>2 DEF I!Create, I!Finish, I!Continue
  <2>3. /\ invites' \in [Items -> InviteRows] /\ invites'[i].status = "pending"
        /\ \A j \in Items \ {i} : invites'[j] = invites[j]
    <3>1. [status |-> "pending", lapsed |-> FALSE, link |-> 1] \in InviteRows
      BY DEF InviteRows, InviteStatuses
    <3> QED BY <1>0, <2>1, <3>1 DEF InviteTyped
  <2>4. InviteTyped' /\ I!Pending' = I!Pending \cup {i}
    BY <1>0, <2>2, <2>3 DEF InviteTyped, I!Pending
  <2>5. \A j \in Items : InviteOK(j)'
    BY <1>0, <2>1, <2>2, <2>3 DEF InviteOK
  <2>6. ~ doubled' => \A j, k \in I!Pending' : j = k
    BY <2>2, <2>4
  <2> QED BY <1>0, <1>i, <1>m, <2>2, <2>4, <2>5, <2>6 DEF InviteIInv
<1>3. ASSUME NEW q \in Requests, I!Resend(q) PROVE InviteIInv'
  <2>1. PICK i \in Items : i = requests[q].invite /\ requests[q].status = "pending"
    BY <1>0, <1>3 DEF I!Resend, InviteRequestOK, I!At
  <2>2. PICK row : row = [I!Row(q) EXCEPT !.link = @ + 1, !.lapsed = FALSE]
    OBVIOUS
  <2>3. row \in InviteRows /\ row.status = invites[i].status
    <3>1. row = [status |-> invites[i].status, lapsed |-> FALSE, link |-> invites[i].link + 1]
      BY <1>0, <2>1, <2>2 DEF I!Row, InviteTyped, InviteRows
    <3>2. invites[i].status \in InviteStatuses /\ invites[i].link \in Nat
      BY <1>0 DEF InviteTyped, InviteRows
    <3> QED BY <3>1, <3>2 DEF InviteRows
  <2>4. I!Write(q, row) /\ UNCHANGED <<account, granted, ended>>
    BY <1>3, <2>2 DEF I!Resend
  <2>5. InviteTyped' /\ I!Pending' = I!Pending
    BY <1>0, <1>w, <2>1, <2>3, <2>4 DEF InviteTyped, I!Pending
  <2>6. \A j \in Items : InviteOK(j)'
    BY <1>0, <1>w, <2>1, <2>3, <2>4 DEF InviteOK
  <2> QED BY <1>0, <1>w, <2>1, <2>3, <2>4, <2>5, <2>6 DEF InviteIInv
<1>4. ASSUME NEW q \in Requests, I!End(q) PROVE InviteIInv'
  <2>1. PICK i \in Items : i = requests[q].invite /\ requests[q].status = "pending"
    BY <1>0, <1>4 DEF I!End, InviteRequestOK, I!At
  <2>2. PICK row : row = [I!Row(q) EXCEPT !.status = requests[q].step]
    OBVIOUS
  <2>3. row \in InviteRows /\ row.status \in {"revoked", "expired"}
    BY <1>0, <1>4, <2>1, <2>2 DEF I!End, I!Row, InviteTyped, InviteRows, InviteStatuses
  <2>4. I!Write(q, row) /\ ended' = ended \cup {i} /\ UNCHANGED <<account, granted>>
    BY <1>4, <2>1, <2>2 DEF I!End
  <2>5. InviteTyped' /\ I!Pending' \subseteq I!Pending
    BY <1>0, <1>w, <2>1, <2>3, <2>4 DEF InviteTyped, I!Pending
  <2>6. \A j \in Items : InviteOK(j)'
    BY <1>0, <1>w, <2>1, <2>3, <2>4 DEF InviteOK
  <2> QED BY <1>0, <1>w, <2>1, <2>3, <2>4, <2>5, <2>6 DEF InviteIInv
<1>5. ASSUME NEW q \in Requests, I!Redeem(q) PROVE InviteIInv'
  <2>1. PICK i \in Items : i = requests[q].invite /\ requests[q].status = "pending"
    BY <1>0, <1>5 DEF I!Redeem, InviteRequestOK, I!At
  <2>2. PICK row : row = [I!Row(q) EXCEPT !.status = "redeemed"]
    OBVIOUS
  <2>3. row \in InviteRows /\ row.status = "redeemed"
    BY <1>0, <2>1, <2>2 DEF I!Row, InviteTyped, InviteRows, InviteStatuses
  <2>4. /\ I!Write(q, row) /\ granted' = granted \cup {i} /\ ~ account /\ account' = TRUE
        /\ UNCHANGED ended
    BY <1>5, <2>1, <2>2 DEF I!Redeem
  <2>5. InviteTyped' /\ I!Pending' \subseteq I!Pending /\ granted' = {i}
    BY <1>0, <1>w, <2>1, <2>3, <2>4 DEF InviteTyped, I!Pending
  <2>6. \A j \in Items : InviteOK(j)'
    BY <1>0, <1>w, <2>1, <2>3, <2>4, <2>5 DEF InviteOK
  <2> QED BY <1>0, <1>w, <2>1, <2>3, <2>4, <2>5, <2>6 DEF InviteIInv
<1>6. ASSUME NEW q \in Requests, I!Abort(q) PROVE InviteIInv'
  BY <1>6, <1>i, <1>m, <1>u DEF I!Abort, I!Finish, I!Continue
<1>7. ASSUME NEW i \in Items, I!TokenLapses(i) PROVE InviteIInv'
  <2>1. /\ invites' = [invites EXCEPT ![i].lapsed = TRUE]
        /\ UNCHANGED <<account, granted, ended, mixed, doubled, requests>>
    BY <1>7 DEF I!TokenLapses
  <2>2. invites' \in [Items -> InviteRows] /\ \A j \in Items : invites'[j].status = invites[j].status
    BY <1>0, <2>1 DEF InviteTyped, InviteRows
  <2> QED BY <1>0, <1>k, <2>1, <2>2 DEF InviteIInv, InviteTyped, InviteOK, I!Pending
<1>8. ASSUME I!RunExpirySweep PROVE InviteIInv'
  <2>1. PICK due : due = {i \in I!Pending : invites[i].lapsed}
    OBVIOUS
  <2>2. /\ invites' = [i \in Items |-> IF i \in due THEN [invites[i] EXCEPT !.status = "expired"]
                                         ELSE invites[i]]
        /\ ended' = ended \cup due
        /\ UNCHANGED <<account, granted, mixed, doubled, requests>>
    BY <1>8, <2>1 DEF I!RunExpirySweep
  <2>3. /\ invites' \in [Items -> InviteRows]
        /\ \A i \in Items :
              invites'[i].status = IF i \in due THEN "expired" ELSE invites[i].status
    BY <1>0, <2>2 DEF InviteTyped, InviteRows, InviteStatuses
  <2>4. due \subseteq I!Pending /\ I!Pending' \subseteq I!Pending
    BY <2>1, <2>3 DEF I!Pending
  <2>5. \A i \in Items : InviteOK(i)'
    BY <1>0, <2>2, <2>3, <2>4 DEF InviteOK, I!Pending
  <2> QED BY <1>0, <1>k, <2>2, <2>3, <2>4, <2>5 DEF InviteIInv, InviteTyped
<1>9. ASSUME I!Register PROVE InviteIInv'
  <2>1. account' = TRUE /\ UNCHANGED <<invites, granted, ended, mixed, doubled, requests>>
    BY <1>9 DEF I!Register
  <2> QED BY <1>0, <1>k, <2>1 DEF InviteIInv, InviteTyped, InviteOK, I!Pending
<1>10. ASSUME NEW q \in Requests, NEW i \in Items,
              i \in I!Pending /\ \E step \in {"revoked", "resend"} : I!ReadTo(q, step, i)
       PROVE  InviteIInv'
  BY <1>10, <1>r
<1>11. ASSUME NEW q \in Requests, NEW i \in Items, I!ReadToExpire(q, i) \/ I!ReadToRedeem(q, i)
       PROVE  InviteIInv'
  BY <1>11, <1>r DEF I!ReadToExpire, I!ReadToRedeem, I!Redeemable
<1> QED BY <1>1, <1>2, <1>3, <1>4, <1>5, <1>6, <1>7, <1>8, <1>9, <1>10, <1>11 DEF I!Next

-----------------------------------------------------------------------------
(* Broadcasts: who is mailed. *)

(* The inductive invariant. *)

BroadcastTyped ==
    /\ deliveries \in [Recipients -> DeliveryStatuses]
    /\ mailed \in [Recipients -> Nat]
    /\ optedOut \subseteq Recipients
    /\ RequestsOK

\* q has r in hand: it is past the look at the row, and has not written it.
Holds(q, r) == requests[q].step \in {"mail", "record"} /\ requests[q].to = r

\* What a run has left to do, between two recipients and with one in hand.
Between == [step : {"next"}, left : SUBSET Recipients, skip : SUBSET Recipients]

WithOne == [step : {"mail", "record"}, to : Recipients,
            left : SUBSET Recipients, skip : SUBSET Recipients]

BroadcastRequestOK(q) ==
    /\ requests[q].step \in {"idle", "schedule", "claim", "resolve", "next", "mail", "record"}
    /\ At(q, "next") => requests[q] \in Between
    /\ requests[q].step \in {"mail", "record"} => requests[q] \in WithOne

\* One run at most has a recipient in hand; the row of one who was mailed says so,
\* or is going to.
RecipientOK(r) ==
    r \notin doubtful =>
        /\ \A q, o \in Requests : Holds(q, r) /\ Holds(o, r) => q = o
        /\ mailed[r] <= 1
        /\ \A q \in Requests : Holds(q, r) => deliveries[r] # "sent"
        /\ \A q \in Requests : Holds(q, r) /\ At(q, "mail") => mailed[r] = 0
        /\ mailed[r] = 1 =>
              deliveries[r] = "sent" \/ \E q \in Requests : Holds(q, r) /\ At(q, "record")

\* A request that sends, or that found the broadcast being sent.
Sending(q) ==
    \/ requests[q].step \in {"resolve", "next", "mail", "record"}
    \/ At(q, "claim") /\ requests[q].status = "sending"

\* Once a run has begun the broadcast cannot be cancelled, and no run begins once
\* it is.
BroadcastStatusOK ==
    rescheduled \/
        /\ cancelled => broadcast = "cancelled"
        /\ (\E q \in Requests : Sending(q)) \/ (\E r \in Recipients : mailed[r] # 0) =>
              broadcast \in {"sending", "sent", "failed"}
        /\ \A q \in Requests : At(q, "claim") => requests[q].status # "cancelled"

BroadcastIInv ==
    /\ BroadcastTyped /\ BroadcastStatusOK
    /\ \A q \in Requests : BroadcastRequestOK(q)
    /\ \A r \in Recipients : RecipientOK(r)

-----------------------------------------------------------------------------

\* A recipient whom the step does not take in hand, mail or write about.
LEMMA RecipientFrame ==
    ASSUME NEW r \in Recipients, RecipientOK(r),
           doubtful \subseteq doubtful',
           deliveries'[r] = deliveries[r], mailed'[r] = mailed[r],
           \A q \in Requests : \/ requests'[q] = requests[q]
                               \/ ~ Holds(q, r) /\ ~ Holds(q, r)'
    PROVE  RecipientOK(r)'
BY DEF RecipientOK, Holds, At

\* The draft satisfies the invariant.
LEMMA BroadcastInit == Init => BroadcastIInv
BY DEF Init, BroadcastIInv, BroadcastTyped, BroadcastStatusOK, BroadcastRequestOK, RecipientOK,
   Holds, At, Sending, NoRequests, Idle,
       RequestsOK, DeliveryStatuses

\* Every step keeps the invariant: one step per action.
LEMMA BroadcastNext == BroadcastIInv /\ [Next]_broadcastVars => BroadcastIInv'
<1> SUFFICES ASSUME BroadcastIInv, [Next]_broadcastVars PROVE BroadcastIInv'
  OBVIOUS
<1>0. /\ RequestsOK /\ BroadcastTyped /\ BroadcastStatusOK
      /\ \A q \in Requests : BroadcastRequestOK(q)
      /\ \A r \in Recipients : RecipientOK(r)
  BY DEF BroadcastIInv, BroadcastTyped
<1>i. Idle.step = "idle"
  BY DEF Idle
\* The recipients are untouched, and a request goes from a step to another of which
\* neither has a recipient in hand.
<1>m. ASSUME NEW q \in Requests, NEW t, requests' = [requests EXCEPT ![q] = t],
             t.step \in {"idle", "schedule", "claim", "resolve", "next"},
             requests[q].step \notin {"mail", "record"},
             t.step = "next" => t \in Between,
             UNCHANGED <<deliveries, optedOut, mailed, doubtful>>
      PROVE  /\ BroadcastTyped' /\ \A o \in Requests : BroadcastRequestOK(o)'
             /\ \A r \in Recipients : RecipientOK(r)'
  <2>1. /\ RequestsOK'
        /\ requests'[q] = t /\ \A o \in Requests \ {q} : requests'[o] = requests[o]
    BY <1>0, <1>m, MoveEffect
  <2>2. BroadcastTyped' /\ \A o \in Requests : BroadcastRequestOK(o)'
    BY <1>0, <1>m, <2>1 DEF BroadcastTyped, BroadcastRequestOK, At
  <2>3. ASSUME NEW r \in Recipients PROVE RecipientOK(r)'
    BY <1>0, <1>m, <2>1, RecipientFrame DEF Holds
  <2> QED BY <2>2, <2>3
<1>1. ASSUME NEW q \in Requests, ReadToSchedule(q) PROVE BroadcastIInv'
  <2>1. PICK t : t = [step |-> "schedule"]
    OBVIOUS
  <2>2. /\ requests' = [requests EXCEPT ![q] = t] /\ t.step = "schedule" /\ At(q, "idle")
        /\ UNCHANGED <<broadcast, deliveries, optedOut, mailed, cancelled, doubtful, rescheduled>>
    BY <1>1, <2>1 DEF ReadToSchedule, Begin, rest, history
  <2>3. BroadcastStatusOK'
    BY <1>0, <2>2, MoveEffect DEF BroadcastStatusOK, Sending, At
  <2> QED BY <1>m, <2>2, <2>3 DEF BroadcastIInv, At
<1>2. ASSUME NEW q \in Requests, Schedule(q) PROVE BroadcastIInv'
  <2>1. PICK t : t = Idle
    OBVIOUS
  <2>2. /\ requests' = [requests EXCEPT ![q] = t] /\ t.step = "idle" /\ At(q, "schedule")
        /\ broadcast' = "scheduled" /\ rescheduled' = (rescheduled \/ broadcast # "draft")
        /\ UNCHANGED <<deliveries, optedOut, mailed, cancelled, doubtful>>
    BY <1>2, <1>i, <2>1 DEF Schedule, Finish, Continue, rest
  <2>3. BroadcastStatusOK'
    <3>1. requests'[q] = t /\ \A o \in Requests \ {q} : requests'[o] = requests[o]
      BY <1>0, <2>2, MoveEffect
    <3>2. CASE broadcast = "draft"
      BY <1>0, <2>2, <3>1, <3>2 DEF BroadcastStatusOK, Sending, At
    <3>3. CASE broadcast # "draft"
      BY <2>2, <3>3 DEF BroadcastStatusOK
    <3> QED BY <3>2, <3>3
  <2> QED BY <1>m, <2>2, <2>3 DEF BroadcastIInv, At
<1>3. ASSUME Cancel PROVE BroadcastIInv'
  BY <1>0, <1>3 DEF Cancel, rest, BroadcastIInv, RequestsOK, BroadcastTyped, BroadcastStatusOK,
     Sending, BroadcastRequestOK, RecipientOK, Holds, At
<1>4. ASSUME NEW r \in Recipients, OptOut(r) PROVE BroadcastIInv'
  BY <1>0, <1>4 DEF OptOut, history, BroadcastIInv, RequestsOK, BroadcastTyped, BroadcastStatusOK,
     Sending, BroadcastRequestOK, RecipientOK, Holds, At
<1>5. ASSUME NEW q \in Requests, ReadToSend(q) PROVE BroadcastIInv'
  <2>1. PICK t : t = [step |-> "claim", status |-> broadcast]
    OBVIOUS
  <2>2. /\ requests' = [requests EXCEPT ![q] = t] /\ At(q, "idle")
        /\ t.step = "claim" /\ t.status = broadcast /\ broadcast # "cancelled"
        /\ UNCHANGED <<broadcast, deliveries, optedOut, mailed, cancelled, doubtful, rescheduled>>
    BY <1>5, <2>1 DEF ReadToSend, Begin, rest, history
  <2>3. BroadcastStatusOK'
    BY <1>0, <2>2, MoveEffect DEF BroadcastStatusOK, Sending, At
  <2> QED BY <1>m, <2>2, <2>3 DEF BroadcastIInv, At
<1>6. ASSUME NEW q \in Requests, Claim(q) PROVE BroadcastIInv'
  <2>1. PICK t : t = IF Claimable(q) THEN [step |-> "resolve"] ELSE Idle
    OBVIOUS
  <2>2. /\ requests' = [requests EXCEPT ![q] = t] /\ At(q, "claim")
        /\ t.step \in {"resolve", "idle"} /\ (t.step = "resolve" <=> Claimable(q))
        /\ broadcast' = IF Claimable(q) /\ requests[q].status # "sending" THEN "sending"
                        ELSE broadcast
        /\ UNCHANGED <<deliveries, optedOut, mailed, cancelled, doubtful, rescheduled>>
    BY <1>6, <1>i, <2>1 DEF Claim, Continue, Finish, rest, history
  <2>3. BroadcastStatusOK'
    <3>1. Claimable(q) <=> broadcast = requests[q].status \/ requests[q].status = "sending"
      BY DEF Claimable
    <3>2. requests'[q] = t /\ \A o \in Requests \ {q} : requests'[o] = requests[o]
      BY <1>0, <2>2, MoveEffect
    <3> QED BY <1>0, <2>2, <3>1, <3>2 DEF BroadcastStatusOK, Sending, At
  <2> QED BY <1>m, <2>2, <2>3 DEF BroadcastIInv, At
<1>7. ASSUME NEW q \in Requests, Resolve(q) PROVE BroadcastIInv'
  <2>1. PICK t : t = [step |-> "next", left |-> Recipients, skip |-> optedOut]
    OBVIOUS
  <2>2. /\ requests' = [requests EXCEPT ![q] = t] /\ t.step = "next" /\ At(q, "resolve")
        /\ t \in Between
        /\ UNCHANGED <<broadcast, deliveries, optedOut, mailed, cancelled, doubtful, rescheduled>>
    BY <1>0, <1>7, <2>1 DEF Resolve, Continue, rest, history, Between, BroadcastTyped
  <2>3. BroadcastStatusOK'
    BY <1>0, <2>2, MoveEffect DEF BroadcastStatusOK, Sending, At
  <2> QED BY <1>m, <2>2, <2>3 DEF BroadcastIInv, At
<1>8. ASSUME NEW q \in Requests, Complete(q) PROVE BroadcastIInv'
  <2>1. PICK t : t = Idle
    OBVIOUS
  <2>2. /\ requests' = [requests EXCEPT ![q] = t] /\ t.step = "idle" /\ At(q, "next")
        /\ broadcast' = "sent"
        /\ UNCHANGED <<deliveries, optedOut, mailed, cancelled, doubtful, rescheduled>>
    BY <1>8, <1>i, <2>1 DEF Complete, Finish, Continue, rest, history
  <2>3. BroadcastStatusOK'
    BY <1>0, <2>2, MoveEffect DEF BroadcastStatusOK, Sending, At
  <2> QED BY <1>m, <2>2, <2>3 DEF BroadcastIInv, At
\* A request that sends goes on, or ends, and the status is as it was, or it failed.
<1>s. ASSUME NEW q \in Requests, NEW t, requests' = [requests EXCEPT ![q] = t],
             Sending(q) \/ (UNCHANGED <<broadcast, mailed>> /\ t = Idle),
             t.step # "claim", broadcast' \in {broadcast, "failed"},
             UNCHANGED <<cancelled, rescheduled>>,
             broadcast' = broadcast \/ Sending(q)
      PROVE  BroadcastStatusOK'
  <2>1. requests'[q] = t /\ \A o \in Requests \ {q} : requests'[o] = requests[o]
    BY <1>0, <1>s, MoveEffect
  <2>2. CASE Sending(q)
    BY <1>0, <1>s, <2>1, <2>2 DEF BroadcastStatusOK, Sending, At
  <2>3. CASE UNCHANGED <<broadcast, mailed>> /\ t = Idle
    BY <1>0, <1>i, <1>s, <2>1, <2>3 DEF BroadcastStatusOK, Sending, At
  <2> QED BY <1>s, <2>2, <2>3
<1>9. ASSUME NEW q \in Requests, NEW r \in Recipients, Skip(q, r) PROVE BroadcastIInv'
  <2>1. PICK t : t = [requests[q] EXCEPT !.left = @ \ {r}]
    OBVIOUS
  <2>2. requests[q] \in Between
    BY <1>0, <1>9 DEF Skip, BroadcastRequestOK, At
  <2>3. /\ requests' = [requests EXCEPT ![q] = t] /\ t \in Between /\ t.step = "next"
        /\ deliveries' = [deliveries EXCEPT ![r] = "opted_out"]
        /\ doubtful' = IF deliveries[r] = "sent" THEN doubtful \cup {r} ELSE doubtful
        /\ UNCHANGED <<broadcast, optedOut, mailed, cancelled, rescheduled>>
    BY <1>9, <2>1, <2>2 DEF Skip, Pass, Continue, Between
  <2>4. /\ RequestsOK'
        /\ requests'[q] = t /\ \A o \in Requests \ {q} : requests'[o] = requests[o]
    BY <1>0, <2>3, MoveEffect
  <2>5. BroadcastTyped'
    BY <1>0, <2>3, <2>4 DEF BroadcastTyped, DeliveryStatuses
  <2>6. BroadcastStatusOK'
    BY <1>s, <2>2, <2>3 DEF Sending, Between
  <2>7. \A o \in Requests : BroadcastRequestOK(o)'
    BY <1>0, <2>3, <2>4 DEF BroadcastRequestOK, At
  <2>8. ~ Holds(q, r) /\ requests[q].step = "next"
    BY <2>2 DEF Holds, Between
  <2>9. ASSUME NEW x \in Recipients PROVE RecipientOK(x)'
    <3>1. CASE x # r
      BY <1>0, <2>3, <2>4, <2>8, <3>1, RecipientFrame DEF Holds, BroadcastTyped
    <3>2. CASE x = r
      BY <1>0, <2>3, <2>4, <2>8, <3>2 DEF RecipientOK, Holds, At, BroadcastTyped
    <3> QED BY <3>1, <3>2
  <2> QED BY <2>5, <2>6, <2>7, <2>9 DEF BroadcastIInv
<1>10. ASSUME NEW q \in Requests, NEW r \in Recipients, LookUp(q, r) PROVE BroadcastIInv'
  <2>0. requests[q] \in Between /\ requests[q].step = "next"
    BY <1>0, <1>10 DEF LookUp, BroadcastRequestOK, At
  <2>1. CASE AlreadySent(r)
    <3>1. PICK t : t = [requests[q] EXCEPT !.left = @ \ {r}]
      OBVIOUS
    <3>2. /\ requests' = [requests EXCEPT ![q] = t] /\ t \in Between /\ t.step = "next"
          /\ UNCHANGED <<broadcast, deliveries, optedOut, mailed, doubtful, cancelled, rescheduled>>
      BY <1>10, <2>0, <2>1, <3>1 DEF LookUp, Pass, Continue, Between, rest
    <3>3. BroadcastStatusOK'
      BY <1>s, <2>0, <3>2 DEF Sending
    <3> QED BY <1>m, <2>0, <3>2, <3>3 DEF BroadcastIInv
  <2>2. CASE ~ AlreadySent(r)
    <3>1. PICK t : t = [step |-> "mail", to |-> r, left |-> requests[q].left \ {r},
                        skip |-> requests[q].skip]
      OBVIOUS
    <3>2. /\ requests' = [requests EXCEPT ![q] = t] /\ t \in WithOne /\ t.step = "mail" /\ t.to = r
          /\ deliveries[r] # "sent"
          /\ doubtful' = IF r \in InHand THEN doubtful \cup {r} ELSE doubtful
          /\ UNCHANGED <<broadcast, deliveries, optedOut, mailed, cancelled, rescheduled>>
      BY <1>10, <2>0, <2>2, <3>1 DEF LookUp, Continue, Between, WithOne, rest, AlreadySent
    <3>3. BroadcastStatusOK'
      BY <1>s, <2>0, <3>2 DEF Sending
    <3>4. /\ RequestsOK'
          /\ requests'[q] = t /\ \A o \in Requests \ {q} : requests'[o] = requests[o]
      BY <1>0, <3>2, MoveEffect
    <3>5. BroadcastTyped' /\ \A o \in Requests : BroadcastRequestOK(o)'
      BY <1>0, <3>2, <3>4 DEF BroadcastTyped, BroadcastRequestOK, At
    <3>6. ASSUME NEW x \in Recipients PROVE RecipientOK(x)'
      <4>1. CASE x # r
        BY <1>0, <2>0, <3>2, <3>4, <4>1, RecipientFrame DEF Holds
      <4>2. CASE x = r
        <5>1. r \notin doubtful' => r \notin doubtful /\ \A o \in Requests : ~ Holds(o, r)
          BY <3>2 DEF InHand, Holds
        <5> QED BY <1>0, <2>0, <3>2, <3>4, <4>2, <5>1 DEF RecipientOK, Holds, At, BroadcastTyped
      <4> QED BY <4>1, <4>2
    <3> QED BY <3>3, <3>5, <3>6 DEF BroadcastIInv
  <2> QED BY <2>1, <2>2
\* A request that has a recipient in hand writes about that one, and lets it go.
<1>h. ASSUME NEW q \in Requests, requests[q].step \in {"mail", "record"}, NEW r, r = requests[q].to,
             NEW t, requests' = [requests EXCEPT ![q] = t], t.step \in {"next", "idle"},
             t.step = "next" => t \in Between,
             deliveries' \in [Recipients -> DeliveryStatuses],
             \A x \in Recipients \ {r} : deliveries'[x] = deliveries[x],
             At(q, "record") => deliveries'[r] = "sent" \/ r \in doubtful',
             doubtful \subseteq doubtful',
             broadcast' \in {broadcast, "failed"},
             UNCHANGED <<optedOut, mailed, cancelled, rescheduled>>
      PROVE  BroadcastIInv'
  <2>1. /\ RequestsOK'
        /\ requests'[q] = t /\ \A o \in Requests \ {q} : requests'[o] = requests[o]
    BY <1>0, <1>h, MoveEffect
  <2>2. r \in Recipients /\ Holds(q, r)
    BY <1>0, <1>h DEF BroadcastRequestOK, WithOne, Holds
  <2>3. BroadcastTyped' /\ \A o \in Requests : BroadcastRequestOK(o)'
    BY <1>0, <1>h, <2>1 DEF BroadcastTyped, BroadcastRequestOK, At
  <2>4. BroadcastStatusOK'
    BY <1>s, <1>h DEF Sending
  <2>5. ASSUME NEW x \in Recipients PROVE RecipientOK(x)'
    <3>1. CASE x # r
      BY <1>0, <1>h, <2>1, <3>1, RecipientFrame DEF Holds
    <3>2. CASE x = r /\ r \notin doubtful'
      <4>1. /\ \A o \in Requests : Holds(o, r) => q = o
            /\ mailed[r] <= 1
            /\ At(q, "mail") => mailed[r] = 0
        BY <1>0, <1>h, <2>2, <3>2 DEF RecipientOK
      <4>2. \A o \in Requests : ~ Holds(o, r)'
        BY <1>h, <2>1, <4>1 DEF Holds
      <4>3. mailed[r] = 1 => deliveries'[r] = "sent"
        BY <1>h, <3>2, <4>1 DEF At
      <4> QED BY <1>h, <3>2, <4>1, <4>2, <4>3 DEF RecipientOK
    <3>3. CASE x = r /\ r \in doubtful'
      BY <3>3 DEF RecipientOK
    <3> QED BY <3>1, <3>2, <3>3
  <2> QED BY <2>3, <2>4, <2>5 DEF BroadcastIInv
<1>11. ASSUME NEW q \in Requests, NEW status \in {"sent", "failed"}, Record(q, status),
              requests[q].step \in {"mail", "record"},
              At(q, "record") => status = "sent" \/ requests[q].to \in doubtful',
              doubtful \subseteq doubtful',
              UNCHANGED <<broadcast, optedOut, mailed, cancelled, rescheduled>>
       PROVE  BroadcastIInv'
  <2>1. PICK t : t = [step |-> "next", left |-> requests[q].left, skip |-> requests[q].skip]
    OBVIOUS
  <2>2. PICK r : r = requests[q].to
    OBVIOUS
  <2>3. requests[q] \in WithOne /\ r \in Recipients
    BY <1>0, <1>11, <2>2 DEF BroadcastRequestOK, WithOne
  <2>4. /\ t \in Between /\ t.step = "next" /\ requests' = [requests EXCEPT ![q] = t]
        /\ deliveries' = [deliveries EXCEPT ![r] = status]
    BY <1>11, <2>1, <2>2, <2>3 DEF Record, Continue, Between, WithOne
  <2>5. /\ deliveries' \in [Recipients -> DeliveryStatuses] /\ deliveries'[r] = status
        /\ \A x \in Recipients \ {r} : deliveries'[x] = deliveries[x]
    BY <1>0, <2>3, <2>4 DEF BroadcastTyped, DeliveryStatuses
  <2>6. At(q, "record") => deliveries'[r] = "sent" \/ r \in doubtful'
    BY <1>11, <2>2, <2>5
  <2> QED BY <1>h, <1>11, <2>2, <2>4, <2>5, <2>6
<1>12. ASSUME NEW q \in Requests, Enqueue(q) PROVE BroadcastIInv'
  <2>0. PICK r \in Recipients : r = requests[q].to
    BY <1>0, <1>12 DEF Enqueue, At, BroadcastRequestOK, WithOne
  <2>1. CASE Record(q, "failed") /\ UNCHANGED mailed
    BY <1>11, <1>12, <2>1 DEF Enqueue, At, history
  <2>2. CASE /\ mailed' = [mailed EXCEPT ![r] = @ + 1]
             /\ Continue(q, [requests[q] EXCEPT !.step = "record"])
             /\ UNCHANGED deliveries
    <3>1. PICK t : t = [requests[q] EXCEPT !.step = "record"]
      OBVIOUS
    <3>2. requests[q] \in WithOne /\ requests[q].step = "mail"
      BY <1>0, <1>12 DEF Enqueue, At, BroadcastRequestOK
    <3>3. /\ requests' = [requests EXCEPT ![q] = t] /\ t \in WithOne /\ t.step = "record" /\ t.to = r
          /\ UNCHANGED <<broadcast, optedOut, deliveries, doubtful, cancelled, rescheduled>>
      BY <1>12, <2>0, <2>2, <3>1, <3>2 DEF Enqueue, Continue, WithOne, history
    <3>4. /\ RequestsOK'
          /\ requests'[q] = t /\ \A o \in Requests \ {q} : requests'[o] = requests[o]
      BY <1>0, <3>3, MoveEffect
    <3>5. BroadcastTyped' /\ \A o \in Requests : BroadcastRequestOK(o)'
      BY <1>0, <2>2, <3>3, <3>4 DEF BroadcastTyped, BroadcastRequestOK, At
    <3>6. BroadcastStatusOK'
      BY <1>s, <3>2, <3>3 DEF Sending
    <3>7. ASSUME NEW x \in Recipients PROVE RecipientOK(x)'
      <4>1. CASE x # r
        BY <1>0, <2>0, <2>2, <3>3, <3>4, <4>1, RecipientFrame DEF Holds, BroadcastTyped
      <4>2. CASE x = r
        BY <1>0, <2>0, <2>2, <3>2, <3>3, <3>4, <4>2 DEF RecipientOK, Holds, At, BroadcastTyped
      <4> QED BY <4>1, <4>2
    <3> QED BY <3>5, <3>6, <3>7 DEF BroadcastIInv
  <2> QED BY <1>12, <2>0, <2>1, <2>2 DEF Enqueue
<1>13. ASSUME NEW q \in Requests, RecordSent(q) PROVE BroadcastIInv'
  BY <1>11, <1>13 DEF RecordSent, At
<1>14. ASSUME NEW q \in Requests, Abort(q) PROVE BroadcastIInv'
  <2>1. PICK t : t = Idle
    OBVIOUS
  <2>2. /\ requests' = [requests EXCEPT ![q] = t] /\ t.step = "idle" /\ ~ At(q, "idle")
        /\ broadcast' = broadcast
             \/ (requests[q].step \notin {"schedule", "claim"} /\ broadcast' = "failed")
        /\ doubtful' = IF requests[q].step = "record" THEN doubtful \cup {requests[q].to}
                       ELSE doubtful
        /\ UNCHANGED <<deliveries, optedOut, mailed, cancelled, rescheduled>>
    BY <1>14, <1>i, <2>1 DEF Abort, Finish, Continue, rest
  <2>3. CASE requests[q].step \in {"mail", "record"}
    <3>1. PICK r : r = requests[q].to
      OBVIOUS
    <3>2. deliveries' \in [Recipients -> DeliveryStatuses]
      BY <1>0, <2>2 DEF BroadcastTyped
    <3> QED BY <1>h, <2>2, <2>3, <3>1, <3>2 DEF At
  <2>4. CASE requests[q].step \notin {"mail", "record"}
    <3>1. requests[q].step \in {"schedule", "claim", "resolve", "next"}
      BY <1>0, <2>2, <2>4 DEF At, BroadcastRequestOK
    <3> QED BY <1>m, <1>s, <2>1, <2>2, <2>4, <3>1 DEF BroadcastIInv, Sending
  <2> QED BY <2>3, <2>4
<1>15. CASE UNCHANGED broadcastVars
  BY <1>0, <1>15 DEF broadcastVars, rest, history, BroadcastIInv, RequestsOK, BroadcastTyped,
     BroadcastStatusOK, Sending, BroadcastRequestOK,
                     RecipientOK, Holds, At
<1> QED BY <1>1, <1>2, <1>3, <1>4, <1>5, <1>6, <1>7, <1>8, <1>9, <1>10, <1>12, <1>13, <1>14, <1>15
        DEF Next

-----------------------------------------------------------------------------

\* The invariant gives the property.
LEMMA BroadcastSafe == BroadcastIInv => MailedAsAsked
BY DEF BroadcastIInv, RecipientOK, BroadcastStatusOK, MailedAsAsked

-----------------------------------------------------------------------------
(* Casework. In a behaviour one service is at work, its `part', and the    *)
(* others rest as they began. What holds of each is the invariant of its   *)
(* section while it is at work, and the property itself while it rests.    *)

TenderCase ==
    IF part = "tender" THEN TenderIInv ELSE tender.status # "awarded" /\ OneExcoVote
PassCase == IF part = "pass" THEN PassIInv ELSE EntriesWithinUses
ViolationCase ==
    IF part = "violation" THEN ViolationIInv
    ELSE Cardinality(V!Pending) <= 1 /\ (violation.status = "appealing" <=> V!Pending # {})
TicketCase == part = "request" => TicketIInv
BankCase == IF part = "bank" THEN ReconIInv ELSE LockedPeriodTies
ErasureCase == IF part = "erasure" THEN ErasureIInv ELSE ErasedAsAsked
BroadcastCase == IF part = "broadcast" THEN BroadcastIInv ELSE MailedAsAsked
VoteCase == IF part = "vote" THEN VoteIInv ELSE OneBallotEach /\ vote.status # "closed"
CallCase == IF part = "call" THEN CallIInv ELSE RetriesAreSafe
InviteCase == IF part = "invite" THEN InviteIInv ELSE InviteTies

\* A tender, at work or at rest.
LEMMA TenderAlways == CaseSpec => []TenderCase
<1>1. CaseInit => TenderCase
  BY TenderInit, TenderSafe DEF CaseInit, TenderCase, T!Init, OneExcoVote
<1>2. TenderCase /\ [CaseNext]_vars => TenderCase'
  <2> SUFFICES ASSUME TenderCase, [CaseNext]_vars PROVE TenderCase'
    OBVIOUS
  <2>1. CASE part = "tender" /\ CaseNext
    BY <2>1, TenderNext DEF TenderCase, CaseNext
  <2>2. CASE part # "tender"
    BY <2>2 DEF TenderCase, CaseNext, vars, ofTender, OneExcoVote, T!OneExcoVote
  <2>3. CASE UNCHANGED vars
    BY <2>3 DEF TenderCase, vars, ofTender, TenderIInv, RequestsOK, TenderTyped, BidsOK, VoteOK,
       T!AwardDecidesBids, VoteSound, OneVote, VoteRequestOK, BeginsVote, TenderRequestOK, T!At,
       OneExcoVote, T!OneExcoVote
  <2> QED BY <2>1, <2>2, <2>3
<1> QED BY <1>1, <1>2, PTL DEF CaseSpec

\* Every bid of an awarded tender is decided, whichever requests race with the award
\* (award, submitBid, shortlist).
THEOREM AwardIsDecided == CaseSpec => []AwardDecidesBids
<1>1. TenderCase => AwardDecidesBids
  BY TenderSafe DEF TenderCase, AwardDecidesBids, T!AwardDecidesBids
<1> QED BY TenderAlways, <1>1, PTL

\* A tender is put to one vote of the board, the one it is linked to, however often
\* it is put to the vote (startExcoVote).
THEOREM VoteIsOne == CaseSpec => []OneExcoVote
<1>1. TenderCase => OneExcoVote
  BY TenderSafe DEF TenderCase, OneExcoVote
<1> QED BY TenderAlways, <1>1, PTL

\* A pass lets in no more visitors than it has uses, and counts them, whatever gates
\* do at a time, unless two of them overlap (logEntry).
THEOREM UsesAreCounted == CaseSpec => []EntriesWithinUses
<1>1. CaseInit => PassCase
  BY PassInit DEF CaseInit, PassCase, PassIInv, EntriesWithinUses
<1>2. PassCase /\ [CaseNext]_vars => PassCase'
  <2> SUFFICES ASSUME PassCase, [CaseNext]_vars PROVE PassCase'
    OBVIOUS
  <2>1. CASE part = "pass" /\ CaseNext
    BY <2>1, PassNext DEF PassCase, CaseNext
  <2>2. CASE part # "pass"
    BY <2>2 DEF PassCase, CaseNext, vars, ofPass, EntriesWithinUses, P!EntriesWithinUses
  <2>3. CASE UNCHANGED vars
    BY <2>3 DEF PassCase, vars, ofPass, PassIInv, RequestsOK, PassTyped, EntryOK, P!At,
       EntriesWithinUses, P!EntriesWithinUses
  <2> QED BY <2>1, <2>2, <2>3
<1>3. PassCase => EntriesWithinUses
  BY DEF PassCase, PassIInv, EntriesWithinUses
<1> QED BY <1>1, <1>2, <1>3, PTL DEF CaseSpec

\* A violation is under appeal exactly while one appeal is undecided, whoever appeals,
\* decides or resolves meanwhile, unless they cross (submitAppeal, decideAppeal).
THEOREM AppealsTie == CaseSpec => []AppealTies
<1>1. CaseInit => ViolationCase
  <2>1. CaseInit => ViolationIInv /\ violation.status # "appealing" /\ V!Pending = {}
    BY ViolationInit DEF CaseInit, V!Init, V!Pending
  <2> QED BY <2>1, FS_EmptySet DEF ViolationCase
<1>2. ViolationCase /\ [CaseNext]_vars => ViolationCase'
  <2> SUFFICES ASSUME ViolationCase, [CaseNext]_vars PROVE ViolationCase'
    OBVIOUS
  <2>1. CASE part = "violation" /\ CaseNext
    BY <2>1, ViolationNext DEF ViolationCase, CaseNext
  <2>2. CASE part # "violation"
    BY <2>2 DEF ViolationCase, CaseNext, vars, ofViolation, V!Pending
  <2>3. CASE UNCHANGED vars
    BY <2>3 DEF ViolationCase, vars, ofViolation, ViolationIInv, RequestsOK, ViolationTyped,
       ViolationRequestTyped, ViolationRequestOK, ViolationSound, AppealsOK, V!At, V!Pending
  <2> QED BY <2>1, <2>2, <2>3
<1>3. ViolationCase => AppealTies
  BY ViolationSafe, SameCardinality DEF ViolationCase, AppealTies, V!AppealTies
<1> QED BY <1>1, <1>2, <1>3, PTL DEF CaseSpec

\* A request moves along its table of transitions in every step, whichever operation
\* writes its status, unless that was overtaken (transition, assign, addComment).
THEOREM TableIsFollowed == CaseSpec => FollowsTable
<1>1. CaseInit => TicketCase
  BY TicketInit DEF CaseInit, TicketCase
<1>2. TicketCase /\ [CaseNext]_vars => TicketCase' /\ [TicketStep]_(R!ticketVars)
  <2> SUFFICES ASSUME TicketCase, [CaseNext]_vars
               PROVE  TicketCase' /\ TicketStep
    OBVIOUS
  <2>1. CASE part = "request" /\ CaseNext
    BY <2>1, TicketNext DEF TicketCase, CaseNext
  <2>2. CASE part # "request"
    BY <2>2 DEF TicketCase, TicketStep, CaseNext, vars, ofRequest
  <2>3. CASE UNCHANGED vars
    BY <2>3 DEF TicketCase, TicketStep, vars, ofRequest, TicketIInv, RequestsOK, TicketRequestOK,
       R!At
  <2> QED BY <2>1, <2>2, <2>3
<1> QED BY <1>1, <1>2, PTL DEF CaseSpec, FollowsTable, R!FollowsTable, TicketStep

\* Every line of a locked period is settled, and the journal agrees, whatever was
\* matched and unmatched meanwhile, unless that was written on a stale reading
\* (match, unmatch, lockReconciliation).
THEOREM LockedIsSettled == CaseSpec => []LockedPeriodTies
<1>1. CaseInit => BankCase
  BY ReconInit, ReconSafe DEF CaseInit, BankCase, LockedPeriodTies
<1>2. BankCase /\ [CaseNext]_vars => BankCase'
  <2> SUFFICES ASSUME BankCase, [CaseNext]_vars PROVE BankCase'
    OBVIOUS
  <2>1. CASE part = "bank" /\ CaseNext
    BY <2>1, ReconNext DEF BankCase, CaseNext
  <2>2. CASE part # "bank"
    BY <2>2 DEF BankCase, CaseNext, vars, ofBank, LockedPeriodTies, B!LockedPeriodTies
  <2>3. CASE UNCHANGED vars
    BY <2>3 DEF BankCase, vars, ofBank, ReconIInv, RequestsOK, ReconTyped, ReconRequestOK, LineOK,
       B!At, LockedPeriodTies, B!LockedPeriodTies
  <2> QED BY <2>1, <2>2, <2>3
<1>3. BankCase => LockedPeriodTies
  BY ReconSafe DEF BankCase, LockedPeriodTies
<1> QED BY <1>1, <1>2, <1>3, PTL DEF CaseSpec

\* Nobody is erased twice, before the window is over or after a withdrawal, whatever
\* the user and the administrators do at once, unless a decision overruled another
\* (cancelErasure, moderateErasure, executeErasure).
THEOREM ErasureIsAsked == CaseSpec => []ErasedAsAsked
<1>1. CaseInit => ErasureCase
  BY ErasureInit, ErasureSafe DEF CaseInit, ErasureCase, ErasedAsAsked
<1>2. ErasureCase /\ [CaseNext]_vars => ErasureCase'
  <2> SUFFICES ASSUME ErasureCase, [CaseNext]_vars PROVE ErasureCase'
    OBVIOUS
  <2>1. CASE part = "erasure" /\ CaseNext
    BY <2>1, ErasureNext DEF ErasureCase, CaseNext
  <2>2. CASE part # "erasure"
    BY <2>2 DEF ErasureCase, CaseNext, vars, ofErasure, ErasedAsAsked, E!ErasedAsAsked
  <2>3. CASE UNCHANGED vars
    BY <2>3 DEF ErasureCase, vars, ofErasure, ErasureIInv, RequestsOK, ErasureTyped,
       ErasureRequestOK, ErasureOK, E!At, ErasedAsAsked, E!ErasedAsAsked
  <2> QED BY <2>1, <2>2, <2>3
<1>3. ErasureCase => ErasedAsAsked
  BY ErasureSafe DEF ErasureCase, ErasedAsAsked
<1> QED BY <1>1, <1>2, <1>3, PTL DEF CaseSpec

\* Whoever runs the broadcast again, dies over it or opts out meanwhile, a recipient
\* is mailed once, and nobody is once it was cancelled, but for what is recorded as
\* doubtful or written over (cancel, schedule, sendNow).
THEOREM MailIsAsked == CaseSpec => []MailedAsAsked
<1>1. CaseInit => BroadcastCase
  BY BroadcastInit, BroadcastSafe DEF CaseInit, BroadcastCase
<1>2. BroadcastCase /\ [CaseNext]_vars => BroadcastCase'
  <2> SUFFICES ASSUME BroadcastCase, [CaseNext]_vars PROVE BroadcastCase'
    OBVIOUS
  <2>1. CASE part = "broadcast" /\ CaseNext
    BY <2>1, BroadcastNext DEF BroadcastCase, CaseNext
  <2>2. CASE part # "broadcast"
    BY <2>2 DEF BroadcastCase, CaseNext, vars, ofBroadcast, MailedAsAsked
  <2>3. CASE UNCHANGED vars
    BY <2>3 DEF BroadcastCase, vars, ofBroadcast, BroadcastIInv, RequestsOK, BroadcastTyped,
       BroadcastStatusOK, Sending, BroadcastRequestOK, RecipientOK, Holds, At, MailedAsAsked
  <2> QED BY <2>1, <2>2, <2>3
<1>3. BroadcastCase => MailedAsAsked
  BY BroadcastSafe DEF BroadcastCase
<1> QED BY <1>1, <1>2, <1>3, PTL DEF CaseSpec

\* The same of the specification of Broadcasts, on its own.
THEOREM OneMailEach == Spec => []MailedAsAsked
BY BroadcastInit, BroadcastNext, BroadcastSafe, PTL DEF Spec

\* A vote, at work or at rest.
LEMMA VoteAlways == CaseSpec => []VoteCase
<1>1. CaseInit => VoteCase
  <2>1. L!Init => vote.status = "draft"
    BY DEF L!Init
  <2> QED BY <2>1, VoteInit, VoteSafe DEF CaseInit, VoteCase, OneBallotEach
<1>2. VoteCase /\ [CaseNext]_vars => VoteCase'
  <2> SUFFICES ASSUME VoteCase, [CaseNext]_vars PROVE VoteCase'
    OBVIOUS
  <2>1. CASE part = "vote" /\ CaseNext
    BY <2>1, VoteNext DEF VoteCase, CaseNext
  <2>2. CASE part # "vote"
    BY <2>2 DEF VoteCase, CaseNext, vars, ofVote, OneBallotEach, L!OneBallotEach, L!BallotsOf
  <2>3. CASE UNCHANGED vars
    BY <2>3 DEF VoteCase, vars, ofVote, VoteIInv, RequestsOK, VoteTyped, VoteRequestTyped,
       ColumnKept, Column, CountKept, RuleOf, DecidedBy, Verdict, FirstTotal, FirstLate,
       L!BallotCount, L!Cast, L!OptionTotal, L!At, OneBallotEach, L!OneBallotEach, L!BallotsOf
  <2> QED BY <2>1, <2>2, <2>3
<1> QED BY <1>1, <1>2, PTL DEF CaseSpec

\* Nobody votes twice, in person, under a proxy or anonymously, unless the draft was
\* edited after it was opened (castBallot, update).
THEOREM BallotIsOne == CaseSpec => []OneBallotEach
<1>1. VoteCase => OneBallotEach
  BY VoteSafe DEF VoteCase, OneBallotEach
<1> QED BY VoteAlways, <1>1, PTL

\* A closed vote has the outcome that its ballots give, with every pick of each, under
\* the quorum and the percentage of the row, as far as the ballots that came while it
\* was closing leave that open and but for what doubles make of a tie, unless requests
\* crossed or edited the rule meanwhile (close, update).
THEOREM OutcomeIsCounted == CaseSpec => []OutcomeCounts
<1>1. VoteCase => OutcomeCounts
  BY VoteSafe DEF VoteCase, OutcomeCounts, L!OutcomeCounts
<1> QED BY VoteAlways, <1>1, PTL

\* A call that is sent again under its key is done once, and once more for every run
\* that threw when its work was done, and every answer tells of the run that did not,
\* unless an attempt that timed out was still running or its response was lost
\* (intercept, HoaClient).
THEOREM CallRunsOnce == CaseSpec => []RetriesAreSafe
<1>1. CaseInit => CallCase
  BY CallInit, CallSafe DEF CaseInit, CallCase, RetriesAreSafe
<1>2. CallCase /\ [CaseNext]_vars => CallCase'
  <2> SUFFICES ASSUME CallCase, [CaseNext]_vars PROVE CallCase'
    OBVIOUS
  <2>1. CASE part = "call" /\ CaseNext
    BY <2>1, CallNext DEF CallCase, CaseNext
  <2>2. CASE part # "call"
    BY <2>2 DEF CallCase, CaseNext, vars, ofCall, RetriesAreSafe, K!RetriesAreSafe
  <2>3. CASE UNCHANGED vars
    BY <2>3 DEF CallCase, vars, ofCall, CallIInv, RequestsOK, CallTyped, CallRequestTyped,
       CallSound, CallRequestOK, Runs, Truthful, Standing, K!At, RetriesAreSafe,
       K!RetriesAreSafe
  <2> QED BY <2>1, <2>2, <2>3
<1>3. CallCase => RetriesAreSafe
  BY CallSafe DEF CallCase, RetriesAreSafe
<1> QED BY <1>1, <1>2, <1>3, PTL DEF CaseSpec

\* An address gets its account by one invitation, which stays redeemed and had not
\* been ended, unless that crossed with its redemption (redeem, revoke, resend).
THEOREM AccountByOneInvite == CaseSpec => []InviteTies
<1>1. CaseInit => InviteCase
  BY InviteInit, InviteSafe DEF CaseInit, InviteCase, InviteTies
<1>2. InviteCase /\ [CaseNext]_vars => InviteCase'
  <2> SUFFICES ASSUME InviteCase, [CaseNext]_vars PROVE InviteCase'
    OBVIOUS
  <2>1. CASE part = "invite" /\ CaseNext
    BY <2>1, InviteNext DEF InviteCase, CaseNext
  <2>2. CASE part # "invite"
    <3>1. UNCHANGED <<part, invites, granted, ended, mixed, doubled, I!Pending>>
      BY <2>2 DEF CaseNext, vars, ofInvite, I!Pending
    <3> QED BY <2>2, <3>1 DEF InviteCase, InviteTies, I!InviteTies
  <2>3. CASE UNCHANGED vars
    BY <2>3 DEF InviteCase, vars, ofInvite, InviteIInv, RequestsOK, InviteTyped, InviteRequestOK,
       InviteOK, I!Pending, I!At, InviteTies, I!InviteTies
  <2> QED BY <2>1, <2>2, <2>3
<1>3. InviteCase => InviteTies
  BY InviteSafe DEF InviteCase, InviteTies
<1> QED BY <1>1, <1>2, <1>3, PTL DEF CaseSpec

=============================================================================
