------------------------------- MODULE Ballots -------------------------------
(***************************************************************************)
(* A vote of the organisation (VotesService): a motion is drafted,         *)
(* seconded, opened, closed or cancelled by staff, while residents, or the *)
(* members of the board, cast ballots, for themselves or under a proxy.    *)
(*                                                                         *)
(* Nothing is locked: a request reads what it checks, and then inserts, or *)
(* updates by id. Two unique keys are all that keeps a voter from a second *)
(* ballot. Votes share nothing, so there is one.                           *)
(***************************************************************************)
EXTENDS InFlight, Integers, Sequences, FiniteSets, Functions

CONSTANTS
    Voters,          \* persons of the organisation, each with a user account
    Options,         \* ids of options
    OptionLists,     \* what a vote may list of them, in order
    Picks,           \* what a ballot may name of them: how often each
    QuorumPercents, PassPercents,    \* percentages that a vote may ask for
    RoundsUp,        \* <<percent, n>> of which the product of doubles is too large
    Nobody

VARIABLES
    vote,        \* the Vote row
    ballots,     \* the Ballot rows, by unique key
    proxies,     \* the VoteProxy rows, by grantor
    crossed,     \* a status was written over one that had not been read
    lateEdit,    \* an edit of the draft was written after the draft was opened
    ruleEdited,  \* an edit of the draft was written while the vote was closing, or later
    stragglers,  \* ballots that came while the vote was closing, or later ...
    latePicks    \* ... and what they picked, by option

history == <<crossed, lateEdit, ruleEdited, stragglers, latePicks>>
voteVars == <<vote, ballots, proxies, requests, begun, history>>

-----------------------------------------------------------------------------
Statuses == {"draft", "open", "closed", "cancelled"}
Outcomes == {"none", "passed", "failed", "quorum_not_met"}

\* (voteId, voterPersonId) with a person or, in votes of the board, a user, and
\* (voteId, anonymousHash).
Keys == {"person", "user", "hash"}

NoPicks == [o \in Options |-> 0]

NoBallot == [picks |-> NoPicks, castByUserId |-> Nobody]
NoProxy == [grantee |-> Nobody, revoked |-> FALSE]

Init ==
    /\ \E special, exco, anonymous, multiple \in BOOLEAN, quorum \in QuorumPercents,
          pass \in PassPercents, options \in OptionLists :
          /\ special => pass >= 75
          /\ vote = [status |-> "draft", special |-> special, exco |-> exco,
                     anonymous |-> anonymous, allowMultiple |-> multiple,
                     quorumPercent |-> quorum, passThresholdPercent |-> pass,
                     options |-> options, seconded |-> FALSE,
                     eligibleCountSnapshot |-> 0, outcome |-> "none"]
    /\ ballots = [k \in Keys |-> [p \in Voters |-> NoBallot]]
    /\ proxies = [p \in Voters |-> NoProxy]
    /\ NoRequests
    /\ crossed = FALSE /\ lateEdit = FALSE /\ ruleEdited = FALSE
    /\ stragglers = 0 /\ latePicks = NoPicks

-----------------------------------------------------------------------------
\* A request has read the vote.
ReadBy(q, request) ==
    /\ Begin(q, request)
    /\ UNCHANGED <<vote, ballots, proxies, history>>

-----------------------------------------------------------------------------
(* Staff. *)

ReadToUpdate(q) == vote.status = "draft" /\ ReadBy(q, [step |-> "update"])

\* A close has read the vote, and has not written it yet.
Closing == \E o \in Requests : At(o, "close")

\* A field that is not edited keeps its value, which is one of those to choose from.
Update(q, exco, anonymous, multiple, quorum, pass, options) ==
    /\ At(q, "update")
    /\ vote' = [vote EXCEPT !.exco = exco, !.anonymous = anonymous,
                            !.allowMultiple = multiple, !.quorumPercent = quorum,
                            !.passThresholdPercent = pass, !.options = options]
    /\ lateEdit' = (lateEdit \/ vote.status # "draft")
    /\ ruleEdited' = (ruleEdited \/ Closing \/ vote.status \in {"closed", "cancelled"})
    /\ Finish(q)
    /\ UNCHANGED <<ballots, proxies, crossed, stragglers, latePicks>>

\* By anybody but the creator, who is left out.
ReadToSecond(q) ==
    /\ vote.status = "draft" /\ ~ vote.seconded
    /\ ReadBy(q, [step |-> "second"])

Second(q) ==
    /\ At(q, "second")
    /\ vote' = [vote EXCEPT !.seconded = TRUE]
    /\ Finish(q)
    /\ UNCHANGED <<ballots, proxies, history>>

\* The two readings of open are one: nothing unseconds a motion. Who may vote
\* changes with occupancies, roles and arrears, so that any number is counted.
ReadToOpen(q, count) ==
    /\ vote.status = "draft"
    /\ vote.special => vote.seconded
    /\ ReadBy(q, [step |-> "open", status |-> vote.status, count |-> count])

\* The status is written without a look at it.
SetStatus(q, row) ==
    /\ vote' = row
    /\ crossed' = (crossed \/ vote.status # requests[q].status)
    /\ Finish(q)
    /\ UNCHANGED <<ballots, proxies, lateEdit, ruleEdited, stragglers, latePicks>>

Open(q) ==
    /\ At(q, "open")
    /\ SetStatus(q, [vote EXCEPT !.status = "open",
                                 !.eligibleCountSnapshot = requests[q].count])

Cast == {b \in Keys \X Voters : ballots[b[1]][b[2]] # NoBallot}
BallotCount == Cardinality(Cast)

\* Every entry of every ballot counts.
OptionTotal(option) ==
    SumFunction([b \in Keys \X Voters |-> ballots[b[1]][b[2]].picks[option]])

\* Math.ceil((percent / 100) * n), in doubles: one too many where a product that
\* should be whole comes out larger, as 0.55 * 100 does.
CeilPercent(percent, n) ==
    (percent * n + 99) \div 100 + IF <<percent, n>> \in RoundsUp THEN 1 ELSE 0

\* Seeded fault: the quorum is taken of those who voted.
QuorumOfCast(percent, eligible) == CeilPercent(percent, BallotCount)

QuorumThreshold(percent, eligible) ==
    LET share == CeilPercent(percent, eligible) IN IF share > 1 THEN share ELSE 1

\* close reads the vote and counts its ballots ...
ReadToClose(q) ==
    /\ vote.status = "open"
    /\ ReadBy(q, [step |-> "close", status |-> vote.status, count |-> BallotCount,
                  row |-> vote])

\* The first option is the one that passes or fails.
OutcomeOf(row, count) ==
    IF count < QuorumThreshold(row.quorumPercent, row.eligibleCountSnapshot)
      THEN "quorum_not_met"
    ELSE IF OptionTotal(Head(row.options)) >= CeilPercent(row.passThresholdPercent, count)
      THEN "passed" ELSE "failed"

\* ... then reads the ballots and writes the outcome.
Close(q) ==
    /\ At(q, "close")
    /\ SetStatus(q, [vote EXCEPT
          !.status = "closed",
          !.outcome = OutcomeOf(requests[q].row, requests[q].count)])

ReadToCancel(q) ==
    /\ vote.status \in {"draft", "open"}
    /\ ReadBy(q, [step |-> "cancel", status |-> vote.status])

Cancel(q) ==
    /\ At(q, "cancel")
    /\ SetStatus(q, [vote EXCEPT !.status = "cancelled"])

-----------------------------------------------------------------------------
(* Residents and members of the board. *)

ValidProxy(g, u) == proxies[g].grantee = u /\ ~ proxies[g].revoked

\* Seeded fault: the ballot of a proxy is kept under its holder's name.
KeyOfHolder(u, p) == IF vote.exco \/ u # p THEN "user"
                     ELSE IF vote.anonymous THEN "hash" ELSE "person"

\* The column that the ballot will be kept under.
KeyOf(u, p) == IF vote.exco THEN "user" ELSE IF vote.anonymous THEN "hash" ELSE "person"

\* The picks are options of the vote, and one only, unless it allows for more.
ValidPicks(picks) ==
    /\ \A o \in Options : picks[o] > 0 => o \in Range(vote.options)
    /\ ~ vote.allowMultiple => \E o \in Options : picks = [NoPicks EXCEPT ![o] = 1]

\* u casts for p, who is found eligible: the own ballot, or under a proxy, which
\* votes of the board do not allow.
ReadToCast(q, u, p, picks) ==
    /\ vote.status = "open"
    /\ p # u => ~ vote.exco /\ ValidProxy(p, u)
    /\ ValidPicks(picks)
    /\ ReadBy(q, [step |-> "cast", user |-> u, voter |-> p, key |-> KeyOf(u, p),
                  picks |-> picks])

\* A second ballot under the same key violates it.
CastBallot(q) ==
    LET t == requests[q]
        late == Closing \/ vote.status # "open"
    IN
    /\ At(q, "cast")
    /\ IF ballots[t.key][t.voter] = NoBallot
         THEN /\ ballots' = [ballots EXCEPT ![t.key][t.voter] =
                                [picks |-> t.picks, castByUserId |-> t.user]]
              /\ stragglers' = IF late THEN stragglers + 1 ELSE stragglers
              /\ latePicks' = IF late THEN [o \in Options |-> latePicks[o] + t.picks[o]]
                                      ELSE latePicks
         ELSE UNCHANGED <<ballots, stragglers, latePicks>>
    /\ Finish(q)
    /\ UNCHANGED <<vote, proxies, crossed, lateEdit, ruleEdited>>

ReadToGrant(q, g, u) ==
    /\ vote.status \in {"draft", "open"}
    /\ g # u
    /\ ReadBy(q, [step |-> "grant", user |-> u, voter |-> g])

\* One proxy for each grantor, revoked or not.
GrantProxy(q) ==
    LET t == requests[q] IN
    /\ At(q, "grant")
    /\ proxies' = IF proxies[t.voter] = NoProxy
                    THEN [proxies EXCEPT ![t.voter].grantee = t.user] ELSE proxies
    /\ Finish(q)
    /\ UNCHANGED <<vote, ballots, history>>

\* "If grantee already cast on behalf": an anonymous ballot does not show.
ReadToRevoke(q, g) ==
    /\ proxies[g] # NoProxy
    /\ ballots["person"][g] = NoBallot
    /\ ReadBy(q, [step |-> "revoke", voter |-> g])

RevokeProxy(q) ==
    LET g == requests[q].voter IN
    /\ At(q, "revoke")
    /\ proxies' = [proxies EXCEPT ![g].revoked = TRUE]
    /\ Finish(q)
    /\ UNCHANGED <<vote, ballots, history>>

\* The process dies between the reading and the writing.
Abort(q) ==
    /\ ~ At(q, "idle")
    /\ Finish(q)
    /\ UNCHANGED <<vote, ballots, proxies, history>>

-----------------------------------------------------------------------------
StaffReads(q) ==
    \/ ReadToUpdate(q) \/ ReadToSecond(q) \/ ReadToClose(q) \/ ReadToCancel(q)
    \/ \E count \in 0 .. Cardinality(Voters) : ReadToOpen(q, count)

VoterReads(q) ==
    \E p \in Voters :
        \/ ReadToRevoke(q, p)
        \/ \E u \in Voters : ReadToGrant(q, p, u)
        \/ \E u \in Voters, picks \in Picks : ReadToCast(q, u, p, picks)

Write(q) ==
    \/ Second(q) \/ Open(q) \/ Close(q) \/ Cancel(q)
    \/ CastBallot(q) \/ GrantProxy(q) \/ RevokeProxy(q)
    \/ \E exco, anonymous, multiple \in BOOLEAN, quorum \in QuorumPercents,
          pass \in PassPercents, options \in OptionLists :
          Update(q, exco, anonymous, multiple, quorum, pass, options)

Next ==
    \E q \in Requests : StaffReads(q) \/ VoterReads(q) \/ Write(q) \/ Abort(q)

Spec == Init /\ [][Next]_voteVars

-----------------------------------------------------------------------------
(* Properties. *)

BallotsOf(p) == {k \in Keys : ballots[k][p] # NoBallot}

\* A voter has one ballot, however it was cast, unless the draft was edited
\* after it was opened, which may change the key (castBallot, update).
OneBallotEach == \A p \in Voters : Cardinality(BallotsOf(p)) <= 1 \/ lateEdit

\* count is no more than the percentage of n, or what doubles make of it.
Below(count, percent, n) ==
    \/ 100 * count < percent * n
    \/ 100 * count = percent * n /\ <<percent, n>> \in RoundsUp

\* The outcome of a closed vote is the one its ballots give, as far as the ballots
\* that came while it was closing leave that open, and unless requests crossed or
\* edited the rule meanwhile (close). Only a tie may turn on the doubles.
OutcomeCounts ==
    LET timely == BallotCount - stragglers
        first == OptionTotal(Head(vote.options))
        eligible == vote.eligibleCountSnapshot
        quorum == vote.quorumPercent
        pass == vote.passThresholdPercent
    IN
    vote.status = "closed" /\ ~ crossed /\ ~ ruleEdited =>
        /\ vote.outcome = "passed" => 100 * first >= pass * timely
        /\ vote.outcome = "failed" =>
              \E n \in timely .. BallotCount :
                  Below(first - latePicks[Head(vote.options)], pass, n)
        /\ vote.outcome \in {"passed", "failed"} =>
              BallotCount >= 1 /\ 100 * BallotCount >= quorum * eligible
        /\ vote.outcome = "quorum_not_met" => timely = 0 \/ Below(timely, quorum, eligible)
        /\ vote.outcome # "none"

=============================================================================
