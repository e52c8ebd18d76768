------------------------------- MODULE Casework -------------------------------
(***************************************************************************)
(* Services that have nothing in common but the way their rows are worked  *)
(* on, side by side. A behaviour has one of them, the `part'; the          *)
(* variables of the others keep the value they start with.                 *)
(***************************************************************************)
EXTENDS Broadcasts, Integers, Sequences, FiniteSets

CONSTANTS
    Items,    \* vendors, appeals, lines of a statement, requests for erasure, voters, invitations
    None, EventUses, Options, OptionLists, Picks, QuorumPercents, PassPercents, RoundsUp,
    MaxRetries,
    BegunByStaff, BegunByVoters, BegunByUsers, BegunByClient
        \* MaxBegun for most parts; votes; invitations; calls

\* A ballot names an option. A product that is no whole number is too far from one
\* for doubles to round it across.
ASSUME CaseworkAssumption ==
    /\ EventUses \in Nat
    /\ IsFiniteSet(Items)
    /\ QuorumPercents \subseteq 0 .. 100 /\ PassPercents \subseteq 0 .. 100
    /\ Picks \subseteq [Options -> Nat] \ {[o \in Options |-> 0]}
    /\ OptionLists \subseteq Seq(Options) \ {<<>>}
    /\ \A pair \in RoundsUp :
          pair[1] \in Nat /\ pair[2] \in Nat /\ (pair[1] * pair[2]) % 100 = 0

VARIABLES
    part,
    tender, bids, votes, late, restarted,
    pass, logs, overlapped,
    violation, appeals, steered,
    ticket, assigned, overtaken,
    lines, posted, recon, agrees, stale,
    scoped, erasures, runs, withdrawn, overruled,
    vote, ballots, proxies, lateEdit, ruleEdited, stragglers, latePicks,
    client, waits, told, stored, runCount, thrown, overran, lost,
    invites, account, granted, ended, mixed, doubled,
    crossed      \* of the tender, the violation or the vote

T == INSTANCE Tenders WITH Vendors <- Items, MaxBegun <- BegunByStaff
P == INSTANCE Passes WITH MaxBegun <- BegunByStaff
V == INSTANCE Violations WITH Appeals <- Items, MaxBegun <- BegunByStaff
R == INSTANCE ResidentRequests WITH MaxBegun <- BegunByStaff
B == INSTANCE Reconciliation WITH Lines <- Items, MaxBegun <- BegunByStaff
E == INSTANCE Erasures WITH Erasures <- Items, MaxBegun <- BegunByStaff
L == INSTANCE Ballots WITH Voters <- Items, Nobody <- None, MaxBegun <- BegunByVoters
K == INSTANCE Idempotency WITH MaxBegun <- BegunByClient, runs <- runCount, overlapped <- overran
I == INSTANCE Invites WITH Invites <- Items, MaxBegun <- BegunByUsers, crossed <- mixed

ofTender == <<tender, bids, votes, late, restarted>>
ofPass == <<pass, logs, overlapped>>
ofViolation == <<violation, appeals, steered>>
ofRequest == <<ticket, assigned, overtaken>>
ofBank == <<lines, posted, recon, agrees, stale>>
ofErasure == <<scoped, erasures, runs, withdrawn, overruled>>
ofBroadcast == <<broadcast, deliveries, optedOut, mailed, cancelled, doubtful, rescheduled>>
ofVote == <<vote, ballots, proxies, lateEdit, ruleEdited, stragglers, latePicks>>
ofCall == <<client, waits, told, stored, runCount, thrown, overran, lost>>
ofInvite == <<invites, account, granted, ended, mixed, doubled>>

vars == <<part, ofTender, ofPass, ofViolation, ofRequest, ofBank, ofErasure, ofBroadcast,
          ofVote, ofCall, ofInvite, crossed, requests, begun>>

CaseInit ==
    /\ part \in {"tender", "pass", "violation", "request", "bank", "erasure", "broadcast", "vote",
                "call", "invite"}
    /\ T!Init /\ V!Init /\ R!Init /\ B!Init /\ K!Init /\ I!Init /\ Init
    /\ E!Init
    /\ part # "erasure" => scoped
    /\ P!Init
    /\ part # "pass" => pass.type = "event"
    /\ L!Init
    /\ part # "vote" =>
          /\ ~ (vote.special \/ vote.exco \/ vote.anonymous \/ vote.allowMultiple)
          /\ <<vote.quorumPercent, vote.passThresholdPercent, vote.options>> =
                <<CHOOSE p \in QuorumPercents : TRUE, CHOOSE p \in PassPercents : TRUE,
                  CHOOSE list \in OptionLists : TRUE>>

CaseNext ==
    /\ UNCHANGED part
    /\ IF part = "tender" THEN T!Next ELSE UNCHANGED ofTender
    /\ IF part = "pass" THEN P!Next ELSE UNCHANGED ofPass
    /\ IF part = "violation" THEN V!Next ELSE UNCHANGED ofViolation
    /\ IF part = "request" THEN R!Next ELSE UNCHANGED ofRequest
    /\ IF part = "bank" THEN B!Next ELSE UNCHANGED ofBank
    /\ IF part = "erasure" THEN E!Next ELSE UNCHANGED ofErasure
    /\ IF part = "broadcast" THEN Next ELSE UNCHANGED ofBroadcast
    /\ IF part = "vote" THEN L!Next ELSE UNCHANGED ofVote
    /\ IF part = "call" THEN K!Next ELSE UNCHANGED ofCall
    /\ IF part = "invite" THEN I!Next ELSE UNCHANGED ofInvite
    /\ part \notin {"tender", "violation", "vote"} => UNCHANGED crossed

CaseSpec == CaseInit /\ [][CaseNext]_vars

-----------------------------------------------------------------------------
\* The bids of an awarded tender are decided (Tenders).
AwardDecidesBids == T!AwardDecidesBids

\* A tender is put to one vote of the board (Tenders).
OneExcoVote == T!OneExcoVote

\* A gate pass lets in no more visitors than it has uses (Passes).
EntriesWithinUses == P!EntriesWithinUses

\* A violation is under appeal while an appeal is undecided (Violations).
AppealTies == V!AppealTies

\* A request follows its table of transitions (ResidentRequests).
FollowsTable == R!FollowsTable

\* The lines of a locked period are settled, and the journal has them (Reconciliation).
LockedPeriodTies == B!LockedPeriodTies

\* Nobody is erased twice, too early, or after having withdrawn (Erasures).
ErasedAsAsked == E!ErasedAsAsked

\* A voter has one ballot (Ballots).
OneBallotEach == L!OneBallotEach

\* The outcome of a closed vote is the one its ballots give (Ballots).
OutcomeCounts == L!OutcomeCounts

\* A call that is sent again under its key is carried out once (Idempotency).
RetriesAreSafe == K!RetriesAreSafe

\* An address gets its account by one invitation, which stands (Invites).
InviteTies == I!InviteTies

=============================================================================
