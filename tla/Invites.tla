------------------------------- MODULE Invites -------------------------------
(***************************************************************************)
(* The invitations of one e-mail address into one organisation             *)
(* (InvitesService): created, sent again with a new link, revoked, expired *)
(* and redeemed, which creates the account. A transaction reads the        *)
(* invitation and writes it by id, with a password to hash in between.     *)
(***************************************************************************)
EXTENDS InFlight, FiniteSets

CONSTANT Invites    \* identities for invitations

VARIABLES
    invites,     \* the Invite rows; link: which of its tokens is stored
    account,     \* a User has the address
    granted,     \* invitations by which it was created
    ended,       \* those that were revoked or have expired
    crossed,     \* those written over a status, or a link, that had not been read
    doubled      \* an invitation was written while another was pending

inviteVars == <<invites, account, granted, ended, crossed, doubled, requests, begun>>

-----------------------------------------------------------------------------
Init ==
    /\ invites = [i \in Invites |-> [status |-> "none", lapsed |-> FALSE, link |-> 0]]
    /\ account = FALSE
    /\ granted = {} /\ ended = {} /\ crossed = {} /\ doubled = FALSE
    /\ NoRequests

Pending == {i \in Invites : invites[i].status = "pending"}

ReadBy(q, request) ==
    Begin(q, request) /\ UNCHANGED <<invites, account, granted, ended, crossed, doubled>>

\* A request has read an invitation, and found it as it wants it.
ReadTo(q, step, i) ==
    ReadBy(q, [step |-> step, invite |-> i,
               status |-> invites[i].status, link |-> invites[i].link])

Crossed(i, q) == \E f \in {"status", "link"} : invites[i][f] # requests[q][f]

\* What a request writes to its invitation.
Write(q, row) ==
    LET i == requests[q].invite IN
    /\ invites' = [invites EXCEPT ![i] = row]
    /\ crossed' = IF Crossed(i, q) THEN crossed \cup {i} ELSE crossed
    /\ Finish(q)
    /\ UNCHANGED doubled

Row(q) == invites[requests[q].invite]

-----------------------------------------------------------------------------
\* "Reject existing pending invite", looked up before the transaction.
ReadToCreate(q) == Pending = {} /\ ReadBy(q, [step |-> "create"])

Create(q) ==
    /\ At(q, "create")
    /\ \E i \in Invites :
          /\ invites[i].status = "none"
          /\ invites' = [invites EXCEPT ![i] =
                           [status |-> "pending", lapsed |-> FALSE, link |-> 1]]
    /\ doubled' = (doubled \/ Pending # {})
    /\ Finish(q)
    /\ UNCHANGED <<account, granted, ended, crossed>>

Resend(q) ==
    /\ At(q, "resend")
    /\ Write(q, [Row(q) EXCEPT !.link = @ + 1, !.lapsed = FALSE])
    /\ UNCHANGED <<account, granted, ended>>

\* revoke; and lookupByToken of a link that has lapsed.
End(q) ==
    /\ requests[q].step \in {"revoked", "expired"}
    /\ Write(q, [Row(q) EXCEPT !.status = requests[q].step])
    /\ ended' = ended \cup {requests[q].invite}
    /\ UNCHANGED <<account, granted>>

ReadToExpire(q, i) == i \in Pending /\ invites[i].lapsed /\ ReadTo(q, "expired", i)

TokenLapses(i) ==
    /\ i \in Pending /\ ~ invites[i].lapsed
    /\ invites' = [invites EXCEPT ![i].lapsed = TRUE]
    /\ UNCHANGED <<account, granted, ended, crossed, doubled, requests, begun>>

\* One conditional update.
RunExpirySweep ==
    LET due == {i \in Pending : invites[i].lapsed} IN
    /\ due # {}
    /\ invites' = [i \in Invites |-> IF i \in due THEN [invites[i] EXCEPT !.status = "expired"]
                                     ELSE invites[i]]
    /\ ended' = ended \cup due
    /\ UNCHANGED <<account, granted, crossed, doubled, requests, begun>>

-----------------------------------------------------------------------------
\* Seeded fault: whatever has a link is redeemed.
HasLink(i) == invites[i].link > 0

Redeemable(i) == i \in Pending /\ ~ invites[i].lapsed

\* By the link that is stored, for an address that has no account.
ReadToRedeem(q, i) ==
    Redeemable(i) /\ ~ account /\ ReadTo(q, "redeem", i)

\* A second account with the address violates its unique key, and nothing is kept.
Redeem(q) ==
    /\ At(q, "redeem") /\ ~ account
    /\ account' = TRUE
    /\ granted' = granted \cup {requests[q].invite}
    /\ Write(q, [Row(q) EXCEPT !.status = "redeemed"])
    /\ UNCHANGED ended

\* The address gets an account in another way.
Register ==
    /\ ~ account
    /\ account' = TRUE
    /\ UNCHANGED <<invites, granted, ended, crossed, doubled, requests, begun>>

Abort(q) ==
    ~ At(q, "idle") /\ Finish(q)
    /\ UNCHANGED <<invites, account, granted, ended, crossed, doubled>>

Next ==
    \/ RunExpirySweep \/ Register
    \/ \E i \in Invites : TokenLapses(i)
    \/ \E q \in Requests :
          \/ ReadToCreate(q) \/ Create(q) \/ Resend(q) \/ End(q) \/ Redeem(q) \/ Abort(q)
          \/ \E i \in Invites :
                \/ i \in Pending /\ \E step \in {"revoked", "resend"} : ReadTo(q, step, i)
                \/ ReadToExpire(q, i) \/ ReadToRedeem(q, i)

Spec == Init /\ [][Next]_inviteVars

-----------------------------------------------------------------------------
\* An address has one invitation pending, unless two were created at once, and gets
\* its account by one, which stays redeemed and was not revoked, expired or replaced
\* by a new link; unless that crossed with its redemption (redeem, revoke, resend).
InviteTies ==
    /\ doubled \/ Cardinality(Pending) <= 1
    /\ Cardinality(granted) <= 1
    /\ {i \in Invites : invites[i].status = "redeemed"} \subseteq granted
    /\ \A i \in granted \ crossed : invites[i].status = "redeemed" /\ i \notin ended

=============================================================================
