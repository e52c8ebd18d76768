---------------------------- MODULE Reconciliation ----------------------------
(***************************************************************************)
(* The reconciliation of one bank account over one period                  *)
(* (BankTransactionsService): lines of the bank's statement are imported,  *)
(* matched, which posts a journal entry, unmatched, which posts its        *)
(* reversal, or excluded; then the period is locked. Every operation is a  *)
(* transaction that reads without locks and writes by id; only the locking *)
(* compares what it writes over.                                           *)
(***************************************************************************)
EXTENDS InFlight, Integers

CONSTANT Lines    \* lines of the statement, by externalId, dated in the period

VARIABLES
    lines,       \* the status of each BankTransaction row
    posted,      \* journal entries of each line, less their reversals
    recon,       \* the status of the BankReconciliation row
    agrees,      \* its closing balance is that of the statement
    stale        \* lines written, or locked, on an old reading of the line or the period

reconVars == <<lines, posted, recon, agrees, stale, requests, begun>>

-----------------------------------------------------------------------------
Statuses == {"absent", "unmatched", "matched", "excluded"}

Init ==
    /\ lines = [l \in Lines |-> "absent"]
    /\ posted = [l \in Lines |-> 0]
    /\ recon = "none" /\ agrees = FALSE
    /\ NoRequests
    /\ stale = {}

\* A request on line l has read the rows.
ReadLine(q, l, step) ==
    /\ Begin(q, [step |-> step, line |-> l, status |-> lines[l], recon |-> recon])
    /\ UNCHANGED <<lines, posted, recon, agrees, stale>>

\* The line has changed since, or the period was locked.
Stale(q, l) ==
    \/ lines[l] # requests[q].status
    \/ recon = "locked" /\ requests[q].recon # "locked"

\* What a request writes to its line.
WriteLine(q, status, entries) ==
    LET l == requests[q].line IN
    /\ lines' = [lines EXCEPT ![l] = status]
    /\ posted' = [posted EXCEPT ![l] = @ + entries]
    /\ stale' = IF Stale(q, l) THEN stale \cup {l} ELSE stale
    /\ Finish(q)
    /\ UNCHANGED <<recon, agrees>>

-----------------------------------------------------------------------------
\* "Reject any transaction whose date falls inside a locked reconciliation period":
\* looked up before the transaction begins.
ReadToImport(q, l) == recon # "locked" /\ ReadLine(q, l, "import")

\* A line that is there already is skipped.
Import(q) ==
    LET l == requests[q].line IN
    /\ At(q, "import")
    /\ IF lines[l] = "absent" THEN WriteLine(q, "unmatched", 0)
       ELSE Finish(q) /\ UNCHANGED <<lines, posted, recon, agrees, stale>>

ReadToMatch(q, l) == lines[l] = "unmatched" /\ ReadLine(q, l, "match")

\* The journal entry that mirrors the line; which accounts is left out.
Match(q) == At(q, "match") /\ WriteLine(q, "matched", 1)

ReadToExclude(q, l) == lines[l] = "unmatched" /\ ReadLine(q, l, "exclude")

Exclude(q) == At(q, "exclude") /\ WriteLine(q, "excluded", 0)

Unmatchable(l) == lines[l] = "matched" /\ recon # "locked"

ReadToUnmatch(q, l) == Unmatchable(l) /\ ReadLine(q, l, "unmatch")

\* "do NOT delete the original posted JE. Post a reversing JE"
Unmatch(q) == At(q, "unmatch") /\ WriteLine(q, "unmatched", -1)

-----------------------------------------------------------------------------
\* One for a period, by a unique key. The balances are computed now, and once.
StartReconciliation ==
    /\ recon = "none"
    /\ recon' = "open" /\ agrees' \in BOOLEAN
    /\ UNCHANGED <<lines, posted, stale, requests, begun>>

\* Seeded fault: what is unmatched is not counted.
LockableIfAgreed == recon = "open" /\ agrees

Lockable == recon = "open" /\ agrees /\ \A l \in Lines : lines[l] # "unmatched"

ReadToLock(q) ==
    /\ Lockable
    /\ Begin(q, [step |-> "lock", lines |-> lines])
    /\ UNCHANGED <<lines, posted, recon, agrees, stale>>

\* updateMany "scoped by id + status='open'"; of the lines nothing is compared.
LockReconciliation(q) ==
    /\ At(q, "lock")
    /\ IF recon = "open"
         THEN /\ recon' = "locked"
              /\ stale' = stale \cup {l \in Lines : lines[l] # requests[q].lines[l]}
         ELSE UNCHANGED <<recon, stale>>
    /\ Finish(q)
    /\ UNCHANGED <<lines, posted, agrees>>

Abort(q) == ~ At(q, "idle") /\ Finish(q) /\ UNCHANGED <<lines, posted, recon, agrees, stale>>

Next ==
    \/ StartReconciliation
    \/ \E q \in Requests :
          \/ Import(q) \/ Match(q) \/ Exclude(q) \/ Unmatch(q)
          \/ ReadToLock(q) \/ LockReconciliation(q) \/ Abort(q)
          \/ \E l \in Lines : \/ ReadToImport(q, l) \/ ReadToMatch(q, l)
                              \/ ReadToExclude(q, l) \/ ReadToUnmatch(q, l)

Spec == Init /\ [][Next]_reconVars

-----------------------------------------------------------------------------
\* Once a period is locked each of its lines is matched, with one journal entry that
\* stands, or excluded, with none; unless the line was written, or the period was
\* locked, on a reading that was no longer so (match, unmatch, lockReconciliation).
LockedPeriodTies ==
    recon = "locked" =>
        \A l \in Lines \ stale :
            \/ lines[l] = "matched" /\ posted[l] = 1
            \/ lines[l] \in {"absent", "excluded"} /\ posted[l] = 0

=============================================================================
