------------------------------- MODULE Charges -------------------------------
(***************************************************************************)
(* A charge of the billing catalog and its two ways to be billed: by a     *)
(* recurring schedule that is linked to it (RecurringInvoicesService), or  *)
(* unit by unit (UnitBillingService), where a resident may also prepay.    *)
(* A guard keeps the two from being on together; that guard, the list of   *)
(* what has been billed, and two unique keys are there against a unit      *)
(* being billed twice for a period. Each way has a term of its own that    *)
(* makes a period of it. Charges share nothing: there is one.              *)
(***************************************************************************)
EXTENDS InFlight, Integers, FiniteSets

CONSTANTS
    Units,
    Frequencies,  \* terms of a schedule, in months: monthly, quarterly, annual
    BaseTerms,    \* terms of a charge, in months: half a year as well
    LastMonth     \* bound on time

ASSUME ChargesAssumption ==
    /\ Frequencies \subseteq Nat \ {0} /\ Frequencies # {}
    /\ BaseTerms \subseteq Nat \ {0} /\ BaseTerms # {}
    /\ LastMonth \in Nat \ {0}

VARIABLES
    month,        \* the current month, from a January on
    baseTerm,     \* the term of the BillingType row
    schedule,     \* the RecurringInvoiceSchedule row
    unitBilling,  \* the UnitBilling of each unit, with its copy of the term
    charged,      \* the invoices of the charge, by unique key
    raced,        \* units and periods billed meanwhile by the other way
    prepaid,      \* units and periods prepaid although the schedule had billed months of them
    jumped        \* periods that nextRunAt was moved past

chargeHistory == <<raced, prepaid, jumped>>
chargeVars == <<month, baseTerm, schedule, unitBilling, charged, requests, begun, chargeHistory>>

-----------------------------------------------------------------------------
Months == 1 .. LastMonth

\* currentPeriodKey and periodKeyFor: the period of a term that a month is in, by
\* its first month.
Key(term, m) == <<term, m - ((m - 1) % term)>>

\* The months of a period.
Span(key) == key[2] .. (key[2] + key[1] - 1)

PeriodKeys == {Key(term, m) : term \in Frequencies \cup BaseTerms, m \in Months}

\* (parentScheduleId, unitId, periodKey) and (unitBillingId, periodKey).
Ways == {"schedule", "unit"}

ChargesInit ==
    /\ month = 1
    /\ baseTerm \in BaseTerms
    /\ schedule = [first |-> 0, frequency |-> 0, isActive |-> FALSE, nextRunAt |-> 0, lastRunAt |-> 0]
    /\ unitBilling = [u \in Units |-> [state |-> "none", baseTerm |-> 0]]
    /\ charged = [w \in Ways |-> [u \in Units |-> [k \in PeriodKeys |-> "none"]]]
    /\ NoRequests
    /\ raced = {} /\ prepaid = {} /\ jumped = {}

ActiveUnits == {u \in Units : unitBilling[u].state = "active"}

Sent(w, k) == {u \in Units : charged[w][u][k] = "sent"}

\* createMany with skipDuplicates; what was voided is a duplicate, too.
Issue(w, units, k) ==
    charged' = [charged EXCEPT ![w] =
        [u \in Units |-> IF u \in units /\ @[u][k] = "none"
                           THEN [@[u] EXCEPT ![k] = "sent"] ELSE @[u]]]

ReadCharge(q, request) ==
    Begin(q, request) /\ UNCHANGED <<month, baseTerm, schedule, unitBilling, charged, chargeHistory>>

-----------------------------------------------------------------------------
(* Switching on and off. *)

\* assertNoBillingPathConflict
FreeFor(w) == IF w = "schedule" THEN ActiveUnits = {} ELSE ~ schedule.isActive

\* computeNextRun, by months
NextRun(frequency, last) == (IF last = 0 THEN month ELSE last) + frequency

\* The periods not over yet that nextRunAt passes on its way to a month.
MovesPast(frequency, from, to) ==
    {Key(frequency, m) : m \in {n \in from .. (to - 1) : n >= month}} \ {Key(frequency, to)}

ReadToEnable(q) == FreeFor("schedule") /\ ReadCharge(q, [step |-> "enable"])

\* create, and update with isActive; the first run is not in this month.
Enable(q, frequency) ==
    /\ At(q, "enable")
    /\ schedule' = IF schedule.first = 0
                     THEN [first |-> NextRun(frequency, 0), frequency |-> frequency,
                           isActive |-> TRUE, nextRunAt |-> NextRun(frequency, 0),
                           lastRunAt |-> 0]
                     ELSE [schedule EXCEPT !.isActive = TRUE]
    /\ Finish(q)
    /\ UNCHANGED <<month, baseTerm, unitBilling, charged, chargeHistory>>

\* update with a frequency or a day of the month, of a schedule that is on or off.
ReadToReschedule(q) ==
    /\ schedule.first # 0
    /\ schedule.isActive => FreeFor("schedule")
    /\ ReadCharge(q, [step |-> "reschedule", row |-> schedule])

WriteSchedule(frequency, next) ==
    /\ schedule' = [schedule EXCEPT !.frequency = frequency, !.nextRunAt = next]
    /\ jumped' = jumped \cup
          MovesPast(frequency,
                    IF frequency = schedule.frequency THEN schedule.nextRunAt ELSE month, next)

Reschedule(q) ==
    LET row == requests[q].row IN
    /\ At(q, "reschedule")
    /\ \/ WriteSchedule(schedule.frequency, NextRun(row.frequency, row.lastRunAt))
       \/ \E frequency \in Frequencies :
             WriteSchedule(frequency, NextRun(frequency, row.lastRunAt))
    /\ Finish(q)
    /\ UNCHANGED <<month, baseTerm, unitBilling, charged, raced, prepaid>>

Pause ==
    /\ schedule.isActive
    /\ schedule' = [schedule EXCEPT !.isActive = FALSE]
    /\ UNCHANGED <<month, baseTerm, unitBilling, charged, requests, begun, chargeHistory>>

\* BillingCatalogService.update
EditTerm(term) ==
    /\ term # baseTerm
    /\ baseTerm' = term
    /\ UNCHANGED <<month, schedule, unitBilling, charged, requests, begun, chargeHistory>>

\* What is attached already keeps its copy.
AttachedAs(u, state, term) ==
    [state |-> state, baseTerm |-> IF unitBilling[u].state = "none" THEN term
                                   ELSE unitBilling[u].baseTerm]

ReadToActivate(q, units) ==
    /\ FreeFor("unit")
    /\ ReadCharge(q, [step |-> "activate", units |-> units, baseTerm |-> baseTerm])

\* attachIfMissing
BulkActivate(q) ==
    /\ At(q, "activate")
    /\ unitBilling' = [u \in Units |-> IF u \in requests[q].units
                                         THEN AttachedAs(u, "active", requests[q].baseTerm)
                                         ELSE unitBilling[u]]
    /\ Finish(q)
    /\ UNCHANGED <<month, baseTerm, schedule, charged, chargeHistory>>

\* attach, attachDefaults and update do not look at the schedule.
Switch(u, to) ==
    /\ unitBilling' = [unitBilling EXCEPT ![u] = AttachedAs(u, to, baseTerm)]
    /\ UNCHANGED <<month, baseTerm, schedule, charged, requests, begun, chargeHistory>>

\* What is attached already stays as it is.
Attach(u) == unitBilling[u].state = "none" /\ Switch(u, "active")

\* Also what bulkActivate does to switch off.
Update(u, to) == unitBilling[u].state \notin {"none", to} /\ Switch(u, to)

-----------------------------------------------------------------------------
(* Billing. *)

\* Seeded fault: the schedule looks for its own invoices only.
BilledBy(w, k) == IF w = "schedule" THEN Sent("schedule", k)
                  ELSE Sent("schedule", k) \cup Sent("unit", k)

\* Seeded fault: the list is of all periods.
BilledEver(w, k) == UNION {Sent(way, r) : way \in Ways, r \in PeriodKeys}

\* Units that have an invoice of the charge under the key, not voided: the list
\* that run makes, and billedUnitIds.
Billed(w, k) == Sent("schedule", k) \cup Sent("unit", k)

\* By hand, maybe for another period, or by the daily job; with nothing left to
\* bill the run is recorded and nextRunAt stays.
ReadToRun(q, m) ==
    LET k == Key(schedule.frequency, m) IN
    /\ schedule.isActive
    /\ Units # Billed("schedule", k)
    /\ ReadCharge(q, [step |-> "run", key |-> k, units |-> Units \ Billed("schedule", k),
                      other |-> Sent("unit", k), frequency |-> schedule.frequency])

\* Units that the other way has billed between the reading and the writing.
Overtaken(q, w) == requests[q].units \cap (Sent(w, requests[q].key) \ requests[q].other)

Run(q) ==
    LET t == requests[q]
        next == NextRun(t.frequency, month)
    IN
    /\ At(q, "run")
    /\ Issue("schedule", t.units, t.key)
    /\ schedule' = [schedule EXCEPT !.nextRunAt = next, !.lastRunAt = month]
    /\ raced' = raced \cup (Overtaken(q, "unit") \X {t.key})
    /\ jumped' = jumped \cup (MovesPast(schedule.frequency, schedule.nextRunAt, next) \ {t.key})
    /\ Finish(q)
    /\ UNCHANGED <<month, baseTerm, unitBilling, prepaid>>

\* generateForType: the guard and the active units ...
ReadToGenerate(q, m) ==
    /\ FreeFor("unit")
    /\ ActiveUnits # {}
    /\ ReadCharge(q, [step |-> "recheck", key |-> Key(baseTerm, m), units |-> ActiveUnits])

\* ... then, in a transaction, what was billed ...
Recheck(q) ==
    LET t == requests[q] IN
    /\ At(q, "recheck")
    /\ Continue(q, [step |-> "generate", key |-> t.key,
                    units |-> t.units \ Billed("unit", t.key),
                    other |-> Sent("schedule", t.key)])
    /\ UNCHANGED <<month, baseTerm, schedule, unitBilling, charged, chargeHistory>>

\* ... and the invoices.
Generate(q) ==
    LET t == requests[q] IN
    /\ At(q, "generate")
    /\ Issue("unit", t.units, t.key)
    /\ raced' = raced \cup (Overtaken(q, "schedule") \X {t.key})
    /\ Finish(q)
    /\ UNCHANGED <<month, baseTerm, schedule, unitBilling, prepaid, jumped>>

\* computePrepayPeriods: the first periods from now on that the unit has no
\* invoice for, of the term it was attached with; the schedule is not looked at.
UnbilledKeys(u) ==
    {k \in {Key(unitBilling[u].baseTerm, m) : m \in month .. LastMonth} : charged["unit"][u][k] = "none"}
First(n, keys) == {k \in keys : Cardinality({r \in keys : r[2] < k[2]}) < n}

Quote(q, u, n) ==
    /\ u \in ActiveUnits
    /\ UnbilledKeys(u) # {}
    /\ ReadCharge(q, [step |-> "prepay", unit |-> u, keys |-> First(n, UnbilledKeys(u))])

\* materializePrepayFromPlan, when the payment has come: those of the plan that
\* have no invoice by now.
Materialize(q) ==
    LET t == requests[q]
        fresh == {k \in t.keys : charged["unit"][t.unit][k] = "none"}
    IN
    /\ At(q, "prepay")
    /\ charged' = [charged EXCEPT !["unit"][t.unit] =
                       [k \in PeriodKeys |-> IF k \in fresh THEN "sent" ELSE @[k]]]
    /\ prepaid' = prepaid \cup {<<t.unit, k>> : k \in {p \in fresh : \E r \in PeriodKeys :
                                  Span(p) \cap Span(r) # {} /\ t.unit \in Sent("schedule", r)}}
    /\ Finish(q)
    /\ UNCHANGED <<month, baseTerm, schedule, unitBilling, raced, jumped>>

\* InvoicesService.void
VoidCharge(w, u, k) ==
    /\ charged[w][u][k] = "sent"
    /\ charged' = [charged EXCEPT ![w][u][k] = "voided"]
    /\ UNCHANGED <<month, baseTerm, schedule, unitBilling, requests, begun, chargeHistory>>

AbortCharge(q) ==
    /\ ~ At(q, "idle")
    /\ Finish(q)
    /\ UNCHANGED <<month, baseTerm, schedule, unitBilling, charged, chargeHistory>>

-----------------------------------------------------------------------------
\* A month is long: the daily job gets round to a schedule that is due.
RunIsDue ==
    /\ schedule.isActive /\ schedule.nextRunAt <= month
    /\ Billed("schedule", Key(schedule.frequency, month)) # Units

NextMonth ==
    /\ month < LastMonth
    /\ ~ RunIsDue
    /\ month' = month + 1
    /\ UNCHANGED <<baseTerm, schedule, unitBilling, charged, requests, begun, chargeHistory>>

Reads(q) ==
    \/ ReadToEnable(q) \/ ReadToReschedule(q)
    \/ \E units \in SUBSET Units \ {{}} : ReadToActivate(q, units)
    \/ \E m \in Months : ReadToRun(q, m) \/ ReadToGenerate(q, m)
    \/ \E u \in Units, n \in 1 .. 2 : Quote(q, u, n)

Writes(q) ==
    \/ \E frequency \in Frequencies : Enable(q, frequency)
    \/ Reschedule(q) \/ BulkActivate(q) \/ Run(q) \/ Recheck(q) \/ Generate(q) \/ Materialize(q)

ChargesNext ==
    \/ \E q \in Requests : Reads(q) \/ Writes(q) \/ AbortCharge(q)
    \/ \E u \in Units : \/ Attach(u)
                        \/ \E to \in {"active", "inactive"} : Update(u, to)
                        \/ \E w \in Ways, k \in PeriodKeys : VoidCharge(w, u, k)
    \/ \E term \in BaseTerms : EditTerm(term)
    \/ Pause \/ NextMonth

ChargesSpec == ChargesInit /\ [][ChargesNext]_chargeVars

-----------------------------------------------------------------------------
\* A unit is not billed twice under one key of a charge, unless the two ways raced,
\* or the resident prepaid a period that the schedule had billed (run,
\* generateForType, materializePrepayFromPlan).
OneBillPerKey ==
    \A k \in PeriodKeys : \A u \in Sent("schedule", k) \cap Sent("unit", k) :
        <<u, k>> \in raced \cup prepaid

\* "this makes a run idempotent against the charge no matter how the invoice was
\* issued, so the two paths can never double-bill" (run): even where they do not
\* race and nobody prepays, no month is billed to a unit both ways.
NeverDoubleBilled ==
    raced = {} /\ prepaid = {} =>
        \A k, r \in PeriodKeys :
            Span(k) \cap Span(r) # {} => Sent("schedule", k) \cap Sent("unit", r) = {}

\* While a schedule is on, no period of its frequency passes, from its first run on,
\* in which a unit is not billed, unless nextRunAt was moved past that period: by an
\* edit of the schedule, or by a run for another period (runDueSchedules, run,
\* update).
NoPeriodSkipped ==
    [][/\ month' # month /\ schedule.isActive /\ schedule.first <= month
       /\ Key(schedule.frequency, month') # Key(schedule.frequency, month)
       => \/ Key(schedule.frequency, month) \in jumped
          \/ \A u \in Units : \E w \in Ways :
                charged[w][u][Key(schedule.frequency, month)] # "none"]_chargeVars

=============================================================================
