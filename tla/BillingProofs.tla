---------------------------- MODULE BillingProofs ----------------------------
(* Theorems about the two engines that bill in the background: the charges, for *)
(* any units and terms, and the late fees, for any policies and amounts.      *)
EXTENDS LateFees, Charges, TLAPS

-----------------------------------------------------------------------------
(* Charges: the inductive invariant. *)

ChargeStatuses == {"none", "sent", "voided"}

ChargeTypeOK ==
    /\ month \in Months
    /\ baseTerm \in BaseTerms
    /\ schedule \in [first : Nat, frequency : Nat, isActive : BOOLEAN, nextRunAt : Nat, lastRunAt : Nat]
    /\ charged \in [Ways -> [Units -> [PeriodKeys -> ChargeStatuses]]]
    /\ DOMAIN requests = Requests

\* Whether anything was ever issued to the unit under the key, or to all units.
Has(u, k) == \E w \in Ways : charged[w][u][k] # "none"
AllHave(k) == \A u \in Units : Has(u, k)

\* What a handler has read still tells it this much when it writes: no unit that
\* it is going to bill was billed by the other way when it looked, and a run
\* leaves out no unit that has nothing.
KnowsEnough(t) ==
    /\ t.step \in {"run", "recheck", "generate"} => t.key \in PeriodKeys
    /\ t.step \in {"run", "generate"} => t.units \cap t.other = {}
    /\ t.step = "run" => t.frequency \in Nat /\ \A u \in Units \ t.units : Has(u, t.key)
    /\ t.step = "reschedule" => t.row.lastRunAt \in Nat /\ t.row.frequency \in Nat
    /\ t.step = "prepay" => t.unit \in Units

\* Not over yet, and before the next run.
Ahead(m) == month <= m /\ m < schedule.nextRunAt

\* A period that nextRunAt has passed is billed, or is known to have been jumped.
Done(k) == k \in jumped \/ (k \in PeriodKeys /\ AllHave(k))

OnTime ==
    /\ schedule.isActive => schedule.first # 0
    /\ schedule.first # 0 =>
          /\ schedule.frequency \in Frequencies
          /\ \A m \in Nat : schedule.first <= m /\ Ahead(m) =>
                \/ Done(Key(schedule.frequency, m))
                \/ Key(schedule.frequency, m) = Key(schedule.frequency, schedule.nextRunAt)

ChargeIInv ==
    /\ ChargeTypeOK
    /\ \A q \in Requests : KnowsEnough(requests[q])
    /\ OnTime
    /\ OneBillPerKey

-----------------------------------------------------------------------------
(* Periods. *)

\* A term is a number of months.
LEMMA Terms == /\ \A term \in Frequencies \cup BaseTerms : term \in Nat /\ term > 0
               /\ \A m \in Months : m \in Nat /\ m > 0
BY ChargesAssumption DEF Months

\* Whole periods: what lies in a later one begins not before the earlier ends.
LEMMA WholePeriods ==
    ASSUME NEW term \in Nat, term > 0, NEW p \in Int, NEW r \in Int, p < r
    PROVE  term * p + term <= term * r
<1>1. PICK d \in Nat : r = p + 1 + d
  <2>1. r - p - 1 \in Nat /\ r = p + 1 + (r - p - 1)
    OBVIOUS
  <2> QED BY <2>1
<1>2. term * r = term * p + term + term * d
  BY <1>1
<1>3. term * d \in Nat
  OBVIOUS
<1>4. term * p \in Int
  OBVIOUS
<1> QED BY <1>2, <1>3, <1>4

\* What lies between two months of a period lies in it (currentPeriodKey).
LEMMA KeyBetween ==
    ASSUME NEW term \in Nat, term > 0, NEW a \in Nat, NEW b \in Nat, NEW c \in Nat,
           a > 0, a <= b, b <= c, Key(term, a) = Key(term, c)
    PROVE  Key(term, b) = Key(term, a)
<1>1. \A m \in Nat : m > 0 =>
         \E p \in Int, r \in Int : /\ m - 1 = term * p + r /\ 0 <= r /\ r < term
                                 /\ Key(term, m) = <<term, term * p + 1>>
  <2> SUFFICES ASSUME NEW m \in Nat, m > 0
               PROVE  \E p \in Int, r \in Int : /\ m - 1 = term * p + r /\ 0 <= r /\ r < term
                                               /\ Key(term, m) = <<term, term * p + 1>>
    OBVIOUS
  <2> DEFINE p == (m - 1) \div term
             r == (m - 1) % term
  <2>1. p \in Int /\ r \in Int /\ 0 <= r /\ r < term /\ m - 1 = term * p + r
    OBVIOUS
  <2>2. Key(term, m) = <<term, m - r>>
    BY DEF Key
  <2> HIDE DEF p, r
  <2>3. m - r = term * p + 1
    <3>1. PICK x \in Int : x = term * p
      BY <2>1
    <3> QED BY <2>1, <3>1
  <2> QED BY <2>1, <2>2, <2>3
<1>0. b > 0 /\ c > 0
  OBVIOUS
<1>2. PICK pa \in Int, ra \in Int : a - 1 = term * pa + ra /\ 0 <= ra /\ ra < term
                                   /\ Key(term, a) = <<term, term * pa + 1>>
  BY <1>1
<1>3. PICK pb \in Int, rb \in Int : b - 1 = term * pb + rb /\ 0 <= rb /\ rb < term
                                   /\ Key(term, b) = <<term, term * pb + 1>>
  BY <1>0, <1>1
<1>4. PICK pc \in Int, rc \in Int : c - 1 = term * pc + rc /\ 0 <= rc /\ rc < term
                                   /\ Key(term, c) = <<term, term * pc + 1>>
  BY <1>0, <1>1
<1>5. PICK xa \in Int, xb \in Int, xc \in Int :
         xa = term * pa /\ xb = term * pb /\ xc = term * pc
  OBVIOUS
<1>6. xa = xc
  <2>1. Key(term, a) = <<term, xa + 1>> /\ Key(term, c) = <<term, xc + 1>>
    BY <1>2, <1>4, <1>5
  <2>2. <<term, xa + 1>>[2] = <<term, xc + 1>>[2]
    BY <2>1
  <2>3. xa + 1 = xc + 1
    BY <2>2
  <2> QED BY <1>5, <2>3
<1>7. ~ pb < pa
  BY <1>2, <1>3, <1>5, WholePeriods
<1>8. ~ pa < pb
  <2>1. SUFFICES ASSUME pa < pb PROVE FALSE
    OBVIOUS
  <2>2. xa + term <= xb
    BY <1>5, <2>1, WholePeriods
  <2> QED BY <1>2, <1>3, <1>4, <1>5, <1>6, <2>2
<1>9. pa = pb
  BY <1>7, <1>8
<1> QED BY <1>2, <1>3, <1>9

\* A period that nextRunAt passes on its way to a month is noted, unless it is the
\* one of that month (run, update).
LEMMA Passed ==
    ASSUME NEW term \in Nat, NEW from \in Nat, NEW to \in Nat, NEW m \in Nat,
           month <= m, from <= m, m < to, month \in Nat
    PROVE  Key(term, m) \in MovesPast(term, from, to) \/ Key(term, m) = Key(term, to)
<1>1. m \in from .. (to - 1)
  OBVIOUS
<1> QED BY <1>1 DEF MovesPast

-----------------------------------------------------------------------------
(* What a step does to the requests and to the charged. *)

\* No invoice disappears: what was issued stays issued, or is voided.
Kept == \A w \in Ways, u \in Units, p \in PeriodKeys :
           charged[w][u][p] # "none" => charged'[w][u][p] # "none"

\* createMany adds the charged that are not there, and changes no other.
LEMMA IssueEffect ==
    ASSUME ChargeTypeOK, NEW w \in Ways, NEW units, NEW p \in PeriodKeys, Issue(w, units, p)
    PROVE  /\ charged' \in [Ways -> [Units -> [PeriodKeys -> ChargeStatuses]]]
           /\ \A v \in Ways, u \in Units, r \in PeriodKeys :
                 charged'[v][u][r] =
                    IF v = w /\ r = p /\ u \in units /\ charged[v][u][r] = "none"
                      THEN "sent" ELSE charged[v][u][r]
<1> DEFINE rows == [u \in Units |-> IF u \in units /\ charged[w][u][p] = "none"
                                      THEN [charged[w][u] EXCEPT ![p] = "sent"]
                                      ELSE charged[w][u]]
<1>1. charged' = [charged EXCEPT ![w] = rows]
  BY DEF Issue
<1>2. \A u \in Units : charged[w][u] \in [PeriodKeys -> ChargeStatuses]
  BY DEF ChargeTypeOK
<1>3. rows \in [Units -> [PeriodKeys -> ChargeStatuses]]
  BY <1>2 DEF ChargeStatuses
<1>4. \A u \in Units, r \in PeriodKeys :
         rows[u][r] = IF r = p /\ u \in units /\ charged[w][u][r] = "none"
                        THEN "sent" ELSE charged[w][u][r]
  BY <1>2
<1> HIDE DEF rows
<1>5. charged' \in [Ways -> [Units -> [PeriodKeys -> ChargeStatuses]]]
  BY <1>1, <1>3 DEF ChargeTypeOK
<1>6. charged'[w] = rows /\ \A v \in Ways \ {w} : charged'[v] = charged[v]
  BY <1>1 DEF ChargeTypeOK
<1> QED BY <1>4, <1>5, <1>6

\* What the handlers know survives a step that ends one or none of them, as long
\* as no invoice disappears.
LEMMA StillKnows ==
    ASSUME ChargeTypeOK, \A q \in Requests : KnowsEnough(requests[q]),
           \A q \in Requests : requests'[q] = requests[q] \/ requests'[q] = Idle, Kept
    PROVE  \A q \in Requests : KnowsEnough(requests[q])'
<1> SUFFICES ASSUME NEW r \in Requests PROVE KnowsEnough(requests[r])'
  OBVIOUS
<1>1. CASE requests'[r] = Idle
  BY <1>1 DEF Idle, KnowsEnough
<1>2. CASE requests'[r] = requests[r]
  <2>1. PICK t : t = requests[r]
    OBVIOUS
  <2>2. \A u \in Units, k \in PeriodKeys : Has(u, k) => Has(u, k)'
    BY DEF Has, Kept
  <2>3. /\ t.step \in {"run", "recheck", "generate"} => t.key \in PeriodKeys
        /\ t.step \in {"run", "generate"} => t.units \cap t.other = {}
        /\ t.step = "prepay" => t.unit \in Units
        /\ t.step = "reschedule" => t.row.lastRunAt \in Nat /\ t.row.frequency \in Nat
        /\ t.step = "run" => t.frequency \in Nat /\ \A u \in Units \ t.units : Has(u, t.key)
    BY <2>1 DEF KnowsEnough
  <2>4. t.step = "run" => \A u \in Units \ t.units : Has(u, t.key)'
    BY <2>2, <2>3
  <2>5. requests'[r] = t
    BY <1>2, <2>1
  <2> QED BY <2>3, <2>4, <2>5 DEF KnowsEnough
<1> QED BY <1>1, <1>2

\* What is done stays done.
LEMMA KeptDone ==
    ASSUME Kept, jumped \subseteq jumped', NEW k, Done(k) PROVE Done(k)'
BY DEF Kept, Done, AllHave, Has

\* A schedule stays on time when its periods and its next run stay as they are.
LEMMA StillOnTime ==
    ASSUME ChargeTypeOK, OnTime, month' \in Nat, month <= month', Kept, jumped \subseteq jumped',
           schedule'.first = schedule.first, schedule'.frequency = schedule.frequency,
           schedule'.nextRunAt = schedule.nextRunAt, schedule'.isActive => schedule'.first # 0
    PROVE  OnTime'
<1> SUFFICES ASSUME schedule.first # 0, NEW m \in Nat, schedule.first <= m,
                    month' <= m, m < schedule.nextRunAt,
                    Key(schedule.frequency, m) # Key(schedule.frequency, schedule.nextRunAt)
             PROVE  Done(Key(schedule.frequency, m))'
  BY DEF OnTime, Ahead, Key
<1>1. month \in Nat
  BY Terms DEF ChargeTypeOK
<1>2. Done(Key(schedule.frequency, m))
  BY <1>1 DEF OnTime, Ahead
<1> QED BY <1>2, KeptDone

\* A handler that ends leaves the others alone.
LEMMA FinishEffect ==
    ASSUME ChargeTypeOK, NEW q \in Requests, Finish(q)
    PROVE  /\ DOMAIN requests' = Requests
           /\ \A r \in Requests : requests'[r] = requests[r] \/ requests'[r] = Idle
BY DEF ChargeTypeOK, Finish, Continue

\* A step that only reads, and remembers what the next one needs, keeps the invariant.
LEMMA ReadIInv ==
    ASSUME ChargeIInv, NEW q \in Requests, NEW t, requests' = [requests EXCEPT ![q] = t],
           KnowsEnough(t), UNCHANGED <<month, baseTerm, schedule, charged, chargeHistory>>
    PROVE  ChargeIInv'
<1>1. ChargeTypeOK'
  BY DEF ChargeIInv, ChargeTypeOK
<1>2. \A r \in Requests : requests'[r] = requests[r] \/ requests'[r] = t
  BY DEF ChargeIInv, ChargeTypeOK
<1>3. \A r \in Requests : KnowsEnough(requests[r])'
  BY <1>2 DEF ChargeIInv, KnowsEnough, Has
<1>4. OnTime' /\ OneBillPerKey'
  BY DEF ChargeIInv, OnTime, Ahead, Done, AllHave, Has, OneBillPerKey, Sent, chargeHistory
<1> QED BY <1>1, <1>3, <1>4 DEF ChargeIInv

-----------------------------------------------------------------------------
\* The first state satisfies the invariant.
LEMMA ChargesInitIInv == ChargesInit => ChargeIInv
<1> SUFFICES ASSUME ChargesInit PROVE ChargeIInv
  OBVIOUS
<1>1. ChargeTypeOK
  BY ChargesAssumption DEF ChargesInit, ChargeTypeOK, NoRequests, Months, ChargeStatuses
<1>2. \A q \in Requests : KnowsEnough(requests[q])
  BY DEF ChargesInit, NoRequests, Idle, KnowsEnough
<1>3. OnTime
  BY DEF ChargesInit, OnTime
<1>4. OneBillPerKey
  BY DEF ChargesInit, OneBillPerKey, Sent, Ways
<1> QED BY <1>1, <1>2, <1>3, <1>4 DEF ChargeIInv

\* A run bills all units that have nothing, and what else nextRunAt passes is noted.
LEMMA RunIInv == ASSUME ChargeIInv, NEW q \in Requests, Run(q) PROVE ChargeIInv'
<1>0. ChargeTypeOK /\ OnTime /\ OneBillPerKey /\ \A r \in Requests : KnowsEnough(requests[r])
  BY DEF ChargeIInv
<1>1. PICK p : p = requests[q].key
  OBVIOUS
<1>2. PICK units : units = requests[q].units
  OBVIOUS
<1>n. PICK next : next = NextRun(requests[q].frequency, month)
  OBVIOUS
<1>t. month \in Nat /\ month > 0
  BY <1>0, Terms DEF ChargeTypeOK
<1>3. /\ p \in PeriodKeys /\ units \cap requests[q].other = {}
      /\ \A u \in Units \ units : Has(u, p)
      /\ next \in Nat
  BY <1>0, <1>1, <1>2, <1>n, <1>t DEF Run, At, KnowsEnough, NextRun
<1>4. /\ Issue("schedule", units, p)
      /\ schedule' = [schedule EXCEPT !.nextRunAt = next, !.lastRunAt = month]
      /\ raced' = raced \cup (Overtaken(q, "unit") \X {p})
      /\ jumped' = jumped \cup (MovesPast(schedule.frequency, schedule.nextRunAt, next) \ {p})
      /\ UNCHANGED <<month, baseTerm, prepaid>>
      /\ Finish(q)
  BY <1>1, <1>2, <1>n DEF Run
<1>5. /\ charged' \in [Ways -> [Units -> [PeriodKeys -> ChargeStatuses]]]
      /\ \A v \in Ways, u \in Units, r \in PeriodKeys :
            charged'[v][u][r] =
               IF v = "schedule" /\ r = p /\ u \in units /\ charged[v][u][r] = "none"
                 THEN "sent" ELSE charged[v][u][r]
  BY <1>0, <1>3, <1>4, IssueEffect DEF Ways
<1>6. Kept
  BY <1>5 DEF Kept
<1>7. ChargeTypeOK'
  <2>1. DOMAIN requests' = Requests
    BY <1>0, <1>4, FinishEffect
  <2> QED BY <1>0, <1>3, <1>4, <1>5, <1>t, <2>1 DEF ChargeTypeOK
<1>8. \A r \in Requests : KnowsEnough(requests[r])'
  BY <1>0, <1>4, <1>6, FinishEffect, StillKnows
<1>9. OnTime'
  <2>1. /\ schedule'.first = schedule.first /\ schedule'.isActive = schedule.isActive
        /\ schedule'.frequency = schedule.frequency /\ schedule'.nextRunAt = next
        /\ schedule.nextRunAt \in Nat
    BY <1>0, <1>4 DEF ChargeTypeOK
  <2>2. PICK term : term = schedule.frequency
    OBVIOUS
  <2>3. SUFFICES ASSUME schedule.first # 0, term \in Frequencies, NEW m \in Nat,
                        schedule.first <= m, month <= m, m < next, Key(term, m) # Key(term, next)
                 PROVE  Done(Key(term, m))'
    BY <1>0, <1>4, <2>1, <2>2 DEF OnTime, Ahead, Key
  <2>4. term \in Nat /\ term > 0
    BY <2>3, Terms
  <2>5. Done(p)'
    <3>1. \A u \in Units : Has(u, p)'
      BY <1>3, <1>5, <1>6 DEF Has, Kept, Ways
    <3> QED BY <1>3, <3>1 DEF Done, AllHave, Has
  <2>6. ASSUME NEW k, k \in MovesPast(term, schedule.nextRunAt, next) PROVE Done(k)'
    BY <1>4, <2>2, <2>5, <2>6 DEF Done
  <2>7. CASE schedule.nextRunAt <= m
    BY <1>t, <1>3, <2>1, <2>3, <2>4, <2>6, <2>7, Passed
  <2>8. CASE m < schedule.nextRunAt
    <3>1. CASE Done(Key(term, m))
      BY <1>4, <1>6, <3>1, KeptDone
    <3>2. CASE Key(term, m) = Key(term, schedule.nextRunAt)
      <4>1. CASE next <= schedule.nextRunAt
        BY <1>t, <1>3, <2>1, <2>3, <2>4, <3>2, <4>1, KeyBetween
      <4>2. CASE schedule.nextRunAt < next
        BY <1>t, <1>3, <2>1, <2>3, <2>4, <2>6, <2>8, <3>2, <4>2, Passed
      <4> QED BY <1>3, <2>1, <4>1, <4>2
    <3> QED BY <1>0, <2>2, <2>3, <2>8, <3>1, <3>2 DEF OnTime, Ahead
  <2> QED BY <2>1, <2>3, <2>7, <2>8
<1>10. OneBillPerKey'
  <2> SUFFICES ASSUME NEW r \in PeriodKeys, NEW u \in Units,
                      charged'["schedule"][u][r] = "sent", charged'["unit"][u][r] = "sent",
                      <<u, r>> \notin raced \cup prepaid
               PROVE  <<u, r>> \in raced'
    BY <1>4 DEF OneBillPerKey, Sent
  <2>1. charged["unit"][u][r] = "sent"
    BY <1>5 DEF Ways
  <2>2. charged["schedule"][u][r] # "sent"
    BY <1>0, <2>1 DEF OneBillPerKey, Sent
  <2>3. r = p /\ u \in units
    BY <1>5, <2>2 DEF Ways
  <2>4. u \in Overtaken(q, "unit")
    BY <1>1, <1>2, <1>3, <2>1, <2>3 DEF Overtaken, Sent
  <2> QED BY <1>4, <2>3, <2>4
<1> QED BY <1>7, <1>8, <1>9, <1>10 DEF ChargeIInv

\* A generation bills no unit that the schedule had billed when it looked.
LEMMA GenerateIInv == ASSUME ChargeIInv, NEW q \in Requests, Generate(q) PROVE ChargeIInv'
<1>0. ChargeTypeOK /\ OnTime /\ OneBillPerKey /\ \A r \in Requests : KnowsEnough(requests[r])
  BY DEF ChargeIInv
<1>1. PICK p : p = requests[q].key
  OBVIOUS
<1>2. PICK units : units = requests[q].units
  OBVIOUS
<1>3. p \in PeriodKeys /\ units \cap requests[q].other = {}
  BY <1>0, <1>1, <1>2 DEF Generate, At, KnowsEnough
<1>4. /\ Issue("unit", units, p)
      /\ raced' = raced \cup (Overtaken(q, "schedule") \X {p})
      /\ UNCHANGED <<month, baseTerm, schedule, prepaid, jumped>>
      /\ Finish(q)
  BY <1>1, <1>2 DEF Generate
<1>5. /\ charged' \in [Ways -> [Units -> [PeriodKeys -> ChargeStatuses]]]
      /\ \A v \in Ways, u \in Units, r \in PeriodKeys :
            charged'[v][u][r] =
               IF v = "unit" /\ r = p /\ u \in units /\ charged[v][u][r] = "none"
                 THEN "sent" ELSE charged[v][u][r]
  BY <1>0, <1>3, <1>4, IssueEffect DEF Ways
<1>6. Kept
  BY <1>5 DEF Kept
<1>7. ChargeTypeOK'
  BY <1>0, <1>4, <1>5, FinishEffect DEF ChargeTypeOK
<1>8. \A r \in Requests : KnowsEnough(requests[r])'
  BY <1>0, <1>4, <1>6, FinishEffect, StillKnows
<1>9. OnTime'
  BY <1>0, <1>4, <1>6, Terms, StillOnTime DEF OnTime, ChargeTypeOK
<1>10. OneBillPerKey'
  <2> SUFFICES ASSUME NEW r \in PeriodKeys, NEW u \in Units,
                      charged'["schedule"][u][r] = "sent", charged'["unit"][u][r] = "sent",
                      <<u, r>> \notin raced \cup prepaid
               PROVE  <<u, r>> \in raced'
    BY <1>4 DEF OneBillPerKey, Sent
  <2>1. charged["schedule"][u][r] = "sent"
    BY <1>5 DEF Ways
  <2>2. charged["unit"][u][r] # "sent"
    BY <1>0, <2>1 DEF OneBillPerKey, Sent
  <2>3. r = p /\ u \in units
    BY <1>5, <2>2 DEF Ways
  <2>4. u \in Overtaken(q, "schedule")
    BY <1>1, <1>2, <1>3, <2>1, <2>3 DEF Overtaken, Sent
  <2> QED BY <1>4, <2>3, <2>4
<1> QED BY <1>7, <1>8, <1>9, <1>10 DEF ChargeIInv

\* What is prepaid although the schedule had billed it is known.
LEMMA MaterializeIInv == ASSUME ChargeIInv, NEW q \in Requests, Materialize(q) PROVE ChargeIInv'
<1>0. ChargeTypeOK /\ OnTime /\ OneBillPerKey /\ \A r \in Requests : KnowsEnough(requests[r])
  BY DEF ChargeIInv
<1>1. PICK unit : unit = requests[q].unit
  OBVIOUS
<1>2. unit \in Units
  BY <1>0, <1>1 DEF Materialize, At, KnowsEnough
<1> DEFINE fresh == {p \in requests[q].keys : charged["unit"][unit][p] = "none"}
           rows == [p \in PeriodKeys |-> IF p \in fresh THEN "sent" ELSE charged["unit"][unit][p]]
<1>3. /\ charged' = [charged EXCEPT !["unit"][unit] = rows]
      /\ prepaid' = prepaid \cup {<<unit, k>> : k \in {p \in fresh : \E r \in PeriodKeys :
                        Span(p) \cap Span(r) # {} /\ unit \in Sent("schedule", r)}}
      /\ Finish(q)
      /\ UNCHANGED <<month, baseTerm, schedule, raced, jumped>>
  BY <1>1 DEF Materialize
<1>4. charged["unit"][unit] \in [PeriodKeys -> ChargeStatuses]
  BY <1>0, <1>2 DEF ChargeTypeOK, Ways
<1>5. rows \in [PeriodKeys -> ChargeStatuses]
  BY <1>4 DEF ChargeStatuses
<1>6. \A p \in PeriodKeys : /\ rows[p] # "none" \/ charged["unit"][unit][p] = "none"
                         /\ rows[p] = "sent" => p \in fresh \/ charged["unit"][unit][p] = "sent"
  OBVIOUS
<1>f. PICK new : new = fresh
  OBVIOUS
<1>r. PICK line : line = rows
  OBVIOUS
<1>g. /\ charged' = [charged EXCEPT !["unit"][unit] = line]
      /\ prepaid' = prepaid \cup {<<unit, k>> : k \in {p \in new : \E r \in PeriodKeys :
                        Span(p) \cap Span(r) # {} /\ unit \in Sent("schedule", r)}}
      /\ line \in [PeriodKeys -> ChargeStatuses]
      /\ \A p \in PeriodKeys : /\ line[p] # "none" \/ charged["unit"][unit][p] = "none"
                            /\ line[p] = "sent" => p \in new \/ charged["unit"][unit][p] = "sent"
  BY <1>3, <1>5, <1>6, <1>f, <1>r
<1>h. \A p \in PeriodKeys : line[p] # "none" \/ charged["unit"][unit][p] = "none"
  BY <1>6, <1>r
<1> HIDE DEF fresh, rows
<1>7. /\ charged' \in [Ways -> [Units -> [PeriodKeys -> ChargeStatuses]]]
      /\ \A v \in Ways, u \in Units, r \in PeriodKeys :
            charged'[v][u][r] = IF v = "unit" /\ u = unit THEN line[r] ELSE charged[v][u][r]
  BY <1>0, <1>2, <1>g DEF ChargeTypeOK, Ways
<1>8. Kept
  <2>1. \A v \in Ways, u \in Units, k \in PeriodKeys :
           charged[v][u][k] # "none" => charged'[v][u][k] # "none"
    <3> SUFFICES ASSUME NEW v \in Ways, NEW u \in Units, NEW k \in PeriodKeys,
                        charged[v][u][k] # "none"
                 PROVE  charged'[v][u][k] # "none"
      OBVIOUS
    <3>1. CASE v = "unit" /\ u = unit
      <4>1. charged["unit"][unit][k] # "none"
        BY <3>1
      <4>2. line[k] # "none"
        BY <1>h, <4>1
      <4>3. charged'[v][u][k] = line[k]
        BY <1>7, <3>1
      <4> QED BY <4>2, <4>3
    <3>2. CASE ~ (v = "unit" /\ u = unit)
      BY <1>7, <3>2
    <3> QED BY <3>1, <3>2
  <2> QED BY <2>1 DEF Kept
<1>9. ChargeTypeOK'
  BY <1>0, <1>3, <1>7, FinishEffect DEF ChargeTypeOK
<1>10. \A r \in Requests : KnowsEnough(requests[r])'
  BY <1>0, <1>3, <1>8, FinishEffect, StillKnows
<1>11. OnTime'
  BY <1>0, <1>3, <1>8, Terms, StillOnTime DEF OnTime, ChargeTypeOK
<1>12. OneBillPerKey'
  <2> SUFFICES ASSUME NEW r \in PeriodKeys, NEW u \in Units,
                      charged'["schedule"][u][r] = "sent", charged'["unit"][u][r] = "sent",
                      <<u, r>> \notin raced \cup prepaid
               PROVE  <<u, r>> \in prepaid'
    BY <1>3 DEF OneBillPerKey, Sent
  <2>1. charged["schedule"][u][r] = "sent"
    BY <1>7 DEF Ways
  <2>2. charged["unit"][u][r] # "sent"
    BY <1>0, <2>1 DEF OneBillPerKey, Sent
  <2>3. u = unit /\ r \in new
    BY <1>g, <1>7, <2>2 DEF Ways
  <2>4. unit \in Sent("schedule", r)
    BY <1>2, <2>1, <2>3 DEF Sent
  <2>5. Span(r) \cap Span(r) # {}
    <3>1. PICK term \in Frequencies \cup BaseTerms, m \in Months : r = Key(term, m)
      BY DEF PeriodKeys
    <3>2. term \in Nat /\ term > 0 /\ m \in Nat /\ m > 0
      BY Terms
    <3>3. PICK x : x = (m - 1) % term
      OBVIOUS
    <3>4. x \in Int
      BY <3>2, <3>3
    <3>5. r = <<term, m - x>>
      BY <3>1, <3>3 DEF Key
    <3>6. m - x \in Span(r)
      BY <3>2, <3>4, <3>5 DEF Span
    <3> QED BY <3>6
  <2> QED BY <1>g, <2>3, <2>4, <2>5
<1> QED BY <1>9, <1>10, <1>11, <1>12 DEF ChargeIInv

\* A schedule that is switched on has its first run still before it, or is as it was.
LEMMA EnableIInv ==
    ASSUME ChargeIInv, NEW q \in Requests, NEW frequency \in Frequencies, Enable(q, frequency)
    PROVE  ChargeIInv'
<1>0. ChargeTypeOK /\ OnTime /\ OneBillPerKey /\ \A r \in Requests : KnowsEnough(requests[r])
  BY DEF ChargeIInv
<1>1. /\ schedule' = IF schedule.first = 0
                       THEN [first |-> month + frequency, frequency |-> frequency,
                             isActive |-> TRUE, nextRunAt |-> month + frequency, lastRunAt |-> 0]
                       ELSE [schedule EXCEPT !.isActive = TRUE]
      /\ Finish(q)
      /\ UNCHANGED <<month, baseTerm, charged, raced, prepaid, jumped>>
  BY DEF Enable, NextRun, chargeHistory
<1>2. /\ month \in Nat /\ frequency \in Nat
      /\ month + frequency \in Nat /\ month + frequency # 0
  BY <1>0, Terms DEF ChargeTypeOK
<1>3. ChargeTypeOK'
  <2>1. schedule' \in [first : Nat, frequency : Nat, isActive : BOOLEAN, nextRunAt : Nat,
                       lastRunAt : Nat]
    BY <1>0, <1>1, <1>2 DEF ChargeTypeOK
  <2> QED BY <1>0, <1>1, <2>1, FinishEffect DEF ChargeTypeOK
<1>4. Kept
  BY <1>1 DEF Kept
<1>5. \A r \in Requests : KnowsEnough(requests[r])'
  BY <1>0, <1>1, <1>4, FinishEffect, StillKnows
<1>6. OnTime'
  <2>1. CASE schedule.first = 0
    <3>1. /\ schedule'.first = month + frequency /\ schedule'.frequency = frequency
          /\ schedule'.nextRunAt = month + frequency
      BY <1>1, <2>1
    <3> QED BY <1>2, <3>1 DEF OnTime, Ahead
  <2>2. CASE schedule.first # 0
    <3>1. /\ schedule'.first = schedule.first /\ schedule'.frequency = schedule.frequency
          /\ schedule'.nextRunAt = schedule.nextRunAt
      BY <1>0, <1>1, <2>2 DEF ChargeTypeOK
    <3> QED BY <1>0, <1>1, <1>2, <1>4, <2>2, <3>1, StillOnTime
  <2> QED BY <2>1, <2>2
<1>7. OneBillPerKey'
  BY <1>0, <1>1 DEF OneBillPerKey, Sent
<1> QED BY <1>3, <1>5, <1>6, <1>7 DEF ChargeIInv

\* An edit of the frequency or of the day moves nextRunAt past a period only when
\* that is noted.
LEMMA WriteScheduleIInv ==
    ASSUME ChargeIInv, NEW frequency \in Nat, NEW next \in Nat, WriteSchedule(frequency, next),
           frequency = schedule.frequency \/ frequency \in Frequencies,
           NEW q \in Requests, Finish(q), UNCHANGED <<month, baseTerm, charged, raced, prepaid>>
    PROVE  ChargeIInv'
<1>0. ChargeTypeOK /\ OnTime /\ OneBillPerKey /\ \A r \in Requests : KnowsEnough(requests[r])
  BY DEF ChargeIInv
<1> DEFINE from == IF frequency = schedule.frequency THEN schedule.nextRunAt ELSE month
<1>1. /\ schedule' = [schedule EXCEPT !.frequency = frequency, !.nextRunAt = next]
      /\ jumped' = jumped \cup MovesPast(frequency, from, next)
  BY DEF WriteSchedule
<1>2. month \in Nat /\ month > 0 /\ from \in Nat
  BY <1>0, Terms DEF ChargeTypeOK
<1>3. ChargeTypeOK'
  BY <1>0, <1>1, FinishEffect DEF ChargeTypeOK
<1>4. Kept
  BY DEF Kept
<1>5. \A r \in Requests : KnowsEnough(requests[r])'
  BY <1>0, <1>4, FinishEffect, StillKnows
<1>6. OnTime'
  <2>1. /\ schedule'.first = schedule.first /\ schedule'.isActive = schedule.isActive
        /\ schedule'.frequency = frequency /\ schedule'.nextRunAt = next
        /\ schedule.nextRunAt \in Nat
    BY <1>0, <1>1 DEF ChargeTypeOK
  <2>2. SUFFICES ASSUME schedule.first # 0, NEW m \in Nat, schedule.first <= m,
                        month <= m, m < next, Key(frequency, m) # Key(frequency, next)
                 PROVE  Done(Key(frequency, m))'
    BY <1>0, <2>1 DEF OnTime, Ahead, Key
  <2>3. frequency > 0
    BY <1>0, <2>2, Terms DEF OnTime
  <2>4. ASSUME NEW k, k \in MovesPast(frequency, from, next) PROVE Done(k)'
    BY <1>1, <2>4 DEF Done
  <2> HIDE DEF from
  <2>5. CASE from <= m
    BY <1>2, <2>2, <2>4, <2>5, Passed
  <2>6. CASE m < from
    <3>1. frequency = schedule.frequency /\ from = schedule.nextRunAt
      BY <1>2, <2>2, <2>6 DEF from
    <3>2. CASE Done(Key(frequency, m))
      BY <1>1, <1>4, <3>2, KeptDone
    <3>3. CASE Key(frequency, m) = Key(frequency, schedule.nextRunAt)
      <4>1. CASE next <= schedule.nextRunAt
        BY <1>2, <2>1, <2>2, <2>3, <3>1, <3>3, <4>1, KeyBetween
      <4>2. CASE schedule.nextRunAt < next
        BY <1>2, <2>1, <2>2, <2>4, <2>6, <3>1, <3>3, <4>2, Passed
      <4> QED BY <2>1, <4>1, <4>2
    <3> QED BY <1>0, <2>2, <2>6, <3>1, <3>2, <3>3 DEF OnTime, Ahead
  <2> QED BY <1>2, <2>2, <2>5, <2>6
<1>7. OneBillPerKey'
  BY <1>0 DEF OneBillPerKey, Sent
<1> QED BY <1>3, <1>5, <1>6, <1>7 DEF ChargeIInv

\* Either edit is such a step.
LEMMA RescheduleIInv == ASSUME ChargeIInv, NEW q \in Requests, Reschedule(q) PROVE ChargeIInv'
<1>0. ChargeTypeOK /\ OnTime /\ KnowsEnough(requests[q])
  BY DEF ChargeIInv
<1>1. /\ requests[q].row.lastRunAt \in Nat /\ requests[q].row.frequency \in Nat
      /\ month \in Nat /\ schedule.frequency \in Nat
  BY <1>0, Terms DEF Reschedule, At, KnowsEnough, ChargeTypeOK
<1>2. Finish(q) /\ UNCHANGED <<month, baseTerm, charged, raced, prepaid>>
  BY DEF Reschedule
<1>3. CASE WriteSchedule(schedule.frequency,
                         NextRun(requests[q].row.frequency, requests[q].row.lastRunAt))
  BY <1>1, <1>2, <1>3, WriteScheduleIInv DEF NextRun
<1>4. ASSUME NEW frequency \in Frequencies,
             WriteSchedule(frequency, NextRun(frequency, requests[q].row.lastRunAt))
      PROVE  ChargeIInv'
  BY <1>1, <1>2, <1>4, Terms, WriteScheduleIInv DEF NextRun
<1> QED BY <1>3, <1>4 DEF Reschedule

\* An invoice that is voided leaves its unique key behind.
LEMMA VoidIInv ==
    ASSUME ChargeIInv, NEW w \in Ways, NEW u \in Units, NEW p \in PeriodKeys, VoidCharge(w, u, p)
    PROVE  ChargeIInv'
<1>0. ChargeTypeOK /\ OnTime /\ OneBillPerKey /\ \A r \in Requests : KnowsEnough(requests[r])
  BY DEF ChargeIInv
<1>1. /\ charged[w][u][p] = "sent"
      /\ charged' = [charged EXCEPT ![w][u][p] = "voided"]
      /\ UNCHANGED <<month, baseTerm, schedule, requests, raced, prepaid, jumped>>
  BY DEF VoidCharge, chargeHistory
<1>2. /\ charged' \in [Ways -> [Units -> [PeriodKeys -> ChargeStatuses]]]
      /\ \A v \in Ways, x \in Units, r \in PeriodKeys :
            charged'[v][x][r] = IF v = w /\ x = u /\ r = p THEN "voided" ELSE charged[v][x][r]
  BY <1>0, <1>1 DEF ChargeTypeOK, ChargeStatuses
<1>3. Kept
  BY <1>2 DEF Kept
<1>4. ChargeTypeOK'
  BY <1>0, <1>1, <1>2 DEF ChargeTypeOK
<1>5. \A r \in Requests : KnowsEnough(requests[r])'
  BY <1>0, <1>1, <1>3, StillKnows DEF ChargeTypeOK
<1>6. OnTime'
  BY <1>0, <1>1, <1>3, Terms, StillOnTime DEF OnTime, ChargeTypeOK
<1>7. OneBillPerKey'
  BY <1>0, <1>1, <1>2 DEF OneBillPerKey, Sent, Ways
<1> QED BY <1>4, <1>5, <1>6, <1>7 DEF ChargeIInv

\* Time passes.
LEMMA NextMonthIInv == ASSUME ChargeIInv, NextMonth PROVE ChargeIInv'
<1>0. ChargeTypeOK /\ OnTime /\ OneBillPerKey /\ \A r \in Requests : KnowsEnough(requests[r])
  BY DEF ChargeIInv
<1>1. /\ month' = month + 1 /\ month < LastMonth
      /\ UNCHANGED <<baseTerm, schedule, charged, requests, raced, prepaid, jumped>>
  BY DEF NextMonth, chargeHistory
<1>2. ChargeTypeOK'
  BY <1>0, <1>1, ChargesAssumption DEF ChargeTypeOK, Months
<1>3. Kept
  BY <1>1 DEF Kept
<1>4. \A r \in Requests : KnowsEnough(requests[r])'
  BY <1>0, <1>1, <1>3, StillKnows
<1>5. OnTime'
  <2>1. month \in Nat /\ month + 1 \in Nat /\ month <= month + 1
    BY <1>0, Terms DEF ChargeTypeOK
  <2> QED BY <1>0, <1>1, <1>3, <2>1, StillOnTime DEF OnTime
<1>6. OneBillPerKey'
  BY <1>0, <1>1 DEF OneBillPerKey, Sent
<1> QED BY <1>2, <1>4, <1>5, <1>6 DEF ChargeIInv

\* Every step keeps the invariant: one step per action.
LEMMA ChargesNextIInv == ChargeIInv /\ [ChargesNext]_chargeVars => ChargeIInv'
<1> SUFFICES ASSUME ChargeIInv, [ChargesNext]_chargeVars PROVE ChargeIInv'
  OBVIOUS
<1>0. ChargeTypeOK /\ OnTime /\ OneBillPerKey /\ \A r \in Requests : KnowsEnough(requests[r])
  BY DEF ChargeIInv
<1>1. ASSUME NEW q \in Requests, Reads(q) PROVE ChargeIInv'
  <2>1. SUFFICES ASSUME NEW t, KnowsEnough(t), ReadCharge(q, t) PROVE ChargeIInv'
    <3>1. CASE ReadToEnable(q)
      BY <2>1, <3>1 DEF ReadToEnable, KnowsEnough
    <3>2. CASE ReadToReschedule(q)
      <4>1. PICK t : t = [step |-> "reschedule", row |-> schedule]
        OBVIOUS
      <4>2. KnowsEnough(t)
        BY <1>0, <4>1 DEF KnowsEnough, ChargeTypeOK
      <4> QED BY <2>1, <3>2, <4>1, <4>2 DEF ReadToReschedule
    <3>3. ASSUME NEW units \in SUBSET Units, ReadToActivate(q, units) PROVE ChargeIInv'
      BY <2>1, <3>3 DEF ReadToActivate, KnowsEnough
    <3>4. ASSUME NEW m \in Months, ReadToRun(q, m) PROVE ChargeIInv'
      <4>1. PICK k : k = Key(schedule.frequency, m)
        OBVIOUS
      <4>2. PICK t : t = [step |-> "run", key |-> k, units |-> Units \ Billed("schedule", k),
                          other |-> Sent("unit", k), frequency |-> schedule.frequency]
        OBVIOUS
      <4>3. k \in PeriodKeys /\ schedule.frequency \in Nat
        BY <1>0, <3>4, <4>1, Terms DEF ReadToRun, OnTime, PeriodKeys
      <4>4. KnowsEnough(t)
        BY <4>2, <4>3 DEF KnowsEnough, Billed, Sent, Has, Ways
      <4> QED BY <2>1, <3>4, <4>1, <4>2, <4>4 DEF ReadToRun
    <3>5. ASSUME NEW m \in Months, ReadToGenerate(q, m) PROVE ChargeIInv'
      <4>1. Key(baseTerm, m) \in PeriodKeys
        BY <1>0 DEF ChargeTypeOK, PeriodKeys
      <4> QED BY <2>1, <3>5, <4>1 DEF ReadToGenerate, KnowsEnough
    <3>6. ASSUME NEW u \in Units, NEW n \in 1 .. 2, Quote(q, u, n) PROVE ChargeIInv'
      BY <2>1, <3>6 DEF Quote, KnowsEnough
    <3> QED BY <1>1, <3>1, <3>2, <3>3, <3>4, <3>5, <3>6 DEF Reads
  <2>2. requests' = [requests EXCEPT ![q] = t]
        /\ UNCHANGED <<month, baseTerm, schedule, charged, chargeHistory>>
    BY <2>1 DEF ReadCharge, Begin
  <2> QED BY <2>1, <2>2, ReadIInv
<1>2. ASSUME NEW q \in Requests, Recheck(q) PROVE ChargeIInv'
  <2>1. PICK t : t = [step |-> "generate", key |-> requests[q].key,
                      units |-> requests[q].units \ Billed("unit", requests[q].key),
                      other |-> Sent("schedule", requests[q].key)]
    OBVIOUS
  <2>2. KnowsEnough(t)
    BY <1>0, <1>2, <2>1 DEF Recheck, At, KnowsEnough, Billed
  <2>3. requests' = [requests EXCEPT ![q] = t]
        /\ UNCHANGED <<month, baseTerm, schedule, charged, chargeHistory>>
    BY <1>2, <2>1 DEF Recheck, Continue
  <2> QED BY <2>2, <2>3, ReadIInv
<1>3. ASSUME NEW q \in Requests, BulkActivate(q) \/ AbortCharge(q) PROVE ChargeIInv'
  <2>1. PICK t : t = Idle
    OBVIOUS
  <2>2. requests' = [requests EXCEPT ![q] = t] /\ KnowsEnough(t)
        /\ UNCHANGED <<month, baseTerm, schedule, charged, chargeHistory>>
    BY <1>3, <2>1 DEF BulkActivate, AbortCharge, Finish, Continue, Idle, KnowsEnough
  <2> QED BY <2>2, ReadIInv
<1>4. ASSUME NEW q \in Requests, Writes(q) PROVE ChargeIInv'
  BY <1>2, <1>3, <1>4, EnableIInv, RescheduleIInv, RunIInv, GenerateIInv, MaterializeIInv
     DEF Writes
<1>5. ASSUME UNCHANGED <<month, baseTerm, schedule, charged, requests, chargeHistory>> PROVE ChargeIInv'
  BY <1>0, <1>5 DEF ChargeIInv, ChargeTypeOK, KnowsEnough, OnTime, Ahead, Done, AllHave, Has,
                    OneBillPerKey, Sent, chargeHistory
<1>6. ASSUME NEW u \in Units, NEW to, Switch(u, to) PROVE ChargeIInv'
  BY <1>5, <1>6 DEF Switch
<1>7. ASSUME Pause PROVE ChargeIInv'
  <2>1. /\ schedule' = [schedule EXCEPT !.isActive = FALSE]
        /\ UNCHANGED <<month, baseTerm, charged, requests, raced, prepaid, jumped>>
    BY <1>7 DEF Pause, chargeHistory
  <2>2. ChargeTypeOK'
    BY <1>0, <2>1 DEF ChargeTypeOK
  <2>3. \A r \in Requests : KnowsEnough(requests[r])'
    BY <1>0, <2>1 DEF KnowsEnough, Has
  <2>4. OnTime'
    <3>1. /\ schedule'.first = schedule.first /\ schedule'.frequency = schedule.frequency
          /\ schedule'.nextRunAt = schedule.nextRunAt /\ ~ schedule'.isActive
      BY <1>0, <2>1 DEF ChargeTypeOK
    <3>2. Kept /\ month \in Nat
      BY <1>0, <2>1, Terms DEF Kept, ChargeTypeOK
    <3> QED BY <1>0, <2>1, <3>1, <3>2, StillOnTime
  <2>5. OneBillPerKey'
    BY <1>0, <2>1 DEF OneBillPerKey, Sent
  <2> QED BY <2>2, <2>3, <2>4, <2>5 DEF ChargeIInv
<1>8. ASSUME NEW term \in BaseTerms, EditTerm(term) PROVE ChargeIInv'
  <2>1. baseTerm' \in BaseTerms /\ UNCHANGED <<month, schedule, charged, requests, chargeHistory>>
    BY <1>8 DEF EditTerm
  <2> QED BY <1>0, <2>1 DEF ChargeIInv, ChargeTypeOK, KnowsEnough, OnTime, Ahead, Done, AllHave, Has,
                             OneBillPerKey, Sent, chargeHistory
<1>9. CASE UNCHANGED chargeVars
  BY <1>5, <1>9 DEF chargeVars
<1> QED BY <1>1, <1>3, <1>4, <1>6, <1>7, <1>8, <1>9, VoidIInv, NextMonthIInv
        DEF ChargesNext, Attach, Update

-----------------------------------------------------------------------------
\* Whatever the units and their terms and however many requests interleave, a unit
\* has two bills under one key of a charge only where the two ways raced or where the
\* resident prepaid (run, generateForType, materializePrepayFromPlan).
THEOREM BilledOnce == ChargesSpec => []OneBillPerKey
<1>1. ChargesInit => ChargeIInv
  BY ChargesInitIInv
<1>2. ChargeIInv /\ [ChargesNext]_chargeVars => ChargeIInv'
  BY ChargesNextIInv
<1>3. ChargeIInv => OneBillPerKey
  BY DEF ChargeIInv
<1> QED BY <1>1, <1>2, <1>3, PTL DEF ChargesSpec

\* A schedule that is on, and that the daily job runs when it is due, bills every
\* unit for every period of its frequency, unless nextRunAt was moved past it
\* (runDueSchedules, run, update).
THEOREM NoneSkipped == ChargesSpec => NoPeriodSkipped
<1>1. ChargesInit => ChargeIInv
  BY ChargesInitIInv
<1>2. ChargeIInv /\ [ChargesNext]_chargeVars => ChargeIInv'
  BY ChargesNextIInv
<1>3. ASSUME ChargeIInv, [ChargesNext]_chargeVars, month' # month, schedule.isActive,
             schedule.first <= month, NEW k, k = Key(schedule.frequency, month),
             Key(schedule.frequency, month') # k
      PROVE  k \in jumped \/ \A u \in Units : \E w \in Ways : charged[w][u][k] # "none"
  <2>1. /\ OnTime /\ month \in Nat /\ month > 0 /\ schedule.nextRunAt \in Nat
        /\ schedule.frequency \in Nat /\ schedule.frequency > 0 /\ schedule.first # 0
    BY <1>3, Terms DEF ChargeIInv, ChargeTypeOK, OnTime
  <2>2. NextMonth
    <3>1. ASSUME NEW q \in Requests, Reads(q) \/ Writes(q) \/ AbortCharge(q) PROVE FALSE
      BY <1>3, <3>1
         DEF Reads, ReadToEnable, ReadToReschedule, ReadToActivate, ReadToRun, ReadToGenerate,
             Quote, ReadCharge, Writes, Enable, Reschedule, BulkActivate, Run, Recheck, Generate,
             Materialize, AbortCharge
    <3>2. ASSUME NEW u \in Units, NEW to, Switch(u, to) PROVE FALSE
      BY <1>3, <3>2 DEF Switch
    <3> QED BY <1>3, <3>1, <3>2 DEF ChargesNext, chargeVars, Attach, Update, VoidCharge, Pause, EditTerm
  <2>3. ~ RunIsDue /\ month' = month + 1
    BY <2>2 DEF NextMonth
  <2>4. CASE month < schedule.nextRunAt
    <3>1. k # Key(schedule.frequency, schedule.nextRunAt)
      BY <1>3, <2>1, <2>3, <2>4, KeyBetween
    <3> QED BY <1>3, <2>1, <2>4, <3>1 DEF OnTime, Ahead, Done, AllHave, Has
  <2>5. CASE ~ (month < schedule.nextRunAt)
    <3>1. Billed("schedule", k) = Units
      BY <1>3, <2>1, <2>3, <2>5 DEF RunIsDue
    <3> QED BY <3>1 DEF Billed, Sent, Ways
  <2> QED BY <2>4, <2>5
<1>4. ChargeIInv /\ [ChargesNext]_chargeVars =>
         [month' # month /\ schedule.isActive /\ schedule.first <= month
          /\ Key(schedule.frequency, month') # Key(schedule.frequency, month)
          => \/ Key(schedule.frequency, month) \in jumped
             \/ \A u \in Units : \E w \in Ways :
                   charged[w][u][Key(schedule.frequency, month)] # "none"]_chargeVars
  BY <1>3
<1> QED BY <1>1, <1>2, <1>4, PTL DEF ChargesSpec, NoPeriodSkipped

-----------------------------------------------------------------------------
(* Late fees: the inductive invariant. *)

Fees == Tier \cup {NoTier}

\* What a sweep that has read the invoice is going to write: more than it read and,
\* if there is an amount as issued, the fee of its tier on that.
Sweeping(request) ==
    /\ request.newAmount \in Int /\ request.amount \in Int /\ request.newTier \in Fees
    /\ request.newAmount > request.amount
    /\ invoice.originalAmount # 0 =>
          request.newAmount = Principal + Surcharge(request.newTier, Principal)

\* The rows are rows, no invoice is paid beyond its amount, and the two properties.
FeeIInv ==
    /\ invoice \in [amount : Int, originalAmount : {0, Principal}, amountPaid : Int,
                    status : {"sent", "partial", "paid"}, tier : Fees]
    /\ tiers \in Policies
    /\ outrun \in BOOLEAN
    /\ DOMAIN requests = Requests
    /\ \A q \in Requests : At(q, "apply") => Sweeping(requests[q])
    /\ invoice.amountPaid <= invoice.amount
    /\ FeeOfOneTier
    /\ PaidWithFees

-----------------------------------------------------------------------------
\* A tier's fee of an amount in cents is an amount in cents.
LEMMA SurchargeType ==
    ASSUME NEW tier \in Fees, NEW base \in Int
    PROVE  Surcharge(tier, base) \in Int
<1>1. CASE tier = NoTier
  BY <1>1 DEF Surcharge
<1>2. CASE tier # NoTier
  <2>1. tier.value \in Nat /\ tier.cap \in Nat
    BY <1>2 DEF Fees, Tier
  <2> DEFINE percent == (base * tier.value + 50) \div 100
  <2>2. base * tier.value \in Int
    BY <2>1
  <2>3. percent \in Int
    BY <2>2
  <2> HIDE DEF percent
  <2>4. Surcharge(tier, base) \in {percent, tier.value, tier.cap}
    BY <1>2 DEF Surcharge, Smaller, percent
  <2> QED BY <2>1, <2>3, <2>4
<1> QED BY <1>1, <1>2

\* What a sweep picks is a tier of a policy.
LEMMA PickedType ==
    ASSUME tiers \in Policies
    PROVE  Picked \subseteq Tier
BY LateFeesAssumption DEF Picked, Reached

\* A new invoice satisfies the invariant.
LEMMA FeesInitIInv == FeesInit => FeeIInv
<1> SUFFICES ASSUME FeesInit PROVE FeeIInv
  OBVIOUS
<1>1. PICK originalAmount \in {0, Principal} :
         invoice = [amount |-> Principal, originalAmount |-> originalAmount, amountPaid |-> 0,
                    status |-> "sent", tier |-> NoTier]
  BY DEF FeesInit
<1>2. Principal \in Int /\ Principal > 0
  BY LateFeesAssumption
<1>3. Surcharge(NoTier, Principal) = 0
  BY DEF Surcharge
<1>4. \A q \in Requests : ~ At(q, "apply")
  BY DEF FeesInit, NoRequests, Idle, At
<1>5. /\ invoice.amount = Principal /\ invoice.tier = NoTier /\ invoice.status = "sent"
      /\ invoice.amountPaid = 0
  BY <1>1
<1>6. invoice \in [amount : Int, originalAmount : {0, Principal}, amountPaid : Int,
                   status : {"sent", "partial", "paid"}, tier : Fees]
  BY <1>1, <1>2 DEF Fees
<1>7. FeeOfOneTier /\ PaidWithFees /\ invoice.amountPaid <= invoice.amount
  BY <1>2, <1>3, <1>5 DEF FeeOfOneTier, FeesDoNotStack, PaidWithFees
<1>8. DOMAIN requests = Requests
  BY DEF FeesInit, NoRequests
<1> QED BY <1>4, <1>6, <1>7, <1>8 DEF FeesInit, FeeIInv

\* An invoice that is recorded as paid keeps the invariant, if it is not overpaid.
LEMMA RecordIInv ==
    ASSUME FeeIInv, NEW paid \in Int, paid <= invoice.amount,
           NEW open \in {"sent", "partial"}, Record(paid, open)
    PROVE  FeeIInv'
<1> DEFINE status == IF Settled(paid) THEN "paid" ELSE open
<1>1. invoice' = [invoice EXCEPT !.amountPaid = paid, !.status = status]
  BY DEF Record
<1>2. status \in {"sent", "partial", "paid"} /\ (status = "paid" => paid = invoice.amount)
  BY DEF Settled, FeeIInv
<1>3. UNCHANGED <<tiers, outrun, requests>>
  BY DEF Record
<1> HIDE DEF status
<1> QED BY <1>1, <1>2, <1>3
        DEF FeeIInv, At, Sweeping, FeeOfOneTier, FeesDoNotStack, PaidWithFees

\* Every step keeps the invariant: one step per action.
LEMMA FeesNextIInv == FeeIInv /\ [FeesNext]_feeVars => FeeIInv'
<1> SUFFICES ASSUME FeeIInv, [FeesNext]_feeVars PROVE FeeIInv'
  OBVIOUS
<1>0. /\ Principal \in Int /\ Principal > 0
      /\ invoice.amount \in Int /\ invoice.amountPaid \in Int
      /\ invoice.amountPaid <= invoice.amount
  BY LateFeesAssumption DEF FeeIInv
<1>1. ASSUME NEW q \in Requests, ReadToSweep(q) PROVE FeeIInv'
  <2>1. PICK tier \in Picked :
           /\ NewAmount(tier) > invoice.amount
           /\ Begin(q, [step |-> "apply", amount |-> invoice.amount, tier |-> invoice.tier,
                        newAmount |-> NewAmount(tier), newTier |-> tier])
    BY <1>1 DEF ReadToSweep
  <2> DEFINE request == [step |-> "apply", amount |-> invoice.amount, tier |-> invoice.tier,
                         newAmount |-> NewAmount(tier), newTier |-> tier]
  <2>2. tier \in Fees
    BY PickedType DEF Fees, FeeIInv
  <2>3. Base \in Int /\ (invoice.originalAmount # 0 => Base = Principal)
    BY <1>0 DEF Base, FeeIInv
  <2>4. Sweeping(request)
    BY <1>0, <2>1, <2>2, <2>3, SurchargeType DEF Sweeping, NewAmount
  <2>5. requests' = [requests EXCEPT ![q] = request]
    BY <2>1 DEF Begin
  <2>6. UNCHANGED <<invoice, tiers, outrun>>
    BY <1>1 DEF ReadToSweep
  <2> HIDE DEF request
  <2> QED BY <2>4, <2>5, <2>6 DEF FeeIInv, At, Sweeping, FeeOfOneTier, FeesDoNotStack, PaidWithFees
<1>2. ASSUME NEW q \in Requests, Apply(q) PROVE FeeIInv'
  <2>1. /\ requests' = [requests EXCEPT ![q] = Idle] /\ Idle.step = "idle"
        /\ UNCHANGED tiers /\ Sweeping(requests[q])
    BY <1>2 DEF Apply, Finish, Continue, Idle, FeeIInv
  <2>2. CASE ~ AsRead(q)
    BY <1>2, <2>1, <2>2
       DEF Apply, FeeIInv, At, Sweeping, FeeOfOneTier, FeesDoNotStack, PaidWithFees
  <2>3. CASE AsRead(q)
    <3> DEFINE amount == requests[q].newAmount
               tier == requests[q].newTier
    <3>1. /\ invoice' = [invoice EXCEPT !.amount = amount, !.tier = tier]
          /\ outrun' = (outrun \/ invoice.status = "paid")
      BY <1>2, <2>3 DEF Apply
    <3>2. /\ amount \in Int /\ amount > invoice.amount /\ tier \in Fees
          /\ invoice.originalAmount # 0 => amount = Principal + Surcharge(tier, Principal)
      BY <2>1, <2>3 DEF Sweeping, AsRead
    <3> HIDE DEF amount, tier
    <3>3. /\ invoice'.amount = amount /\ invoice'.tier = tier
          /\ invoice'.originalAmount = invoice.originalAmount
          /\ invoice'.status = invoice.status /\ invoice'.amountPaid = invoice.amountPaid
      BY <3>1 DEF FeeIInv
    <3>4. invoice' \in [amount : Int, originalAmount : {0, Principal}, amountPaid : Int,
                        status : {"sent", "partial", "paid"}, tier : Fees]
      BY <3>1, <3>2 DEF FeeIInv
    <3>5. \A r \in Requests : At(r, "apply")' => Sweeping(requests[r])'
      BY <2>1, <3>3 DEF FeeIInv, At, Sweeping
    <3>6. FeeOfOneTier'
      BY <3>2, <3>3 DEF FeeOfOneTier, FeesDoNotStack
    <3>7. PaidWithFees' /\ outrun' \in BOOLEAN
      BY <3>1, <3>3 DEF FeeIInv, PaidWithFees
    <3>8. invoice'.amountPaid <= invoice'.amount
      BY <1>0, <3>2, <3>3
    <3>9. DOMAIN requests' = Requests /\ tiers' \in Policies
      BY <2>1 DEF FeeIInv
    <3> QED BY <3>4, <3>5, <3>6, <3>7, <3>8, <3>9 DEF FeeIInv
  <2> QED BY <2>2, <2>3
<1>3. ASSUME NEW q \in Requests, Abort(q) PROVE FeeIInv'
  BY <1>3 DEF Abort, Finish, Continue, Idle, FeeIInv, At, Sweeping, FeeOfOneTier, FeesDoNotStack,
              PaidWithFees
<1>4. ASSUME NEW policy \in Policies, UpsertConfig(policy) PROVE FeeIInv'
  BY <1>4 DEF UpsertConfig, FeeIInv, At, Sweeping, FeeOfOneTier, FeesDoNotStack, PaidWithFees
<1>5. ASSUME NEW amount \in Amounts, PayInvoice(amount) PROVE FeeIInv'
  <2> DEFINE paid == invoice.amountPaid
                       + Smaller(amount, Larger(invoice.amount - invoice.amountPaid, 0))
  <2>1. amount \in Int
    BY LateFeesAssumption
  <2>2. paid \in Int /\ paid <= invoice.amount /\ Record(paid, "partial")
    BY <1>0, <1>5, <2>1 DEF PayInvoice, Smaller, Larger
  <2> HIDE DEF paid
  <2> QED BY <2>2, RecordIInv
<1>6. ASSUME NEW amount \in Amounts, ReversePayment(amount) PROVE FeeIInv'
  <2> DEFINE paid == Larger(invoice.amountPaid - amount, 0)
             open == IF paid > 0 THEN "partial" ELSE "sent"
  <2>1. amount \in Int /\ amount > 0
    BY LateFeesAssumption
  <2>2. /\ paid \in Int /\ paid <= invoice.amount /\ open \in {"sent", "partial"}
        /\ Record(paid, open)
    BY <1>0, <1>6, <2>1 DEF ReversePayment, Larger
  <2> HIDE DEF paid, open
  <2> QED BY <2>2, RecordIInv
<1>7. CASE NextDay
  BY <1>7 DEF NextDay, FeeIInv, At, Sweeping, FeeOfOneTier, FeesDoNotStack, PaidWithFees
<1>8. CASE UNCHANGED feeVars
  BY <1>8 DEF feeVars, FeeIInv, At, Sweeping, FeeOfOneTier, FeesDoNotStack, PaidWithFees
<1> QED BY <1>1, <1>2, <1>3, <1>4, <1>5, <1>6, <1>7, <1>8 DEF FeesNext

-----------------------------------------------------------------------------
\* Whatever is swept, paid, reversed and edited, the amount of an invoice that has
\* an originalAmount is that and the fee of one tier (computeFee).
THEOREM FeesOfOneTier == FeesSpec => []FeeOfOneTier
<1>1. FeeIInv => FeeOfOneTier
  BY DEF FeeIInv
<1> QED BY FeesInitIInv, FeesNextIInv, <1>1, PTL DEF FeesSpec

\* A paid invoice is paid with its fees, if no sweep wrote after the payment
\* (sweep, logPayment, reversePayment).
THEOREM PaidMeansPaid == FeesSpec => []PaidWithFees
<1>1. FeeIInv => PaidWithFees
  BY DEF FeeIInv
<1> QED BY FeesInitIInv, FeesNextIInv, <1>1, PTL DEF FeesSpec

=============================================================================
