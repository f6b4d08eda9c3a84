---------------------------- MODULE CreditPlans -----------------------------
(***************************************************************************)
(* Credit sales to one client: the credit limit, the plan of instalments   *)
(* and the schedule that the collections, the dashboard and the messages   *)
(* to the client lay out from it.                                          *)
(*                                                                         *)
(* Amounts are integers of cents and dates are days since 2026 began.  The *)
(* limit is compared with a balance read before the transaction, and an    *)
(* edit computes the instalment from a row read before it writes: each is  *)
(* two steps, with those of other clerks in between.                       *)
(***************************************************************************)
EXTENDS Integers, Sequences, FiniteSets, FiniteSetsExt, Functions

CONSTANTS CreditSales,  \* bound: sales ever made
          Sellers,      \* clerks' requests that may be under way at once
          Orders,       \* bodies of POST /sales: what is sold on which plan
          Edits,        \* bodies of PATCH /sales/:id
          Amounts,      \* what a client pays at a time
          Limits,       \* credit limits that the client may be given
          MaxPlanSteps, \* bound: sales, edits and payments begun
          NoCreditSale

Frequencies == {"MONTHLY", "BIWEEKLY", "WEEKLY"}
Absent == -1   \* a field that the body leaves out
Null == 0      \* collectionDay, collectionDay2: null

\* The plan columns of a Sale row, and the body of an edit of them.
PlanRows == [total : Nat, count : Nat, frequency : Frequencies \cup {"NONE"}, day : Int,
             day2 : Int, initial : Nat, amount : Nat, soldOn : Nat \ {0}]
EditBodies == [count : Nat \cup {Absent}, frequency : Frequencies \cup {"NONE"}, day : Int,
               day2 : Int, initial : Nat \cup {Absent}, soldOn : (Nat \ {0}) \cup {Absent}]

ASSUME CreditPlansAssumption ==
    /\ IsFiniteSet(CreditSales) /\ NoCreditSale \notin CreditSales
    /\ Orders \subseteq PlanRows /\ Edits \subseteq EditBodies
    /\ Amounts \subseteq Nat /\ Limits \subseteq Nat /\ MaxPlanSteps \in Nat

VARIABLES plan,      \* plan[s]: the plan columns of the Sale row
          paid,      \* paid[s]: the sum of the payments of the sale
          limit,     \* the client's creditLimit
          seller,    \* seller[c]: what a request has read and does next
          planSteps,
          crossed,   \* the sales with an edit that another one came between
          redated,   \* the weekly plans whose day was edited
          strained   \* the limit was lowered, or two sales were made at once

planVars == <<plan, paid, limit, seller, planSteps, crossed, redated, strained>>

Unplanned == [total |-> 0, count |-> 0, frequency |-> "NONE", day |-> Null, day2 |-> Null,
              initial |-> 0, amount |-> 0, soldOn |-> 1]
AtCounter == [pc |-> "rest", sale |-> NoCreditSale, row |-> Unplanned, edit |-> {}, seen |-> {}]

Made == {s \in CreditSales : plan[s].total > 0}
Owed(s) == plan[s].total - paid[s]
Balance == SumFunctionOnSet([s \in CreditSales |-> Owed(s)], CreditSales)

PlansTypeOK ==
    /\ \A s \in CreditSales :
           /\ DOMAIN plan[s] = DOMAIN Unplanned
           /\ plan[s].frequency \in Frequencies \cup {"NONE"}
           /\ plan[s].total >= 0 /\ plan[s].amount >= 0 /\ plan[s].initial >= 0
           /\ plan[s].count = 0 <=> plan[s].frequency = "NONE"
           /\ paid[s] \in 0..plan[s].total
    /\ limit \in Limits
    /\ \A c \in Sellers : seller[c].pc \in {"rest", "sell", "edit"}
    /\ planSteps \in 0..MaxPlanSteps
    /\ crossed \cup redated \subseteq CreditSales /\ strained \in BOOLEAN

PlansInit ==
    /\ plan = [s \in CreditSales |-> Unplanned]
    /\ paid = [s \in CreditSales |-> 0]
    /\ limit \in Limits
    /\ seller = [c \in Sellers |-> AtCounter]
    /\ planSteps = 0
    /\ crossed = {} /\ redated = {} /\ strained = FALSE

StepTaken == planSteps < MaxPlanSteps /\ planSteps' = planSteps + 1
AtRestAgain(c) == seller' = [seller EXCEPT ![c] = AtCounter]

-----------------------------------------------------------------------------
(* What the DTOs let through and what the calculator answers.              *)

\* Math.round of cents.
Instalment(total, count) == (2 * total + count) \div (2 * count)

\* CreateSaleDto: which days go with which frequency.
DaysAccepted(o) ==
    CASE o.frequency = "NONE" -> o.day = Null /\ o.day2 = Null
      [] o.frequency = "WEEKLY" -> o.day \in 0..7 /\ o.day2 = Null
      [] o.frequency = "MONTHLY" -> o.day \in 0..31 /\ o.day2 = Null
      [] o.frequency = "BIWEEKLY" -> /\ o.day \in 0..31 /\ o.day2 \in 0..31
                                     /\ o.day # Null => o.day2 # Null

\* Prices are of a cent or more here; an initial payment goes with or without
\* a plan.
OrderAccepted(o) == /\ o.total > 0 /\ DaysAccepted(o)
                    /\ o.count = 0 <=> o.frequency = "NONE"

\* UpdateSaleDto: a weekly plan cannot be asked for, but the day of one can
\* be changed, and to any day of a month.
EditAccepted(e) ==
    /\ e.count # Absent <=> e.frequency # "NONE"
    /\ e.count # 0 /\ e.frequency # "WEEKLY"
    /\ {e.day, e.day2} \subseteq -1..31

-----------------------------------------------------------------------------
(* Creating a sale.                                                        *)

\* The row that a sale will be, whichever it is.
Unsold(s) == plan[s].total = 0 /\ \A d \in Sellers : seller[d].sale # s
NewRow(s) == Unsold(s) /\ s = CHOOSE t \in CreditSales : Unsold(t)

\* The use case reads the client and answers an order above what is left of
\* the limit, one whose initial payment is not below the total, and one
\* whose instalments would be of nothing.
BeginSale(c, s, o) ==
    /\ StepTaken
    /\ seller[c] = AtCounter
    /\ NewRow(s)
    /\ OrderAccepted(o)
    /\ limit - Balance >= o.total
    /\ o.initial < o.total
    /\ seller' = [seller EXCEPT ![c] = [AtCounter EXCEPT
           !.pc = "sell", !.sale = s, !.seen = Made,
           !.row = [o EXCEPT !.amount = IF o.count = 0 THEN 0
                                        ELSE Instalment(o.total - o.initial, o.count)]]]
    /\ UNCHANGED <<plan, paid, limit, crossed, redated, strained>>

CommitSalePlan(c) ==
    LET s == seller[c].sale IN
    /\ seller[c].pc = "sell"
    /\ plan' = [plan EXCEPT ![s] = seller[c].row]
    /\ strained' = (strained \/ seller[c].seen # Made)
    /\ AtRestAgain(c)
    /\ UNCHANGED <<paid, limit, planSteps, crossed, redated>>

\* A payment, the initial one too: a transaction of its own that takes no
\* more than the sale owes.
Pay(s, cents) ==
    /\ StepTaken
    /\ s \in Made /\ cents <= Owed(s)
    /\ paid' = [paid EXCEPT ![s] = @ + cents]
    /\ UNCHANGED <<plan, limit, seller, crossed, redated, strained>>

\* PUT /clients/:id; a limit below the balance is not refused.
SetLimit(l) ==
    /\ StepTaken
    /\ l # limit /\ limit' = l
    /\ strained' = (strained \/ l < limit)
    /\ UNCHANGED <<plan, paid, seller, crossed, redated>>

-----------------------------------------------------------------------------
(* PATCH /sales/:id.                                                       *)

Given(value, old) == IF value = Absent THEN old ELSE value

PlanChanged(e) == e.count # Absent \/ e.initial # Absent

\* The instalment is computed from the row that the edit read.
EditedAmount(e, read) ==
    Instalment(read.total - Given(e.initial, read.initial), Given(e.count, read.count))

\* What the edit writes over the row p that it finds: the columns of its body,
\* and null for the second day of a plan that becomes monthly.
Edited(p, e, read) ==
    [p EXCEPT !.count = Given(e.count, @), !.initial = Given(e.initial, @),
              !.frequency = IF e.frequency = "NONE" THEN @ ELSE e.frequency,
              !.day = Given(e.day, @),
              !.day2 = IF e.frequency = "MONTHLY" /\ e.day2 = Absent THEN Null
                       ELSE Given(e.day2, @),
              !.soldOn = Given(e.soldOn, @),
              !.amount = IF PlanChanged(e) THEN EditedAmount(e, read) ELSE @]

BeginEdit(c, s, e) ==
    LET frequency == IF e.frequency = "NONE" THEN plan[s].frequency ELSE e.frequency IN
    /\ StepTaken
    /\ seller[c] = AtCounter
    /\ s \in Made
    /\ EditAccepted(e)
    /\ e.day2 > 0 => frequency = "BIWEEKLY"
    /\ PlanChanged(e) =>
           /\ Given(e.count, plan[s].count) > 0
           /\ Given(e.initial, plan[s].initial) < plan[s].total
    /\ seller' = [seller EXCEPT ![c] = [AtCounter EXCEPT !.pc = "edit", !.sale = s,
                                            !.row = plan[s], !.edit = {e}]]
    /\ UNCHANGED <<plan, paid, limit, crossed, redated, strained>>

CommitEdit(c) ==
    LET s == seller[c].sale IN
    /\ seller[c].pc = "edit"
    /\ \E e \in seller[c].edit :
        /\ plan' = [plan EXCEPT ![s] = Edited(@, e, seller[c].row)]
        /\ redated' = IF e.day # Absent /\ plan[s].frequency = "WEEKLY" THEN redated \cup {s}
                      ELSE redated
    /\ crossed' = IF seller[c].row = plan[s] THEN crossed ELSE crossed \cup {s}
    /\ AtRestAgain(c)
    /\ UNCHANGED <<paid, limit, planSteps, strained>>

PlansNext ==
    \/ \E c \in Sellers, s \in CreditSales :
           \/ \E o \in Orders : BeginSale(c, s, o)
           \/ \E e \in Edits : BeginEdit(c, s, e)
    \/ \E c \in Sellers : CommitSalePlan(c) \/ CommitEdit(c)
    \/ \E s \in CreditSales, cents \in Amounts : Pay(s, cents)
    \/ \E l \in Limits : SetLimit(l)

PlansSpec == PlansInit /\ [][PlansNext]_planVars

-----------------------------------------------------------------------------
(* InstallmentScheduleService.compute, on the calendar from 2026 on.       *)

\* The days before the month m, counted from January 2026: 2028 is the first
\* of the years with a day more (2100 is beyond what sales are made for).
MonthStarts == <<0, 31, 59, 90, 120, 151, 181, 212, 243, 273, 304, 334>>
DaysBefore(m) ==
    LET year == (m - 1) \div 12
        month == 1 + ((m - 1) % 12)
    IN 365 * year + ((year + 1) \div 4) + MonthStarts[month]
       + (IF month > 2 /\ year % 4 = 2 THEN 1 ELSE 0)
MonthOf(d) == CHOOSE m \in 1..d : DaysBefore(m) < d /\ d <= DaysBefore(m + 1)
Weekday(d) == (d + 3) % 7  \* getDay: 0 is Sunday; 2026 begins on a Thursday

\* The k-th element of a set of numbers, in their order.
Nth(S, k) == CHOOSE x \in S : Cardinality({y \in S : y <= x}) = k

\* new Date(year, month, day): a day beyond the month is in the next one, and
\* day null is the last one of the month before.
DayOfTurn(days, first, turn) ==
    DaysBefore(first + (turn \div Len(days))) + days[1 + (turn % Len(days))]

\* The days take turns, month by month, and those after the sale are kept.
MonthlyDates(days, after, count) ==
    LET day(turn) == DayOfTurn(days, MonthOf(after), turn)
        kept == {turn \in 0..(Len(days) * (count + 2) - 1) : day(turn) > after}
    IN [k \in 1..count |-> day(Nth(kept, k))]

WeeklyDates(day, after, count) ==
    LET first == CHOOSE d \in (after + 1)..(after + 7) :
                     Weekday(d) = IF day = 7 THEN 0 ELSE day
    IN [k \in 1..count |-> first + 7 * (k - 1)]

WeekdayOf(p) == IF p.day = Null THEN 1 ELSE p.day

\* The search for the first day of a weekly plan ends.
LaidOut(p) == p.frequency = "WEEKLY" => WeekdayOf(p) \in 1..7

CollectionDays(p) ==
    IF p.day2 = Null THEN <<p.day>>
    ELSE IF p.day <= p.day2 THEN <<p.day, p.day2>> ELSE <<p.day2, p.day>>

DueDates(p) == IF p.frequency = "WEEKLY" THEN WeeklyDates(WeekdayOf(p), p.soldOn, p.count)
               ELSE MonthlyDates(CollectionDays(p), p.soldOn, p.count)

\* Mutant of Available: the initial payment covers instalments too.
AvailableAll(p, received) == received
Available(p, received) == Max({0, received - p.initial})

\* How many whole instalments may be counted: in floating point a quotient
\* that should be whole can fall below (2.76 / 0.92 < 3).
FullPaid(p, received) ==
    LET whole == Available(p, received) \div p.amount IN
    {Min({whole, p.count})} \cup
    (IF whole > 0 /\ Available(p, received) = whole * p.amount
     THEN {Min({whole - 1, p.count})} ELSE {})
TakesLeftover(p, full) == IF full = 0 THEN 1 ELSE p.count

\* Whole instalments are covered from the first one on; what is left over
\* goes to the last one, or to the first when it covers none.  Instalments
\* of 0 are all paid, with nothing (0 / 0 is NaN).
PaidOf(p, received, full, i) ==
    IF p.amount = 0 THEN 0
    ELSE IF i <= full THEN p.amount
    ELSE IF i = TakesLeftover(p, full) THEN Available(p, received) - full * p.amount
    ELSE 0

InstalmentStatus(p, received, full, i, due, today) ==
    LET covered == PaidOf(p, received, full, i)
    IN IF covered >= p.amount THEN "PAID"
       ELSE IF due < today THEN "OVERDUE"
       ELSE IF covered > 0 THEN "PARTIAL" ELSE "PENDING"

\* The sales that findActiveCreditSales lays out for GET /collections.
Collected == {s \in Made : plan[s].count > 0 /\ Owed(s) > 0}

-----------------------------------------------------------------------------
(* Properties.                                                             *)

\* How many instalments of s may be counted as paid.
CountsOf(s) == IF plan[s].amount = 0 THEN {plan[s].count} ELSE FullPaid(plan[s], paid[s])

\* The instalments of an active sale come to what it owes, but for half a
\* cent of rounding each; unless edits of the plan crossed each other or the
\* initial payment has not been paid.
RemainingMatchesDebt ==
    \A s \in Collected \ crossed :
        LET p == plan[s]
            remaining(full) ==
                SumFunctionOnSet([i \in 1..p.count |-> p.amount - PaidOf(p, paid[s], full, i)],
                                 1..p.count)
        IN paid[s] >= p.initial => \A full \in CountsOf(s) :
               /\ 2 * (remaining(full) - Owed(s)) <= p.count
               /\ 2 * (Owed(s) - remaining(full)) <= p.count

\* Every plan can be laid out, unless the day of a weekly one was edited; the
\* instalments fall due after the sale, one after the other, and none is
\* overdue on the day that the first one not counted as paid falls due;
\* unless a day is one that not every month has, or both days are the same.
CommonDays(p) == p.day \in 1..28 /\ p.day2 \in 0..28 /\ p.day # p.day2

DueInOrder ==
    \A s \in Collected :
        LET p == plan[s]
            due == DueDates(p)
        IN /\ s \notin redated => LaidOut(p)
           /\ LaidOut(p) /\ (p.frequency = "WEEKLY" \/ CommonDays(p)) =>
                  /\ \A i \in 1..p.count : due[i] > p.soldOn
                  /\ \A i \in 2..p.count : due[i - 1] < due[i]
                  /\ \A full \in CountsOf(s) \ {p.count} : \A i \in 1..p.count :
                         InstalmentStatus(p, paid[s], full, i, due[i], due[full + 1]) # "OVERDUE"

\* The balance stays within the limit, unless the limit was lowered or two
\* sales were made at once.
LimitKept == ~strained => Balance <= limit
=============================================================================
