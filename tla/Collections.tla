----------------------------- MODULE Collections -----------------------------
(***************************************************************************)
(* What staff and the client are shown of the plans: GET /collections, the *)
(* collections of the dashboard and of a month of it, and the statement    *)
(* that a client is sent.  Each lays the plans out for itself, from its    *)
(* own query, and none of them keeps anything.                             *)
(***************************************************************************)
EXTENDS CreditPlans

\* The schedule of a sale, as the calculator lays it out on one day; due are
\* its dates.
Line(s, due, full, i, today) ==
    [index |-> i, due |-> due[i],
     remaining |-> plan[s].amount - PaidOf(plan[s], paid[s], full, i),
     status |-> InstalmentStatus(plan[s], paid[s], full, i, due[i], today)]
Lines(s, due, full, today) == {Line(s, due, full, i, today) : i \in 1..plan[s].count}

MonthsOf(lines) == {MonthOf(l.due) : l \in lines}
DueIn(lines, month) == {l \in lines : MonthOf(l.due) = month}

Unpaid(lines) == {l \in lines : l.status # "PAID"}

\* GET /collections with `month` and `status`.
CollectionsOf(lines, month, status) == DueIn({l \in lines : l.status = status}, month)

\* The query of the dashboard passes over plans whose day is null.
OnDashboard == {s \in Collected : plan[s].day # Null}

Ahead == 30

\* The collections of the next 30 days, today included.
Upcoming(lines, today) ==
    {l \in lines :
        l.due \in today..(today + Ahead) /\ l.status \in {"PENDING", "PARTIAL"}}

\* GET /dashboard/monthly-summary.
MonthCollections(lines, month) == DueIn(Unpaid(lines), month)

\* The sale that the statement of a client tells of: the newest one.
Notified == {s \in Collected : \A t \in Collected : plan[t].soldOn <= plan[s].soldOn}

Statement(lines) ==
    [paidCount |-> Cardinality(lines \ Unpaid(lines)),
     next |-> {l \in Unpaid(lines) : \A k \in Unpaid(lines) : l.index <= k.index},
     balance |-> Balance]

\* Without a plan to tell of, or with one of instalments of 0.
PlainStatement == [balance |-> Balance, available |-> Max({0, limit - Balance})]

-----------------------------------------------------------------------------
(* Properties.                                                             *)

\* The days on which something about an instalment changes.
Around(due) == {due - Ahead - 1, due - Ahead, due, due + 1}

\* Whatever the day, an instalment that is not paid is overdue, or on the
\* dashboard, or due later than it looks ahead; and the summary of a month
\* shows it when /collections does.
ListsComplete ==
    \A s \in OnDashboard : LaidOut(plan[s]) =>
        LET due == DueDates(plan[s]) IN
        \A full \in CountsOf(s), i \in 1..plan[s].count : \A today \in Around(due[i]) :
            LET line == {Line(s, due, full, i, today)}
                unpaid == Unpaid(line)
                overdue == {l \in unpaid : l.status = "OVERDUE"}
                later == {l \in unpaid : l.due > today + 30}
                month == MonthOf(due[i])
            IN /\ unpaid = overdue \cup later \cup Upcoming(line, today)
               /\ Upcoming(line, today) \cap (overdue \cup later) = {}
               /\ MonthCollections(line, month) =
                      UNION {CollectionsOf(line, month, x) : x \in {"PENDING", "PARTIAL", "OVERDUE"}}

\* What the summaries of all the months show of a sale comes to what the
\* calculator leaves of it, and with that to what the sale owes.
MonthsMatchDebt ==
    \A s \in OnDashboard \ crossed : LaidOut(plan[s]) /\ paid[s] >= plan[s].initial =>
        \A full \in CountsOf(s) :
            LET lines == Lines(s, DueDates(plan[s]), full, plan[s].soldOn)
                shown == UNION {MonthCollections(lines, m) : m \in MonthsOf(lines)}
                off == SumFunctionOnSet([l \in shown |-> l.remaining], shown) - Owed(s)
            IN 2 * off <= plan[s].count /\ -2 * off <= plan[s].count

\* The next charge that a client is told of is the one after those that the
\* statement counts as paid, or the last of these when a quotient fell short
\* and what was left over paid the last instalment; and none falls due
\* before it.
StatementFollowsSchedule ==
    \A s \in Notified : LaidOut(plan[s]) => \A full \in CountsOf(s) :
        LET lines == Lines(s, DueDates(plan[s]), full, plan[s].soldOn)
            told == Statement(lines)
        IN /\ told.next = {} <=> told.paidCount = plan[s].count
           /\ \A l \in told.next :
                  /\ \/ l.index = told.paidCount + 1
                     \/ l.index = told.paidCount /\ full < Max(CountsOf(s))
                  /\ plan[s].frequency = "WEEKLY" \/ CommonDays(plan[s]) =>
                         \A k \in Unpaid(lines) : l.due <= k.due

\* The client is told of credit that is left only while there is some: with
\* the debt it comes to the limit.
StatementsAgree == ~strained => PlainStatement.balance + PlainStatement.available = limit

\* What a plan says and what its sale owes agree, its dates follow each other
\* and the client stays within the limit, in spite of edits and payments; and
\* the lists of staff and the statement of the client show just that.
PlansSound ==
    /\ RemainingMatchesDebt /\ DueInOrder /\ LimitKept
    /\ ListsComplete /\ MonthsMatchDebt /\ StatementFollowsSchedule /\ StatementsAgree
=============================================================================
