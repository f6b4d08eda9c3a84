------------------------------ MODULE Figures -------------------------------
(***************************************************************************)
(* What the business reads about itself: the dashboard, the report of a    *)
(* month, the materialized views that a job refreshes, and the alerts that *)
(* another job derives from a view and from the orders.  All of it is      *)
(* computed from rows that requests write meanwhile: sales, payments and   *)
(* online orders.                                                          *)
(*                                                                         *)
(* Time is counted in units of which a day has HoursPerDay, and every      *)
(* amount is one unit of money.  An order that staff mark as paid gets no  *)
(* paidAt; if its customer is linked to a client, the request also creates *)
(* a cash sale, again each time it is repeated.  An order that is          *)
(* cancelled counts nowhere, as one that stays pending; a webhook that     *)
(* found it pending may cancel it when it was paid meanwhile.              *)
(***************************************************************************)
EXTENDS Integers, FiniteSets

CONSTANTS WebOrders,     \* bound: OnlineOrder rows
          SlipRows,      \* bound: Sale and Payment rows
          HoursPerDay,   \* of an instance; 24 in the world
          DaysPerMonth,
          MaxHour,       \* bound: the last hour of an instance
          MaxEntries,    \* bound: orders, payments and other entries
          PaidFloor,     \* a paid-orders alarm needs more before; 5 in the code
          ExpiredFloor,  \* an expired-orders alarm needs as many; 3 in the code
          Nobody         \* no order

ASSUME FiguresAssumption ==
    /\ IsFiniteSet(WebOrders) /\ IsFiniteSet(SlipRows) /\ WebOrders \cap SlipRows = {}
    /\ Nobody \notin WebOrders
    /\ HoursPerDay \in Nat \ {0} /\ DaysPerMonth \in Nat \ {0}
    /\ MaxHour \in Nat /\ MaxEntries \in Nat

VARIABLES hour,       \* what time it is
          entries,    \* number of entries so far
          web,        \* web[o]: an OnlineOrder row and its last event
          slip,       \* slip[s]: a Sale or Payment row
          view,       \* daily_sales_summary, as it was when last refreshed
          refresher,  \* AnalyticsReadModelsRefreshJob.running
          evaluator,  \* BusinessAlertsEvaluationJob: what its tick has found
          alarms,     \* the alerts of the last tick that ended
          since       \* what happened since: for the properties

figureVars == <<hour, entries, web, slip, view, refresher, evaluator, alarms, since>>

Never == -1
Hours == 0..MaxHour
DayOf(t) == t \div HoursPerDay
MonthAt(t) == DayOf(t) \div DaysPerMonth
AllDays == 0..DayOf(MaxHour)
Codes == {"ONLINE_REVENUE_DROP", "ONLINE_PAID_ORDERS_DROP", "EXPIRED_ORDERS_SPIKE"}

FiguresTypeOK ==
    /\ hour \in Hours
    /\ entries \in 0..MaxEntries
    /\ web \in [WebOrders ->
           [status : {"NONE", "PENDING_PAYMENT", "PAID", "EXPIRED", "CANCELLED"},
            made : Hours \cup {Never}, paidAt : Hours \cup {Never},
            expiredAt : Hours \cup {Never}, reallyPaid : Hours \cup {Never},
            again : BOOLEAN]]
    /\ slip \in [SlipRows -> [kind : {"NONE", "CASH", "CREDIT", "PAYMENT"},
                              made : Hours \cup {Never}, order : WebOrders \cup {Nobody}]]
    /\ view \in [AllDays -> [physical : 0..Cardinality(SlipRows),
                             online : 0..Cardinality(WebOrders)]]
    /\ refresher \in BOOLEAN
    /\ evaluator \in [pc : {"idle", "counted"}, alarms : SUBSET Codes]
    /\ alarms \subseteq Codes
    /\ since \in [unseen : SUBSET AllDays, calm : BOOLEAN, judged : BOOLEAN]

NoWeb == [status |-> "NONE", made |-> Never, paidAt |-> Never,
          expiredAt |-> Never, reallyPaid |-> Never, again |-> FALSE]
\* reallyPaid and again are for the properties: when the order became paid, and
\* whether it was entered as a sale, too; since.unseen are the days of which the
\* view is no longer new, since.calm says that nothing happened since the alert
\* job looked, since.judged that it ended after that.
NoSlip == [kind |-> "NONE", made |-> Never, order |-> Nobody]
NoTick == [pc |-> "idle", alarms |-> {}]

-----------------------------------------------------------------------------
\* The rows of a kind with a date among ts, and the orders that count as paid.
SlipsIn(kinds, ts) == {s \in SlipRows : slip[s].kind \in kinds /\ slip[s].made \in ts}
PaidIn(ts) == {o \in WebOrders : web[o].status = "PAID" /\ web[o].made \in ts}

InMonth(m) == {t \in Hours : MonthAt(t) = m}
InDay(d) == {t \in Hours : DayOf(t) = d}

\* GET /reports/monthly-summary.
Report(m) ==
    LET cash == Cardinality(SlipsIn({"CASH"}, InMonth(m)))
        payments == Cardinality(SlipsIn({"PAYMENT"}, InMonth(m)))
        ecommerce == Cardinality(PaidIn(InMonth(m))) IN
    [cash |-> cash, payments |-> payments, ecommerce |-> ecommerce,
     grand |-> cash + payments + ecommerce]

\* The sums of GET /dashboard for the month it is.
Dashboard(m) ==
    LET cash == Cardinality(SlipsIn({"CASH"}, InMonth(m)))
        collected == Cardinality(SlipsIn({"PAYMENT"}, InMonth(m))) IN
    [sales |-> Cardinality(SlipsIn({"CASH", "CREDIT"}, InMonth(m))), cash |-> cash,
     credit |-> Cardinality(SlipsIn({"CREDIT"}, InMonth(m))), collected |-> collected,
     income |-> cash + collected]

\* The daily view by channel.
DailySales ==
    [d \in AllDays |-> [physical |-> Cardinality(SlipsIn({"CASH", "CREDIT"}, InDay(d))),
                        online |-> Cardinality(PaidIn(InDay(d)))]]

FiguresInit ==
    /\ hour = 0
    /\ entries = 0
    /\ web = [o \in WebOrders |-> NoWeb]
    /\ slip = [s \in SlipRows |-> NoSlip]
    /\ view = DailySales
    /\ refresher = FALSE
    /\ evaluator = NoTick
    /\ alarms = {}
    /\ since = [unseen |-> {}, calm |-> FALSE, judged |-> FALSE]

-----------------------------------------------------------------------------
\* The alarms are no longer of what is there.
Stirred(days) ==
    /\ since' = [unseen |-> since.unseen \cup days, calm |-> FALSE, judged |-> FALSE]
    /\ alarms' = {}

Entered == entries < MaxEntries /\ entries' = entries + 1

PassHour ==
    /\ hour < MaxHour
    /\ hour' = hour + 1
    /\ Stirred(IF DayOf(hour) = DayOf(hour + 1) THEN {} ELSE AllDays)
    /\ UNCHANGED <<entries, web, slip, view, refresher, evaluator>>

Rewrite(o, row, days) ==
    /\ Entered
    /\ web' = [web EXCEPT ![o] = row]
    /\ Stirred(days)
    /\ UNCHANGED <<hour, view, refresher, evaluator>>

PlaceOrder(o) ==
    /\ web[o] = NoWeb
    /\ Rewrite(o, [NoWeb EXCEPT !.status = "PENDING_PAYMENT", !.made = hour], {})
    /\ UNCHANGED slip

\* markAsPaid, for a webhook that found the order pending a while ago; it does
\* not look again.
OrderPaid(o) ==
    /\ web[o] # NoWeb
    /\ Rewrite(o, [web[o] EXCEPT !.status = "PAID", !.paidAt = hour,
                    !.reallyPaid = IF web[o].status = "PAID" THEN @ ELSE hour],
               {DayOf(web[o].made)})
    /\ UNCHANGED slip

\* markAsCancelled, by id as well: an order that was paid meanwhile keeps its
\* paidAt and is paid no longer.
CancelOrder(o) ==
    /\ web[o] # NoWeb
    /\ Rewrite(o, [web[o] EXCEPT !.status = "CANCELLED", !.reallyPaid = Never],
               IF web[o].status = "PAID" THEN {DayOf(web[o].made)} ELSE {})
    /\ UNCHANGED slip

\* The expiry job or staff; an order event says so, too.
ExpireOrder(o) ==
    /\ web[o].status = "PENDING_PAYMENT"
    /\ Rewrite(o, [web[o] EXCEPT !.status = "EXPIRED", !.expiredAt = hour], {})
    /\ UNCHANGED slip

\* PATCH of the status to PAID, whatever it was.  There is no sale for a
\* guest, for a customer without a client, and when it fails.
StaffMarkPaid(o) ==
    /\ web[o] # NoWeb
    /\ LET row == [web[o] EXCEPT
                       !.status = "PAID",
                       !.reallyPaid = IF web[o].status = "PAID" THEN @ ELSE hour] IN
       \/ Rewrite(o, row, {DayOf(row.made)}) /\ UNCHANGED slip
       \/ /\ \E s \in SlipRows :
                 /\ slip[s] = NoSlip
                 /\ slip' = [slip EXCEPT
                        ![s] = [kind |-> "CASH", made |-> hour, order |-> o]]
          /\ Rewrite(o, [row EXCEPT !.again = TRUE], {DayOf(row.made)})

\* A sale or a payment, whose date may be one of the past, and its deletion.
WriteSlip(s, kind, t) ==
    /\ Entered
    /\ slip[s] = NoSlip
    /\ t <= hour
    /\ slip' = [slip EXCEPT ![s] = [kind |-> kind, made |-> t, order |-> Nobody]]
    /\ UNCHANGED <<hour, web, view, refresher, evaluator, alarms, since>>

DeleteSlip(s) ==
    /\ Entered
    /\ slip[s] # NoSlip
    /\ slip' = [slip EXCEPT ![s] = NoSlip]
    /\ UNCHANGED <<hour, web, view, refresher, evaluator, alarms, since>>

-----------------------------------------------------------------------------
\* The refresh job; a tick that finds another one running does nothing.  Of
\* the six views the daily one is the first; what follows does not matter
\* here, and if it fails itself it stays as it is.
RefreshTick ==
    /\ ~refresher
    /\ refresher' = TRUE
    /\ UNCHANGED <<hour, entries, web, slip, view, evaluator, alarms, since>>

RefreshDailySales ==
    /\ refresher
    /\ view' = DailySales
    /\ since' = [since EXCEPT !.unseen = {}, !.judged = FALSE]
    /\ alarms' = {}
    /\ refresher' = FALSE
    /\ UNCHANGED <<hour, entries, web, slip, evaluator>>

RefreshFails ==
    /\ refresher
    /\ refresher' = FALSE
    /\ UNCHANGED <<hour, entries, web, slip, view, evaluator, alarms, since>>

-----------------------------------------------------------------------------
LastDay(h) == {t \in Hours : t > h - HoursPerDay /\ t <= h}
DayBefore(h) == LastDay(h - HoursPerDay)
Week(h) == {t \in Hours : t > h - 7 * HoursPerDay /\ t <= h}

\* An order without paidAt counts when it was made.
Dated(o) == IF web[o].paidAt # Never THEN web[o].paidAt ELSE web[o].made
PaidDated(ts) == Cardinality({o \in WebOrders : web[o].status = "PAID" /\ Dated(o) \in ts})
ExpiredIn(ts) == Cardinality({o \in WebOrders : web[o].expiredAt \in ts})

\* Less than 80 hundredths of what it was.
Drops(now, before) == before > 0 /\ 5 * now < 4 * before

PaidDrop(h) ==
    /\ PaidDated(DayBefore(h)) > PaidFloor
    /\ Drops(PaidDated(LastDay(h)), PaidDated(DayBefore(h)))
\* More than one and a half times the average of seven days.
ExpiredSpike(h) ==
    /\ ExpiredIn(Week(h)) > 0
    /\ 14 * ExpiredIn(LastDay(h)) > 3 * ExpiredIn(Week(h))
    /\ ExpiredIn(LastDay(h)) >= ExpiredFloor

\* The alert job counts the orders, and then reads the view.
LoadSnapshot ==
    /\ evaluator = NoTick
    /\ evaluator' = [pc |-> "counted", alarms |->
           {c \in Codes : \/ c = "ONLINE_PAID_ORDERS_DROP" /\ PaidDrop(hour)
                          \/ c = "EXPIRED_ORDERS_SPIKE" /\ ExpiredSpike(hour)}]
    /\ since' = [since EXCEPT !.calm = TRUE, !.judged = FALSE]
    /\ alarms' = {}
    /\ UNCHANGED <<hour, entries, web, slip, view, refresher>>

\* A day that the view has no row for had no revenue.
Revenue(d) == IF d \in AllDays THEN view[d].online ELSE 0
RevenueDrops(d) == Drops(Revenue(d - 1), Revenue(d - 2))

RaiseAlarms ==
    /\ evaluator.pc = "counted"
    /\ alarms' = evaluator.alarms \cup {c \in Codes :
                      c = "ONLINE_REVENUE_DROP" /\ RevenueDrops(DayOf(hour))}
    /\ evaluator' = NoTick
    /\ since' = [since EXCEPT !.judged = TRUE]
    /\ UNCHANGED <<hour, entries, web, slip, view, refresher>>

EvaluationFails ==
    /\ evaluator.pc = "counted"
    /\ evaluator' = NoTick
    /\ since' = [since EXCEPT !.calm = FALSE]
    /\ UNCHANGED <<hour, entries, web, slip, view, refresher, alarms>>

FiguresNext ==
    \/ PassHour
    \/ \E o \in WebOrders :
           \/ PlaceOrder(o) \/ OrderPaid(o) \/ CancelOrder(o) \/ ExpireOrder(o)
           \/ StaffMarkPaid(o)
    \/ \E s \in SlipRows :
           \/ \E kind \in {"CASH", "CREDIT", "PAYMENT"}, t \in Hours : WriteSlip(s, kind, t)
           \/ DeleteSlip(s)
    \/ RefreshTick \/ RefreshDailySales \/ RefreshFails
    \/ LoadSnapshot \/ RaiseAlarms \/ EvaluationFails

FiguresSpec == FiguresInit /\ [][FiguresNext]_figureVars

-----------------------------------------------------------------------------
\* The online revenue of a day and the orders paid in some hours, as they are.
TrueRevenue(d) == Cardinality(PaidIn(InDay(d)))
TruePaid(ts) == Cardinality({o \in WebOrders : web[o].reallyPaid \in ts})

\* The job that just looked raises an alarm exactly when there is a reason:
\* for the revenue if the view was refreshed today and no order of the two
\* days was paid, or lost its payment to a late cancellation, since; for the
\* paid orders if staff marked none of them as paid (it then counts when it
\* was made, or when it was paid before it was cancelled); and for the
\* expired ones in any case.
AlarmsTrue ==
    since.judged /\ since.calm =>
        LET today == DayOf(hour)
            dated == \A o \in WebOrders :
                web[o].status = "PAID" => web[o].reallyPaid = web[o].paidAt IN
        /\ {today - 1, today - 2} \cap since.unseen = {} =>
               ("ONLINE_REVENUE_DROP" \in alarms
                  <=> Drops(TrueRevenue(today - 1), TrueRevenue(today - 2)))
        /\ dated => ("ONLINE_PAID_ORDERS_DROP" \in alarms
                       <=> /\ TruePaid(DayBefore(hour)) > PaidFloor
                           /\ Drops(TruePaid(LastDay(hour)), TruePaid(DayBefore(hour))))
        /\ "EXPIRED_ORDERS_SPIKE" \in alarms => ExpiredIn(LastDay(hour)) >= ExpiredFloor

\* What came in during a month: orders by the day they were made, the rest by
\* its date; what staff entered as a sale of an order is not another one.
Earned(m) ==
    PaidIn(InMonth(m)) \cup {s \in SlipsIn({"CASH", "PAYMENT"}, InMonth(m)) :
                                slip[s].order = Nobody}

\* The report and the dashboard give one income, and the report counts what
\* came in once, but for the orders that were entered as sales, which it
\* counts again, and also when they were cancelled afterwards.
ReportsAgree ==
    \A m \in {MonthAt(t) : t \in Hours} :
        LET report == Report(m)
            shown == Dashboard(m)
            earned == Cardinality(Earned(m))
        IN /\ report.cash + report.payments = shown.income
           /\ shown.sales = shown.cash + shown.credit
           /\ report.grand >= earned
           /\ (\A o \in WebOrders : ~web[o].again) => report.grand = earned

FiguresRight == AlarmsTrue /\ ReportsAgree
=============================================================================
