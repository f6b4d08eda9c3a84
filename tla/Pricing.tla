------------------------------ MODULE Pricing -------------------------------
(***************************************************************************)
(* What an online order costs, and how risky the checkout finds it.        *)
(*                                                                         *)
(* Amounts are in cents, weights in grams, percentages of coupons in       *)
(* hundredths.  roundMoney works on doubles: it gives the nearest cent,    *)
(* and at a tie either neighbour, as the double happens to lie (1.005 is   *)
(* below the tie, 1.015 above).  The use case prices a request line by     *)
(* line, takes the coupon off by scaling net and tax with a ratio that is  *)
(* itself rounded to hundredths, and adds the shipping fee.                *)
(***************************************************************************)
EXTENDS Integers, Sequences

CONSTANTS PriceCases,  \* the requests that are priced
          RiskCases    \* the requests whose risk is evaluated

\* What the DTOs let through and the rows hold: a rate that is null is negative,
\* a weight that is null is 0, and a guest has no customer to count orders of.
PriceLines == [price : Nat, quantity : Nat, productIva : Int, categoryIva : Int, grams : Nat]
PriceRequests ==
    [lines : Seq(PriceLines),
     coupon : [type : {"NONE", "PERCENT", "FIXED"}, value : Nat], estimate : Int,
     rate : [base : Nat, perKg : Int, freeAbove : Int]]
RiskSignals == {s \in [ip : Nat, email : Nat, phone : Nat, customer : Nat, young : BOOLEAN,
                       gross : Nat, guest : BOOLEAN] : s.guest => s.customer = 0 /\ ~s.young}

ASSUME PricingAssumption ==
    /\ \A request \in PriceCases : request \in PriceRequests
    /\ \A signals \in RiskCases : signals \in RiskSignals

VARIABLES quote,  \* a request and what has been computed for it
          risk    \* a request and its risk score, ordinary and strict

pricingVars == <<quote, risk>>

NoRate == -1       \* ivaRate is null
DefaultIva == 19   \* DEFAULT_IVA_PERCENT
OneKilo == 1000

\* The integers a / b can be rounded to.
Nearest(a, b) ==
    LET n == a \div b
        r == a % b
    IN  IF 2 * r < b THEN {n} ELSE IF 2 * r > b THEN {n + 1} ELSE {n, n + 1}
Down(a, b) == {a \div b}

Smaller(a, b) == IF a < b THEN a ELSE b
Distance(a, b) == IF a < b THEN b - a ELSE a - b

Iva(line) ==
    IF line.productIva >= 0 THEN line.productIva
    ELSE IF line.categoryIva >= 0 THEN line.categoryIva ELSE DefaultIva

Gross(line) == line.price * line.quantity

\* splitGrossLineIntoNetAndTax: the nets a line can have; tax is the rest.
Nets(line) == IF Iva(line) <= 0 THEN {Gross(line)}
              ELSE Nearest(Gross(line) * 100, 100 + Iva(line))

DiscountsUncapped(coupon, gross) ==
    IF coupon.type = "NONE" THEN {0} ELSE
    IF coupon.type = "FIXED" THEN {coupon.value} ELSE Nearest(gross * coupon.value, 10000)
\* merchandiseDiscountCop: never more than the merchandise.
Discounts(coupon, gross) ==
    CASE coupon.type = "NONE" \/ gross <= 0 -> {0}
      [] coupon.type = "PERCENT" /\ gross > 0 ->
            {Smaller(gross, d) : d \in Nearest(gross * coupon.value, 10000)}
      [] coupon.type = "FIXED" /\ gross > 0 -> {Smaller(gross, coupon.value)}

\* What remains of a price, in hundredths.
RatiosDown(gross, discount) ==
    IF gross > 0 THEN Down((gross - discount) * 100, gross) ELSE {0}
Ratios(gross, discount) ==
    IF gross > 0 THEN Nearest((gross - discount) * 100, gross) ELSE {0}

\* The weight of the catalogue, else the estimate, else one kilo.
Weight(grams, estimate) ==
    IF grams > 0 THEN grams ELSE IF estimate > 0 THEN estimate ELSE OneKilo

\* computeShippingFeeCop: base and weight, free from an amount on.
Fees(rate, weight, gross) ==
    IF rate.freeAbove >= 0 /\ gross >= rate.freeAbove THEN {0}
    ELSE IF rate.perKg > 0 THEN {rate.base + f : f \in Nearest(rate.perKg * weight, 1000)}
    ELSE {rate.base}

-----------------------------------------------------------------------------
Unpriced(request) == [pc |-> "lines", request |-> request, next |-> 1, net |-> 0, tax |-> 0,
                      gross |-> 0, grams |-> 0, discount |-> 0, fee |-> 0, total |-> 0]

NoRequest == [lines |-> <<>>, coupon |-> [type |-> "NONE", value |-> 0],
              estimate |-> 0, rate |-> [base |-> 0, perKg |-> 0, freeAbove |-> -1]]
NoSignals == [ip |-> 0, email |-> 0, phone |-> 0, customer |-> 0, young |-> FALSE,
              gross |-> 0, guest |-> FALSE]
Unscored(signals) == [pc |-> "new", signals |-> signals, ordinary |-> 0, strict |-> 0]

PricingInit ==
    \/ /\ \E request \in PriceCases : quote = Unpriced(request)
       /\ risk = [Unscored(NoSignals) EXCEPT !.pc = "scored"]
    \/ /\ quote = [Unpriced(NoRequest) EXCEPT !.pc = "priced"]
       /\ \E signals \in RiskCases : risk = Unscored(signals)

PricingTypeOK ==
    /\ quote.pc \in {"lines", "priced"}
    /\ \A f \in {"net", "tax", "gross", "grams", "discount", "fee", "total"} : quote[f] \in Nat
    /\ quote.request \in PriceCases \cup {NoRequest}
    /\ risk.pc \in {"new", "scored"}
    /\ risk.ordinary \in Nat /\ risk.strict \in Nat

\* One line: its net, its tax and its weight are added up.
PriceLine ==
    /\ quote.pc = "lines"
    /\ quote.next <= Len(quote.request.lines)
    /\ LET line == quote.request.lines[quote.next]
       IN  \E net \in Nets(line) :
             quote' = [quote EXCEPT !.next = @ + 1, !.net = @ + net,
                           !.tax = @ + Gross(line) - net, !.gross = @ + Gross(line),
                           !.grams = @ + line.grams * line.quantity]
    /\ UNCHANGED risk

\* The coupon, the shipping and the total.
PriceOrder ==
    /\ quote.pc = "lines"
    /\ quote.next > Len(quote.request.lines)
    /\ \E discount \in Discounts(quote.request.coupon, quote.gross) :
       \E ratio \in Ratios(quote.gross, discount) :
       \E net \in Nearest(quote.net * ratio, 100), tax \in Nearest(quote.tax * ratio, 100),
          fee \in Fees(quote.request.rate, Weight(quote.grams, quote.request.estimate),
                       quote.gross) :
          quote' = [quote EXCEPT !.pc = "priced", !.net = net, !.tax = tax, !.fee = fee,
                        !.discount = discount, !.total = net + tax + fee]
    /\ UNCHANGED risk

-----------------------------------------------------------------------------
\* Points for a signal that passes its threshold.
Points(count, threshold, points) == IF count > threshold THEN points ELSE 0

\* A large order, in cents.
Large(strict) == IF strict THEN 80000000 ELSE 200000000

\* The score; "strict" is the flag fraud_strict_mode.
Score(s, strict) ==
    Points(s.ip, IF strict THEN 3 ELSE 5, 30)
    + Points(s.email, IF strict THEN 2 ELSE 3, 20)
    + Points(s.phone, IF strict THEN 2 ELSE 3, 20)
    + Points(s.customer, IF strict THEN 2 ELSE 3, 15)
    + (IF s.young THEN 15 ELSE 0)
    + Points(s.gross, Large(strict), 20)

Tier(score) == IF score >= 80 THEN "HIGH" ELSE IF score >= 50 THEN "MEDIUM" ELSE "LOW"

Evaluate ==
    /\ risk.pc = "new"
    /\ risk' = [risk EXCEPT !.pc = "scored", !.ordinary = Score(risk.signals, FALSE),
                            !.strict = Score(risk.signals, TRUE)]
    /\ UNCHANGED quote

PricingNext == PriceLine \/ PriceOrder \/ Evaluate

PricingSpec == PricingInit /\ [][PricingNext]_pricingVars

-----------------------------------------------------------------------------
(***************************************************************************)
(* Properties.                                                             *)
(***************************************************************************)

\* What is charged for the merchandise is what the coupon leaves of it: to
\* the cent for a coupon of whole percents, and within half a percent of the
\* goods and a cent for any other, because the ratio has two decimals only.
\* The order records the exact discount,
\* so the two may differ (a small fixed coupon on a large order is
\* recorded and takes nothing off).
DiscountCharged ==
    quote.pc = "priced" =>
        LET due == quote.gross - quote.discount
            charged == quote.net + quote.tax
            coupon == quote.request.coupon
        IN  /\ 200 * Distance(charged, due) <= quote.gross + 200
            /\ coupon.type = "PERCENT" /\ coupon.value % 100 = 0
               => Distance(charged, due) <= 1

\* The strict mode never finds a request less risky than the ordinary one,
\* and a guest, who has no account to weigh, is refused only when the
\* address, the mail, the phone and the amount all speak against the order.
RiskTiersConsistent ==
    risk.pc = "scored" =>
        /\ risk.strict >= risk.ordinary
        /\ risk.signals.guest /\ Tier(risk.ordinary) = "HIGH" =>
              /\ risk.signals.ip > 5 /\ risk.signals.email > 3 /\ risk.signals.phone > 3
              /\ risk.signals.gross > Large(FALSE)

\* What an order is charged and whether it is refused for its risk.
PricingSound == DiscountCharged /\ RiskTiersConsistent
=============================================================================
