-------------------------------- MODULE Coupons --------------------------------
(***************************************************************************)
(* Coupons (src/modules/coupons): their upkeep, the discount a buyer is    *)
(* quoted, and the one a payment then applies, which                       *)
(* src/modules/payments computes for itself.                               *)
(*                                                                         *)
(* Both compute in binary floating point and round at the end.  Money is   *)
(* counted in units of a ten-thousandth of a cent, so that a percentage    *)
(* with two decimals of an amount in cents is exact; where the exact value *)
(* lies halfway between two results, the code's may be either.             *)
(***************************************************************************)
EXTENDS Integers, FiniteSets

CONSTANTS
    Codes,          \* codes as they are stored
    Typed,          \* codes as they may be typed: stored ones among them
    Canonical,      \* what toUpperCase and trim make of a typed code
    Offers,         \* what an administrator may enter
    Amendments,     \* what an update may change
    OnSale,         \* courses
    PriceOf,        \* the price of a course, in cents
    MaxUses,        \* uses of a coupon that are counted (a bound)
    NoOffer, NoQuote,
    NoCap           \* maximumDiscount is null

\* Amounts in cents, percentages in hundredths; what is never below zero in a new
\* coupon may be so after an update.
OfferRows == [kind : {"percentage", "fixed"}, value : Int, minimum : Nat,
              cap : Nat \cup {NoCap}, limit : Int, active : BOOLEAN, courses : SUBSET OnSale]
Columns == [kind |-> {"percentage", "fixed"}, value |-> Int, minimum |-> Nat,
            cap |-> Nat \cup {NoCap}, limit |-> Int, active |-> BOOLEAN,
            courses |-> SUBSET OnSale]

\* The row of a new coupon, and a row after an update.
Entered(offer) ==
    [column \in DOMAIN offer \cup {"active"} |-> IF column = "active" THEN TRUE ELSE offer[column]]
Updated(row, change) ==
    [column \in DOMAIN row |-> IF column \in DOMAIN change THEN change[column] ELSE row[column]]

ASSUME CouponsAssumption ==
    /\ Codes \subseteq Typed /\ Canonical \in [Typed -> Codes]
    /\ \A c \in Codes : Canonical[c] = c
    /\ PriceOf \in [OnSale -> Nat] /\ MaxUses \in Nat
    /\ \A f \in Offers : Entered(f) \in OfferRows /\ f.value >= 0 /\ f.limit >= 0
    /\ \A change \in Amendments : \A column \in DOMAIN change :
           change[column] \in Columns[column]

VARIABLES
    coupon,     \* coupons
    used,       \* coupons.usedCount
    window,     \* where now lies: before validFrom, within, after validUntil
    spent,      \* codes of the buyer's completed payments
    quote,      \* what the buyer was last quoted, while no coupon has changed
    bill        \* the payment the buyer has begun

couponVars == <<coupon, used, window, spent, quote, bill>>

-----------------------------------------------------------------------------
Quotes == [typed : Typed, course : OnSale, amount : Nat, discount : Int, final : Nat]
Bills == [typed : Typed, course : OnSale, applied : BOOLEAN, amount : Nat \ {0},
          fresh : BOOLEAN]

CouponsInit ==
    /\ coupon = [c \in Codes |-> NoOffer]
    /\ used = [c \in Codes |-> 0]
    /\ window = [c \in Codes |-> "within"]
    /\ spent = {}
    /\ quote = NoQuote
    /\ bill = NoQuote

\* A quote made before a coupon changed says nothing of what it is now; a payment
\* begun before goes on.
Outdated(b) == IF b = NoQuote THEN NoQuote ELSE [b EXCEPT !.fresh = FALSE]
Changed == quote' = NoQuote /\ bill' = Outdated(bill)

-----------------------------------------------------------------------------
(* Administrators *)

\* The code is looked for as typed and stored in capitals: one that differs
\* only in these is refused by the unique key.
CreateCoupon(typed, offer, when) ==
    LET c == Canonical[typed] IN
    /\ coupon[c] = NoOffer
    /\ coupon' = [coupon EXCEPT ![c] = Entered(offer)]
    /\ used' = [used EXCEPT ![c] = 0]
    /\ window' = [window EXCEPT ![c] = when]
    /\ Changed
    /\ UNCHANGED spent

\* An update may set any value and any limit, below zero too, and other dates.
UpdateCoupon(c, change, when) ==
    /\ coupon[c] # NoOffer
    /\ coupon' = [coupon EXCEPT ![c] = Updated(@, change)]
    /\ window' = [window EXCEPT ![c] = when]
    /\ Changed
    /\ UNCHANGED <<used, spent>>

DeleteCoupon(c) ==
    /\ coupon[c] # NoOffer
    /\ coupon' = [coupon EXCEPT ![c] = NoOffer]
    /\ Changed
    /\ UNCHANGED <<used, window, spent>>

\* Time goes on.
TimePasses(c) ==
    /\ window[c] # "after"
    /\ window' = [window EXCEPT ![c] = IF @ = "before" THEN "within" ELSE "after"]
    /\ Changed
    /\ UNCHANGED <<coupon, used, spent>>

-----------------------------------------------------------------------------
(* The quote *)

\* Zero is no limit and no minimum; a cap of zero leaves no discount.
Exhausted(c) == coupon[c].limit # 0 /\ used[c] >= coupon[c].limit
TooLittle(c, amount) == coupon[c].minimum # 0 /\ amount < coupon[c].minimum
Covers(c, course) == coupon[c].courses = {} \/ course \in coupon[c].courses
InForce(c, course) ==
    /\ coupon[c] # NoOffer
    /\ coupon[c].active
    /\ window[c] = "within"
    /\ ~Exhausted(c)
    /\ Covers(c, course)

Cent == 10000
Franc == 1000000

Lesser(a, b) == IF a < b THEN a ELSE b
Less(a, b) == IF a > b THEN a - b ELSE 0
Capped(c, discount) ==
    IF coupon[c].cap # NoCap THEN Lesser(discount, coupon[c].cap * Cent) ELSE discount
Share(c, amount) ==
    IF coupon[c].kind = "percentage" THEN amount * coupon[c].value
                                     ELSE coupon[c].value * Cent

\* Math.round of a product of binary fractions: the nearest whole, and of two as
\* near either.
Nearest(n, unit) ==
    {m \in {n \div unit, n \div unit + 1} : 2 * n \in (2 * m - 1) * unit..(2 * m + 1) * unit}
Cents(n) == Nearest(n, Cent)
Francs(n) == Nearest(n, Franc)

\* Fault: what remains is rounded down to francs.
FinalInFrancs(n) == {(n \div Franc) * 100}
FinalInCents(n) == Cents(n)

\* A cap is for percentages.
QuotedDiscount(c, amount) ==
    IF coupon[c].kind = "percentage" THEN Capped(c, Share(c, amount)) ELSE Share(c, amount)

ValidateCoupon(typed, course, amount) ==
    LET c == Canonical[typed]
        discount == QuotedDiscount(c, amount) IN
    /\ InForce(c, course)
    /\ ~TooLittle(c, amount)
    /\ c \notin spent
    /\ \E saved \in Cents(discount), final \in FinalInCents(Less(amount * Cent, discount)) :
           quote' = [typed |-> typed, course |-> course, amount |-> amount,
                     discount |-> saved, final |-> final]
    /\ UNCHANGED <<coupon, used, window, spent, bill>>

-----------------------------------------------------------------------------
(* The payment *)

\* Fault: a payment's discount has no cap.
ChargedInFull(c, amount) == Share(c, amount)
ChargedDiscount(c, amount) ==
    IF coupon[c].kind = "percentage" THEN Capped(c, Share(c, amount)) ELSE Share(c, amount)

\* Fault: an order of nothing is billed at nothing.
PayableIfAny(n) == n
Payable(n) == IF n = 0 THEN 1 ELSE n

\* createPaymentIntent: the code is looked for as typed, and one that is not
\* valid is passed over; whole francs, and one at least.
CreatePaymentIntent(typed, course) ==
    LET price == PriceOf[course]
        valid == typed \in Codes /\ InForce(typed, course) IN
    /\ ~(valid /\ typed \in spent)
    /\ \E francs \in Francs(IF valid THEN Less(price * Cent, ChargedDiscount(typed, price))
                                      ELSE price * Cent) :
           bill' = [typed |-> typed, course |-> course, applied |-> valid,
                    amount |-> Payable(francs), fresh |-> TRUE]
    /\ UNCHANGED <<coupon, used, window, spent, quote>>

\* The payment is settled; the coupon is counted where there still is one.
SettlePayment ==
    /\ bill # NoQuote
    /\ IF bill.applied
       THEN LET c == bill.typed IN
            /\ used[c] < MaxUses
            /\ used' = [used EXCEPT ![c] = IF coupon[c] = NoOffer THEN @ ELSE @ + 1]
            /\ spent' = spent \cup {c}
       ELSE UNCHANGED <<used, spent>>
    /\ quote' = NoQuote
    /\ bill' = NoQuote
    /\ UNCHANGED <<coupon, window>>

\* Others use the coupon too.
UsedByAnother(c) ==
    /\ coupon[c] # NoOffer
    /\ used[c] < MaxUses
    /\ used' = [used EXCEPT ![c] = @ + 1]
    /\ Changed
    /\ UNCHANGED <<coupon, window, spent>>

Windows == {"before", "within", "after"}
Amounts == {PriceOf[s] : s \in OnSale}

CouponsNext ==
    \/ \E typed \in Typed :
           \/ \E offer \in Offers, when \in Windows :
                  CreateCoupon(typed, offer, when)
           \/ \E s \in OnSale :
                  \/ \E amount \in Amounts : ValidateCoupon(typed, s, amount)
                  \/ CreatePaymentIntent(typed, s)
    \/ \E c \in Codes :
           \/ \E change \in Amendments, when \in Windows : UpdateCoupon(c, change, when)
           \/ DeleteCoupon(c) \/ TimePasses(c) \/ UsedByAnother(c)
    \/ SettlePayment
CouponsSpec == CouponsInit /\ [][CouponsNext]_couponVars

-----------------------------------------------------------------------------
(* Properties *)

\* Every variable keeps its type; nothing is used oftener than is counted.
CouponsTypeOK ==
    /\ coupon \in [Codes -> OfferRows \cup {NoOffer}]
    /\ used \in [Codes -> 0..MaxUses]
    /\ window \in [Codes -> Windows]
    /\ spent \subseteq Codes
    /\ quote \in Quotes \cup {NoQuote} /\ bill \in Bills \cup {NoQuote}

\* What a buyer is quoted adds up, to a cent more or less: what is saved and what
\* remains are the amount, unless a discount exceeds it and nothing remains.
QuoteAddsUp ==
    quote # NoQuote =>
        \/ quote.discount + quote.final \in (quote.amount - 1)..(quote.amount + 1)
        \/ quote.discount > quote.amount /\ quote.final = 0

\* What a buyer was quoted for the price of the course is what the payment then
\* asks, to the nearest franc and one franc at least, when the coupon has not
\* changed and its code was typed as it is stored.
QuoteIsCharged ==
    /\ quote # NoQuote /\ bill # NoQuote
    /\ bill.fresh
    /\ quote.typed = bill.typed /\ quote.typed \in Codes
    /\ quote.course = bill.course /\ quote.amount = PriceOf[quote.course]
    => \/ bill.amount * 100 \in (quote.final - 50)..(quote.final + 50)
       \/ bill.amount = 1 /\ quote.final <= 50

\* The quote is right, and it is what the buyer pays.
QuotesAreHonoured == QuoteAddsUp /\ QuoteIsCharged
================================================================================
