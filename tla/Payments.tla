------------------------------ MODULE Payments ------------------------------
(***************************************************************************)
(* Purchase, settlement and refund of course enrolments                    *)
(* (src/modules/payments/payments.service.ts).                             *)
(*                                                                         *)
(* Every HTTP request runs as a job of a worker.  A job advances by one    *)
(* action per await that reads or writes something another job can touch,  *)
(* so everything between two actions may be stale.  A Prisma transaction   *)
(* is one action: its first write locks the payment row and its inserts    *)
(* are checked by the unique index, so that concurrent transactions of     *)
(* the same payment or the same enrolment serialise.                       *)
(*                                                                         *)
(* The provider (Nkwa) is external: collections and disbursements are      *)
(* modelled by what NkwaService relies on.                                 *)
(***************************************************************************)
EXTENDS Integers, FiniteSets, FiniteSetsExt

CONSTANTS
    Users, Courses, Instructors, Coupons,
    InstructorOf,       \* the instructor of each course
    Prices,             \* the prices a course may have when it is read
    Discount,           \* what a coupon takes off the price
    UsageLimit,         \* Coupon.usageLimit, 0 when the column is null
    Share,              \* config instructorShare, in percent
    PaymentIds,         \* collections the provider can open (a bound)
    Disbursements,      \* disbursements the provider can make (a bound)
    Workers,            \* requests in flight at once (a bound)
    MaxFaults,          \* crashes and lost provider answers (a bound)
    NoCoupon, NoOrder, NoRow, NoPayment, Free

ASSUME ConstantsAssumption ==
    /\ InstructorOf \in [Courses -> Instructors]
    /\ Prices \in [Courses -> SUBSET Nat]
    /\ Discount \in [Coupons -> Nat]
    /\ UsageLimit \in [Coupons -> Nat]
    /\ Share \in 1..99
    /\ MaxFaults \in Nat
    /\ NoCoupon \notin Coupons
    /\ NoOrder \notin [user : Users, course : Courses,
                      coupon : Coupons \cup {NoCoupon}, amount : Nat \ {0}]
    /\ NoOrder \notin Users \X Courses
    /\ NoRow \notin [status : {"ACTIVE", "REFUNDED"}, via : PaymentIds \cup {Free}]
    /\ NoRow \notin PaymentIds \cup {Free}
    /\ NoPayment \notin PaymentIds
    /\ Free \notin PaymentIds

ASSUME FiniteAssumption ==
    /\ IsFiniteSet(Users)
    /\ IsFiniteSet(Courses)
    /\ IsFiniteSet(PaymentIds)
    /\ IsFiniteSet(Disbursements)

VARIABLES
    collection,     \* provider: status of the collection behind each payment
    disbursed,      \* provider: the payment each disbursement refunded
    order,          \* what each collection is for; Payment.metadata
    status,         \* Payment.status, "none" before the row exists
    reversed,       \* disbursements recorded by a refund transaction (Payment.refundId)
    enrollment,     \* the Enrollment row of each user and course
    course,         \* Course.totalEnrollments and totalRevenue
    profile,        \* InstructorProfile totals (revenue in hundredths)
    profiled,       \* instructors that have an InstructorProfile row
    usedCount,      \* Coupon.usedCount
    analytics,      \* UserAnalytics of each user
    notified,       \* payments whose success was notified to the buyer
    job,            \* the request each worker is executing
    faults          \* crashes and lost answers so far

money == <<collection, disbursed, order>>
totals == <<course, profile, usedCount, analytics>>
rows == <<status, reversed, enrollment>>
vars == <<money, totals, rows, profiled, notified, job, faults>>

-----------------------------------------------------------------------------
Seats == Users \X Courses

Orders == [user : Users, course : Courses, coupon : Coupons \cup {NoCoupon},
           amount : Nat \ {0}]

Rows == [status : {"ACTIVE", "REFUNDED"}, via : PaymentIds \cup {Free}]

Idle == [at |-> "idle"]

Jobs ==
    {Idle}
    \cup [at : {"freeCommit"}, seat : Seats]
    \cup [at : {"collect"}, order : Orders]
    \cup [at : {"record", "ask", "readPayment", "readEnrollment", "notify",
                "markFailed", "disburse"}, pid : PaymentIds]
    \cup [at : {"grant"}, pid : PaymentIds, enrolled : BOOLEAN]
    \cup [at : {"reverse"}, pid : PaymentIds, by : Disbursements]

SeatOf(p) == <<order[p].user, order[p].course>>

InstructorFor(p) == InstructorOf[order[p].course]

Settled == {p \in PaymentIds : status[p] \in {"COMPLETED", "REFUNDED"}}

Init ==
    /\ collection = [p \in PaymentIds |-> "none"]
    /\ disbursed = [d \in Disbursements |-> NoPayment]
    /\ order = [p \in PaymentIds |-> NoOrder]
    /\ status = [p \in PaymentIds |-> "none"]
    /\ reversed = {}
    /\ enrollment = [s \in Seats |-> NoRow]
    /\ course = [c \in Courses |-> [enrollments |-> 0, revenue |-> 0]]
    /\ profile = [i \in Instructors |-> [students |-> 0, revenue |-> 0]]
    /\ profiled \in SUBSET Instructors
    /\ usedCount = [k \in Coupons |-> 0]
    /\ analytics = [u \in Users |-> [courses |-> 0, spent |-> 0]]
    /\ notified = {}
    /\ job = [w \in Workers |-> Idle]
    /\ faults = 0

\* Worker w starts, continues with, or ends a job.
Start(w, j) == job[w] = Idle /\ job' = [job EXCEPT ![w] = j]
Continue(w, j) == job' = [job EXCEPT ![w] = j]
Finish(w) == job' = [job EXCEPT ![w] = Idle]
At(w, stage) == job[w].at = stage

\* Fault: the schema without the unique index.
NoUniqueIndex(s) == TRUE

\* @@unique([userId, courseId]): an insert succeeds only where there is no row.
UniqueIndexAccepts(s) == enrollment[s] = NoRow

\* The increments (n = 1) and decrements (n = -1) of one transaction.
CourseTotals(c, n, amount) ==
    [course EXCEPT ![c] = [enrollments |-> @.enrollments + n,
                           revenue |-> @.revenue + n * amount]]

\* Fault: a decrement takes the whole amount, not the instructor's share of it.
ProfileTotalsUnshared(i, n, amount) ==
    [profile EXCEPT ![i] = [students |-> @.students + n,
                            revenue |-> @.revenue
                                + (IF n < 0 THEN -100 ELSE Share) * amount]]
ProfileTotals(i, n, amount) ==
    [profile EXCEPT ![i] = [students |-> @.students + n,
                            revenue |-> @.revenue + n * amount * Share]]

-----------------------------------------------------------------------------
(* enrollFree *)

\* Fault: the price is not looked at.
FreeWhateverThePrice(c) == TRUE

FreeOf(c) == 0 \in Prices[c]

EnrollFreeRead(w, u, c) ==
    /\ FreeOf(c)
    /\ enrollment[<<u, c>>] = NoRow
    /\ Start(w, [at |-> "freeCommit", seat |-> <<u, c>>])
    /\ UNCHANGED <<money, totals, rows, profiled, notified, faults>>

\* The transaction: the unique index refuses a row another request inserted.
EnrollFreeCommit(w) ==
    /\ At(w, "freeCommit")
    /\ LET s == job[w].seat IN
         IF UniqueIndexAccepts(s)
         THEN /\ enrollment' = [enrollment EXCEPT
                                  ![s] = [status |-> "ACTIVE", via |-> Free]]
              /\ course' = CourseTotals(s[2], 1, 0)
         ELSE UNCHANGED <<enrollment, course>>
    /\ Finish(w)
    /\ UNCHANGED <<money, profile, usedCount, analytics, status, reversed,
                   profiled, notified, faults>>

-----------------------------------------------------------------------------
(* createPaymentIntent *)

PriorUse(u, k) ==
    {p \in PaymentIds : /\ status[p] = "COMPLETED"
                        /\ order[p].user = u
                        /\ order[p].coupon = k}

\* isCouponValid and the per-user check.  An inactive, expired or inapplicable
\* coupon is ignored by the code, which is the purchase without a coupon.
CouponApplies(u, k) ==
    /\ UsageLimit[k] = 0 \/ usedCount[k] < UsageLimit[k]
    /\ PriorUse(u, k) = {}

\* Fault: the floor of one franc is forgotten.
FinalAmountUnfloored(price, off) == price - off

\* Math.max(1, Math.round(applyDiscount(...))) on integer XAF.
FinalAmount(price, off) == IF price > off THEN price - off ELSE 1

IntentCheck(w, u, c, k, price) ==
    /\ price \in Prices[c]
    /\ enrollment[<<u, c>>] = NoRow
    /\ k # NoCoupon => CouponApplies(u, k)
    /\ LET off == IF k = NoCoupon THEN 0 ELSE Discount[k]
           o == [user |-> u, course |-> c, coupon |-> k,
                 amount |-> FinalAmount(price, off)]
       IN Start(w, [at |-> "collect", order |-> o])
    /\ UNCHANGED <<money, totals, rows, profiled, notified, faults>>

\* nkwa.collect: the provider opens a pending collection.  When the answer is
\* lost the request fails although the buyer will be asked to pay.
IntentCollect(w, p) ==
    /\ At(w, "collect")
    /\ collection[p] = "none"
    /\ collection' = [collection EXCEPT ![p] = "pending"]
    /\ order' = [order EXCEPT ![p] = job[w].order]
    /\ \/ Continue(w, [at |-> "record", pid |-> p]) /\ UNCHANGED faults
       \/ faults < MaxFaults /\ faults' = faults + 1 /\ Finish(w)
    /\ UNCHANGED <<disbursed, totals, rows, profiled, notified>>

IntentRecord(w) ==
    /\ At(w, "record")
    /\ status' = [status EXCEPT ![job[w].pid] = "PENDING"]
    /\ Finish(w)
    /\ UNCHANGED <<money, totals, reversed, enrollment, profiled, notified, faults>>

-----------------------------------------------------------------------------
(* finalizeFromNkwa, from the webhook or from the client's poll *)

\* Fault: anything but a failure is taken for a success.
ConfirmedUnlessFailed(p) == collection[p] # "failed"

\* remote.status === 'success'
Confirmed(p) == collection[p] = "success"

\* The webhook may arrive before the row exists; a poll finds the row first.
FinalizeRead(w, p) ==
    /\ collection[p] # "none"
    /\ status[p] # "COMPLETED"
    /\ Start(w, [at |-> "ask", pid |-> p])
    /\ UNCHANGED <<money, totals, rows, profiled, notified, faults>>

FinalizeAsk(w) ==
    /\ At(w, "ask")
    /\ LET p == job[w].pid IN
         \/ /\ Confirmed(p)
            /\ Continue(w, [at |-> "readPayment", pid |-> p])
         \/ /\ collection[p] = "failed"
            /\ Continue(w, [at |-> "markFailed", pid |-> p])
         \/ /\ collection[p] = "pending"
            /\ Finish(w)
    /\ UNCHANGED <<money, totals, rows, profiled, notified, faults>>

\* Fault: the update without its "status: PENDING" condition.
FinalizeMarkFailedAlways(w) ==
    /\ At(w, "markFailed")
    /\ status' = [status EXCEPT ![job[w].pid] = "FAILED"]
    /\ Finish(w)
    /\ UNCHANGED <<money, totals, reversed, enrollment, profiled, notified, faults>>

FinalizeMarkFailed(w) ==
    /\ At(w, "markFailed")
    /\ LET p == job[w].pid IN
         status' = [status EXCEPT ![p] = IF @ = "PENDING" THEN "FAILED" ELSE @]
    /\ Finish(w)
    /\ UNCHANGED <<money, totals, reversed, enrollment, profiled, notified, faults>>

-----------------------------------------------------------------------------
(* grantEnrollment *)

\* Fault: only a PENDING payment is granted.
NotGrantableUnlessPending(p) == status[p] # "PENDING"

\* The early returns of grantEnrollment.
NotGrantable(p) == status[p] \in {"none", "COMPLETED"}

GrantReadPayment(w) ==
    /\ At(w, "readPayment")
    /\ LET p == job[w].pid IN
         IF NotGrantable(p)
         THEN Finish(w)
         ELSE Continue(w, [at |-> "readEnrollment", pid |-> p])
    /\ UNCHANGED <<money, totals, rows, profiled, notified, faults>>

GrantReadEnrollment(w) ==
    /\ At(w, "readEnrollment")
    /\ LET p == job[w].pid IN
         Continue(w, [at |-> "grant", pid |-> p,
                      enrolled |-> enrollment[SeatOf(p)] # NoRow])
    /\ UNCHANGED <<money, totals, rows, profiled, notified, faults>>

\* Fault: the buyer is notified although nothing was granted.
GrantSettleNotifying(w) ==
    /\ At(w, "grant")
    /\ job[w].enrolled
    /\ status' = [status EXCEPT ![job[w].pid] = "COMPLETED"]
    /\ Continue(w, [at |-> "notify", pid |-> job[w].pid])
    /\ UNCHANGED <<money, totals, reversed, enrollment, profiled, notified, faults>>

\* The transaction when the buyer was found enrolled: only the payment changes.
GrantSettle(w) ==
    /\ At(w, "grant")
    /\ job[w].enrolled
    /\ status' = [status EXCEPT ![job[w].pid] = "COMPLETED"]
    /\ Finish(w)
    /\ UNCHANGED <<money, totals, reversed, enrollment, profiled, notified, faults>>

\* The transaction when no enrolment was found.
GrantEnroll(w) ==
    /\ At(w, "grant")
    /\ ~job[w].enrolled
    /\ LET p == job[w].pid
           s == SeatOf(p)
           amount == order[p].amount
           i == InstructorFor(p)
           k == order[p].coupon
       IN /\ UniqueIndexAccepts(s)
          /\ i \in profiled
          /\ status' = [status EXCEPT ![p] = "COMPLETED"]
          /\ enrollment' = [enrollment EXCEPT ![s] = [status |-> "ACTIVE", via |-> p]]
          /\ course' = CourseTotals(s[2], 1, amount)
          /\ profile' = ProfileTotals(i, 1, amount)
          /\ usedCount' = [x \in Coupons |->
                             IF x = k THEN usedCount[x] + 1 ELSE usedCount[x]]
          /\ analytics' = [analytics EXCEPT
                             ![s[1]] = [courses |-> @.courses + 1,
                                        spent |-> @.spent + amount]]
          /\ Continue(w, [at |-> "notify", pid |-> p])
    /\ UNCHANGED <<money, reversed, profiled, notified, faults>>

\* Fault: the payment is updated outside the transaction that rolls back.
GrantAbortSettling(w) ==
    /\ At(w, "grant")
    /\ ~job[w].enrolled
    /\ LET p == job[w].pid IN
         /\ ~UniqueIndexAccepts(SeatOf(p)) \/ InstructorFor(p) \notin profiled
         /\ status' = [status EXCEPT ![p] = "COMPLETED"]
    /\ Finish(w)
    /\ UNCHANGED <<money, totals, reversed, enrollment, profiled, notified, faults>>

\* The same transaction rolled back: the unique index refuses a second row, or
\* the instructor has no profile to update.  The request answers an error.
GrantAbort(w) ==
    /\ At(w, "grant")
    /\ ~job[w].enrolled
    /\ LET p == job[w].pid IN
         ~UniqueIndexAccepts(SeatOf(p)) \/ InstructorFor(p) \notin profiled
    /\ Finish(w)
    /\ UNCHANGED <<money, totals, rows, profiled, notified, faults>>

\* notifyPaymentSuccess and notifyEnrollmentSuccess, after the commit.
GrantNotify(w) ==
    /\ At(w, "notify")
    /\ notified' = notified \cup {job[w].pid}
    /\ Finish(w)
    /\ UNCHANGED <<money, totals, rows, profiled, faults>>

-----------------------------------------------------------------------------
(* refundPayment *)

RefundRead(w, p) ==
    /\ status[p] = "COMPLETED"
    /\ Start(w, [at |-> "disburse", pid |-> p])
    /\ UNCHANGED <<money, totals, rows, profiled, notified, faults>>

\* nkwa.disburse: the money leaves; the answer may be lost.
RefundDisburse(w, d) ==
    /\ At(w, "disburse")
    /\ disbursed[d] = NoPayment
    /\ disbursed' = [disbursed EXCEPT ![d] = job[w].pid]
    /\ \/ Continue(w, [at |-> "reverse", pid |-> job[w].pid, by |-> d])
          /\ UNCHANGED faults
       \/ faults < MaxFaults /\ faults' = faults + 1 /\ Finish(w)
    /\ UNCHANGED <<collection, order, totals, rows, profiled, notified>>

RefundReverse(w) ==
    /\ At(w, "reverse")
    /\ LET p == job[w].pid
           s == SeatOf(p)
           amount == order[p].amount
           i == InstructorFor(p)
       IN IF i \in profiled
          THEN /\ status' = [status EXCEPT ![p] = "REFUNDED"]
               /\ reversed' = reversed \cup {job[w].by}
               /\ enrollment' = [enrollment EXCEPT
                                   ![s] = IF @ = NoRow THEN @
                                          ELSE [@ EXCEPT !.status = "REFUNDED"]]
               /\ course' = CourseTotals(s[2], -1, amount)
               /\ profile' = ProfileTotals(i, -1, amount)
          ELSE UNCHANGED <<rows, course, profile>>
    /\ Finish(w)
    /\ UNCHANGED <<money, usedCount, analytics, profiled, notified, faults>>

-----------------------------------------------------------------------------
(* Environment *)

\* The buyer approves or declines on the handset.  Success is final; the code
\* asks again about a payment marked FAILED, so a failure need not be.
ProviderSettles(p) ==
    /\ \/ /\ collection[p] = "pending"
          /\ \E outcome \in {"success", "failed"} :
               collection' = [collection EXCEPT ![p] = outcome]
       \/ /\ collection[p] = "failed"
          /\ collection' = [collection EXCEPT ![p] = "success"]
    /\ UNCHANGED <<disbursed, order, totals, rows, profiled, notified, job, faults>>

\* users.service updateInstructorProfile creates a missing profile.
CreateProfile(i) ==
    /\ i \notin profiled
    /\ profiled' = profiled \cup {i}
    /\ UNCHANGED <<money, totals, rows, notified, job, faults>>

\* nkwa.request throws on an error answer: nothing was collected or disbursed.
ProviderRefuses(w) ==
    /\ At(w, "collect") \/ At(w, "disburse")
    /\ Finish(w)
    /\ UNCHANGED <<money, totals, rows, profiled, notified, faults>>

\* The request dies between two awaits: the process is killed, or an await
\* throws.  Nothing it did is undone.
Crash(w) ==
    /\ job[w] # Idle
    /\ faults < MaxFaults
    /\ faults' = faults + 1
    /\ Finish(w)
    /\ UNCHANGED <<money, totals, rows, profiled, notified>>

-----------------------------------------------------------------------------
Intent(w) ==
    \/ \E u \in Users, c \in Courses : EnrollFreeRead(w, u, c)
    \/ \E u \in Users, c \in Courses, k \in Coupons \cup {NoCoupon} :
         \E price \in Prices[c] : IntentCheck(w, u, c, k, price)

Proceed(w) ==
    \/ EnrollFreeCommit(w)
    \/ \E p \in PaymentIds : IntentCollect(w, p)
    \/ IntentRecord(w)
    \/ FinalizeAsk(w) \/ FinalizeMarkFailed(w)
    \/ GrantReadPayment(w) \/ GrantReadEnrollment(w)
    \/ GrantSettle(w) \/ GrantEnroll(w) \/ GrantAbort(w) \/ GrantNotify(w)
    \/ \E d \in Disbursements : RefundDisburse(w, d)
    \/ RefundReverse(w) \/ ProviderRefuses(w)

Next ==
    \/ \E w \in Workers : Intent(w) \/ Proceed(w) \/ Crash(w)
    \/ \E w \in Workers, p \in PaymentIds : FinalizeRead(w, p) \/ RefundRead(w, p)
    \/ \E p \in PaymentIds : ProviderSettles(p)
    \/ \E i \in Instructors : CreateProfile(i)

Spec == Init /\ [][Next]_vars

\* Requests run to completion, and the client polls (or the provider repeats
\* its webhook) for as long as a payment is not COMPLETED.
Fairness ==
    /\ \A w \in Workers : WF_vars(Proceed(w))
    /\ \A p \in PaymentIds : SF_vars(\E w \in Workers : FinalizeRead(w, p))

FairSpec == Spec /\ Fairness

-----------------------------------------------------------------------------
(* Properties *)

TypeOK ==
    /\ collection \in [PaymentIds -> {"none", "pending", "success", "failed"}]
    /\ disbursed \in [Disbursements -> PaymentIds \cup {NoPayment}]
    /\ order \in [PaymentIds -> Orders \cup {NoOrder}]
    /\ status \in [PaymentIds -> {"none", "PENDING", "COMPLETED", "FAILED", "REFUNDED"}]
    /\ reversed \subseteq Disbursements
    /\ enrollment \in [Seats -> Rows \cup {NoRow}]
    /\ course \in [Courses -> [enrollments : Int, revenue : Int]]
    /\ profile \in [Instructors -> [students : Int, revenue : Int]]
    /\ profiled \subseteq Instructors
    /\ usedCount \in [Coupons -> Nat]
    /\ analytics \in [Users -> [courses : Nat, spent : Nat]]
    /\ notified \subseteq PaymentIds
    /\ job \in [Workers -> Jobs]
    /\ faults \in Nat

\* The payments whose transaction created an enrolment.
Sold == {p \in PaymentIds : \E s \in Seats :
            enrollment[s] # NoRow /\ enrollment[s].via = p}

Refunds(p) == {d \in Disbursements : disbursed[d] = p}

\* No payment is COMPLETED, and no franc goes back, unless the provider
\* collected the money, whatever finalizers read before that.
SettledWasPaid ==
    /\ \A p \in Settled : collection[p] = "success"
    /\ \A d \in Disbursements :
         disbursed[d] # NoPayment => collection[disbursed[d]] = "success"

\* A payment that reached COMPLETED left its buyer with an enrolment row, also
\* when it lost the race for that row to another payment.
SettledIsEnrolled == \A p \in Settled : enrollment[SeatOf(p)] # NoRow

\* An enrolment comes from a free price or from a settled payment of the same
\* user for the same course.
EnrollmentIsEarned ==
    \A s \in Seats : enrollment[s] # NoRow =>
        IF enrollment[s].via = Free THEN 0 \in Prices[s[2]]
        ELSE enrollment[s].via \in Settled /\ SeatOf(enrollment[s].via) = s

\* The head counts of course and instructor are the rows inserted minus the
\* refunds recorded: concurrent finalizers never count an enrolment twice.
StudentsReconcile ==
    /\ \A c \in Courses : course[c].enrollments =
         Cardinality({s \in Seats : s[2] = c /\ enrollment[s] # NoRow})
           - Cardinality({d \in reversed : order[disbursed[d]].course = c})
    /\ \A i \in Instructors : profile[i].students =
         Cardinality({p \in Sold : InstructorFor(p) = i})
           - Cardinality({d \in reversed : InstructorFor(disbursed[d]) = i})

\* So do the revenues: the instructor's is the configured share of the same sales.
RevenueReconciles ==
    LET Earned(ps, ds) == MapThenSumSet(LAMBDA p : order[p].amount, ps)
                          - MapThenSumSet(LAMBDA d : order[disbursed[d]].amount, ds)
    IN /\ \A c \in Courses : course[c].revenue =
            Earned({p \in Sold : order[p].course = c},
                   {d \in reversed : order[disbursed[d]].course = c})
       /\ \A i \in Instructors : profile[i].revenue = Share *
            Earned({p \in Sold : InstructorFor(p) = i},
                   {d \in reversed : InstructorFor(disbursed[d]) = i})

\* Coupon use and buyer analytics are counted once per enrolment sold.
BuyerTotalsReconcile ==
    /\ \A k \in Coupons : usedCount[k] =
         Cardinality({p \in Sold : order[p].coupon = k})
    /\ \A u \in Users :
         LET bought == {p \in Sold : order[p].user = u}
         IN analytics[u] = [courses |-> Cardinality(bought),
                            spent |-> MapThenSumSet(LAMBDA p : order[p].amount, bought)]

\* A buyer is told of a success only for the payment that bought the enrolment.
NotifiedForTheSale == notified \subseteq Sold

\* Money and seats agree: who holds a seat paid for it or found it free, who paid
\* has it, and nobody is told of a sale that was not made.
SalesAreSound ==
    SettledWasPaid /\ SettledIsEnrolled /\ EnrollmentIsEarned /\ NotifiedForTheSale

\* The counters that every sale and refund increments are what the rows add up
\* to: nothing is booked twice, or on another's account.
TotalsReconcile == RevenueReconciles /\ BuyerTotalsReconcile

\* A stale finalizer that read a failure never undoes a completed payment.
PaidStaysPaid == [][\A p \in Settled : p \in Settled']_vars

\* finalizeFromNkwa and grantEnrollment: a recorded payment the provider
\* collected is settled in the end, whoever it raced with.
PaidIsSettled ==
    \A p \in PaymentIds :
        /\ status[p] \in {"PENDING", "FAILED"}
        /\ collection[p] = "success"
        /\ InstructorFor(p) \in profiled
        ~> p \in Settled

\* What a job read or did before its last await, and still relies on.
Justified(w) ==
    LET j == job[w] IN
    /\ j.at = "freeCommit" => 0 \in Prices[j.seat[2]]
    /\ j.at = "record" =>
         /\ collection[j.pid] # "none"
         /\ status[j.pid] = "none"
         /\ \A v \in Workers : job[v] = j => v = w
    /\ j.at \in {"ask", "markFailed"} => collection[j.pid] # "none"
    /\ j.at \in {"readPayment", "readEnrollment", "grant", "notify"} =>
         collection[j.pid] = "success"
    /\ j.at \in {"readEnrollment", "grant"} => status[j.pid] # "none"
    /\ j.at = "grant" => (j.enrolled => enrollment[SeatOf(j.pid)] # NoRow)
    /\ j.at = "notify" => j.pid \in Sold
    /\ j.at \in {"disburse", "reverse"} => j.pid \in Settled
    /\ j.at = "reverse" =>
         /\ disbursed[j.by] = j.pid
         /\ j.by \notin reversed
         /\ \A v \in Workers : job[v] = j => v = w

\* Of all that may go stale across an await, this does not: the money was
\* collected, the row a grant found is still there, a refund's payment is
\* settled and its disbursement is recorded by no other job.
JobsStillJustified == \A w \in Workers : Justified(w)

\* A record exists only for an opened collection, a reversal only for money
\* that left.
RecordsJustified ==
    /\ \A p \in PaymentIds :
         /\ order[p] = NoOrder <=> collection[p] = "none"
         /\ status[p] # "none" => collection[p] # "none"
    /\ \A d \in reversed : disbursed[d] # NoPayment

\* What PurchaseLedger sees of the state.
Claimed == [p \in PaymentIds |-> IF order[p] = NoOrder THEN NoOrder ELSE SeatOf(p)]
Paid == {p \in PaymentIds : collection[p] = "success"}
Repaid == {p \in PaymentIds : Refunds(p) # {}}
Holder == [s \in Seats |-> IF enrollment[s] = NoRow THEN NoRow ELSE enrollment[s].via]

Ledger == INSTANCE PurchaseLedger WITH
    Vacant <- NoRow, NoSeat <- NoOrder,
    claim <- Claimed, paid <- Paid, settled <- Settled, repaid <- Repaid, holder <- Holder

\* Purchases keep the promise of PurchaseLedger: whatever races, crashes and
\* repeated finalizations do, what a buyer and the provider see of createPaymentIntent,
\* finalizeFromNkwa, grantEnrollment, enrollFree and refundPayment is one of its
\* behaviours.
ImplementsLedger == Ledger!Spec

-----------------------------------------------------------------------------
(* What a message of the code claims, and it does not keep *)

\* "Only completed payments can be refunded": money goes back once per payment.
RefundPaysOnce == \A p \in PaymentIds : Cardinality(Refunds(p)) <= 1
=============================================================================
