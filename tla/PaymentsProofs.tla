--------------------------- MODULE PaymentsProofs ---------------------------
(* Proofs about Payments. *)
EXTENDS Payments, FiniteSetTheorems, SumTheorems, TLAPS

USE DEF money, totals, rows, Start, Continue, Finish, At, Idle

-----------------------------------------------------------------------------
(* Type correctness *)

LEMMA FinalAmountPositive ==
    ASSUME NEW price \in Nat, NEW off \in Nat
    PROVE  FinalAmount(price, off) \in Nat \ {0}
BY DEF FinalAmount

LEMMA IntentCheckOrder ==
    ASSUME NEW w \in Workers, NEW u \in Users, NEW c \in Courses,
           NEW k \in Coupons \cup {NoCoupon}, NEW price \in Prices[c],
           TypeOK, IntentCheck(w, u, c, k, price)
    PROVE  \E o \in Orders : job' = [job EXCEPT ![w] = [at |-> "collect", order |-> o]]
<1> DEFINE off == IF k = NoCoupon THEN 0 ELSE Discount[k]
           o == [user |-> u, course |-> c, coupon |-> k,
                 amount |-> FinalAmount(price, off)]
<1>1. price \in Nat /\ off \in Nat
  BY ConstantsAssumption
<1>2. o \in Orders
  BY <1>1, FinalAmountPositive DEF Orders
<1>3. job' = [job EXCEPT ![w] = [at |-> "collect", order |-> o]]
  BY DEF IntentCheck
<1> QED
  BY <1>2, <1>3

LEMMA IntentType ==
    ASSUME NEW w \in Workers, TypeOK, Intent(w)
    PROVE  TypeOK'
<1>1. ASSUME NEW u \in Users, NEW c \in Courses, EnrollFreeRead(w, u, c)
      PROVE  TypeOK'
  BY <1>1 DEF TypeOK, EnrollFreeRead, Jobs, Seats
<1>2. ASSUME NEW u \in Users, NEW c \in Courses,
             NEW k \in Coupons \cup {NoCoupon}, NEW price \in Prices[c],
             IntentCheck(w, u, c, k, price)
      PROVE  TypeOK'
  <2>1. PICK o \in Orders : job' = [job EXCEPT ![w] = [at |-> "collect", order |-> o]]
    BY <1>2, IntentCheckOrder
  <2>2. [at |-> "collect", order |-> o] \in Jobs
    BY DEF Jobs
  <2>3. job' \in [Workers -> Jobs]
    BY <2>1, <2>2 DEF TypeOK
  <2> QED
    BY <1>2, <2>3 DEF TypeOK, IntentCheck
<1> QED
  BY <1>1, <1>2 DEF Intent

IInv ==
    /\ TypeOK
    /\ RecordsJustified
    /\ JobsStillJustified
    /\ SettledWasPaid
    /\ SettledIsEnrolled
    /\ EnrollmentIsEarned

PidStages == {"record", "ask", "readPayment", "readEnrollment", "grant",
              "notify", "markFailed", "disburse", "reverse"}

\* What the stage of a job says of its fields.
LEMMA JobFields ==
    ASSUME TypeOK, NEW w \in Workers
    PROVE  /\ At(w, "freeCommit") => job[w].seat \in Seats
           /\ At(w, "collect") => job[w].order \in Orders
           /\ job[w].at \in PidStages => job[w].pid \in PaymentIds
           /\ At(w, "grant") => job[w].enrolled \in BOOLEAN
           /\ At(w, "reverse") => job[w].by \in Disbursements
BY DEF TypeOK, Jobs, PidStages

LEMMA JobsClosed ==
    /\ Idle \in Jobs
    /\ \A p \in PaymentIds :
         /\ \A st \in PidStages \ {"grant", "reverse"} : [at |-> st, pid |-> p] \in Jobs
         /\ \A e \in BOOLEAN : [at |-> "grant", pid |-> p, enrolled |-> e] \in Jobs
         /\ \A d \in Disbursements : [at |-> "reverse", pid |-> p, by |-> d] \in Jobs
    /\ \A s \in Seats : [at |-> "freeCommit", seat |-> s] \in Jobs
    /\ \A o \in Orders : [at |-> "collect", order |-> o] \in Jobs
BY DEF Jobs, PidStages

\* A payment whose collection was opened has an order, so a seat and an instructor.
LEMMA OrderFields ==
    ASSUME TypeOK, RecordsJustified, NEW p \in PaymentIds, collection[p] # "none"
    PROVE  /\ order[p] \in Orders
           /\ order[p].user \in Users /\ order[p].course \in Courses
           /\ order[p].coupon \in Coupons \cup {NoCoupon}
           /\ order[p].amount \in Nat
           /\ SeatOf(p) \in Seats
           /\ SeatOf(p)[1] = order[p].user /\ SeatOf(p)[2] = order[p].course
           /\ InstructorFor(p) \in Instructors
<1>1. order[p] \in Orders
  BY DEF TypeOK, RecordsJustified
<1>2. /\ order[p].user \in Users /\ order[p].course \in Courses
      /\ order[p].coupon \in Coupons \cup {NoCoupon} /\ order[p].amount \in Nat
  BY <1>1 DEF Orders
<1> QED
  BY <1>1, <1>2, ConstantsAssumption DEF SeatOf, Seats, InstructorFor

LEMMA CourseTotalsType ==
    ASSUME TypeOK, NEW c \in Courses, NEW n \in Int, NEW amount \in Nat
    PROVE  CourseTotals(c, n, amount) \in [Courses -> [enrollments : Int, revenue : Int]]
<1>1. n * amount \in Int
  OBVIOUS
<1> QED
  BY <1>1 DEF TypeOK, CourseTotals

LEMMA ProfileTotalsType ==
    ASSUME TypeOK, NEW i \in Instructors, NEW n \in Int, NEW amount \in Nat
    PROVE  ProfileTotals(i, n, amount) \in [Instructors -> [students : Int, revenue : Int]]
<1>1. Share \in Int /\ n * amount \in Int
  BY ConstantsAssumption
<1>2. n * amount * Share \in Int
  BY <1>1
<1> QED
  BY <1>2 DEF TypeOK, ProfileTotals

\* A job past the provider's confirmation carries a payment with an order.
LEMMA JobOrder ==
    ASSUME IInv, NEW w \in Workers, job[w].at \in PidStages
    PROVE  /\ job[w].pid \in PaymentIds
           /\ collection[job[w].pid] # "none"
           /\ job[w].at \in {"grant", "notify", "readEnrollment", "readPayment"} =>
                collection[job[w].pid] = "success"
           /\ job[w].at \in {"disburse", "reverse"} =>
                job[w].pid \in Settled /\ collection[job[w].pid] = "success"
<1>1. job[w].pid \in PaymentIds
  BY JobFields DEF IInv
<1>2. job[w].at \in {"disburse", "reverse"} =>
        job[w].pid \in Settled /\ collection[job[w].pid] = "success"
  BY <1>1 DEF IInv, JobsStillJustified, Justified, SettledWasPaid
<1> QED
  BY <1>1, <1>2 DEF IInv, JobsStillJustified, Justified, PidStages

LEMMA TypeStep == IInv /\ [Next]_vars => TypeOK'
<1> SUFFICES ASSUME IInv, [Next]_vars PROVE TypeOK'
  OBVIOUS
<1> TypeOK
  BY DEF IInv
<1> USE JobFields, JobsClosed DEF PidStages
<1>1. ASSUME NEW w \in Workers, Intent(w) PROVE TypeOK'
  BY <1>1, IntentType
<1>2. ASSUME NEW w \in Workers, EnrollFreeCommit(w) PROVE TypeOK'
  <2> DEFINE s == job[w].seat
  <2>1. s \in Seats /\ s[2] \in Courses
    BY <1>2 DEF EnrollFreeCommit, Seats
  <2>2. CourseTotals(s[2], 1, 0) \in [Courses -> [enrollments : Int, revenue : Int]]
    BY <2>1, CourseTotalsType
  <2>3. [status |-> "ACTIVE", via |-> Free] \in Rows
    BY DEF Rows
  <2> QED
    BY <1>2, <2>1, <2>2, <2>3 DEF EnrollFreeCommit, TypeOK
<1>3. ASSUME NEW w \in Workers, NEW p \in PaymentIds, IntentCollect(w, p) PROVE TypeOK'
  <2>1. job[w].order \in Orders
    BY <1>3 DEF IntentCollect
  <2>2. job' \in [Workers -> Jobs]
    BY <1>3 DEF IntentCollect, TypeOK
  <2>3. order' \in [PaymentIds -> Orders \cup {NoOrder}]
    BY <1>3, <2>1 DEF IntentCollect, TypeOK
  <2>4. faults' \in Nat
    BY <1>3 DEF IntentCollect, TypeOK
  <2> QED
    BY <1>3, <2>2, <2>3, <2>4 DEF IntentCollect, TypeOK
<1>4. ASSUME NEW w \in Workers, IntentRecord(w) PROVE TypeOK'
  BY <1>4 DEF IntentRecord, TypeOK
<1>5. ASSUME NEW w \in Workers, FinalizeAsk(w) PROVE TypeOK'
  <2>1. job[w].pid \in PaymentIds
    BY <1>5 DEF FinalizeAsk
  <2>2. job' \in [Workers -> Jobs]
    BY <1>5, <2>1 DEF FinalizeAsk, TypeOK
  <2> QED
    BY <1>5, <2>1, <2>2, SMTT(30) DEF FinalizeAsk, TypeOK
<1>6. ASSUME NEW w \in Workers, FinalizeMarkFailed(w) PROVE TypeOK'
  BY <1>6 DEF FinalizeMarkFailed, TypeOK
<1>7. ASSUME NEW w \in Workers, GrantReadPayment(w) PROVE TypeOK'
  <2>1. job[w].pid \in PaymentIds
    BY <1>7 DEF GrantReadPayment
  <2>2. job' \in [Workers -> Jobs]
    <3>1. CASE NotGrantable(job[w].pid)
      BY <1>7, <3>1 DEF GrantReadPayment, TypeOK
    <3>2. CASE ~NotGrantable(job[w].pid)
      <4>1. [at |-> "readEnrollment", pid |-> job[w].pid] \in Jobs
        BY <2>1
      <4> QED
        BY <1>7, <3>2, <4>1 DEF GrantReadPayment, TypeOK
    <3> QED
      BY <3>1, <3>2
  <2> QED
    BY <1>7, <2>1, <2>2 DEF GrantReadPayment, TypeOK
<1>8. ASSUME NEW w \in Workers, GrantReadEnrollment(w) PROVE TypeOK'
  BY <1>8 DEF GrantReadEnrollment, TypeOK
<1>9. ASSUME NEW w \in Workers, GrantSettle(w) PROVE TypeOK'
  BY <1>9 DEF GrantSettle, TypeOK
<1>10. ASSUME NEW w \in Workers, GrantEnroll(w) PROVE TypeOK'
  <2> DEFINE p == job[w].pid
             s == SeatOf(p)
             amount == order[p].amount
  <2>1. /\ p \in PaymentIds /\ s \in Seats /\ s[1] \in Users /\ s[2] \in Courses
        /\ InstructorFor(p) \in Instructors /\ amount \in Nat
    BY <1>10, OrderFields, JobOrder DEF GrantEnroll, IInv
  <2>2. /\ CourseTotals(s[2], 1, amount) \in [Courses -> [enrollments : Int, revenue : Int]]
        /\ ProfileTotals(InstructorFor(p), 1, amount)
             \in [Instructors -> [students : Int, revenue : Int]]
    BY <2>1, CourseTotalsType, ProfileTotalsType
  <2>3. [status |-> "ACTIVE", via |-> p] \in Rows
    BY <2>1 DEF Rows
  <2>4. course' \in [Courses -> [enrollments : Int, revenue : Int]]
        /\ profile' \in [Instructors -> [students : Int, revenue : Int]]
    BY <1>10, <2>2 DEF GrantEnroll
  <2>5. usedCount' \in [Coupons -> Nat] /\ analytics' \in [Users -> [courses : Nat, spent : Nat]]
    BY <1>10, <2>1 DEF GrantEnroll, TypeOK
  <2>6. enrollment' \in [Seats -> Rows \cup {NoRow}]
    BY <1>10, <2>1, <2>3 DEF GrantEnroll, TypeOK
  <2>7. job' \in [Workers -> Jobs]
    BY <1>10, <2>1 DEF GrantEnroll, TypeOK
  <2> QED
    BY <1>10, <2>1, <2>4, <2>5, <2>6, <2>7 DEF GrantEnroll, TypeOK
<1>11. ASSUME NEW w \in Workers, GrantAbort(w) PROVE TypeOK'
  BY <1>11 DEF GrantAbort, TypeOK
<1>12. ASSUME NEW w \in Workers, GrantNotify(w) PROVE TypeOK'
  BY <1>12 DEF GrantNotify, TypeOK
<1>13. ASSUME NEW w \in Workers, NEW d \in Disbursements, RefundDisburse(w, d) PROVE TypeOK'
  BY <1>13 DEF RefundDisburse, TypeOK
<1>14. ASSUME NEW w \in Workers, RefundReverse(w) PROVE TypeOK'
  <2> DEFINE p == job[w].pid
             s == SeatOf(p)
             amount == order[p].amount
  <2>1. /\ p \in PaymentIds /\ s \in Seats /\ s[2] \in Courses
        /\ InstructorFor(p) \in Instructors /\ amount \in Nat
        /\ job[w].by \in Disbursements
    BY <1>14, OrderFields, JobOrder DEF RefundReverse, IInv
  <2>2. /\ CourseTotals(s[2], -1, amount) \in [Courses -> [enrollments : Int, revenue : Int]]
        /\ ProfileTotals(InstructorFor(p), -1, amount)
             \in [Instructors -> [students : Int, revenue : Int]]
    BY <2>1, CourseTotalsType, ProfileTotalsType
  <2>3. course' \in [Courses -> [enrollments : Int, revenue : Int]]
        /\ profile' \in [Instructors -> [students : Int, revenue : Int]]
    BY <1>14, <2>2 DEF RefundReverse, TypeOK
  <2>4. enrollment' \in [Seats -> Rows \cup {NoRow}]
    <3>1. ASSUME enrollment[s] # NoRow
          PROVE  [enrollment[s] EXCEPT !.status = "REFUNDED"] \in Rows
      BY <3>1, <2>1 DEF TypeOK, Rows
    <3> QED
      BY <1>14, <2>1, <3>1, SMTT(30) DEF RefundReverse, TypeOK
  <2> QED
    BY <1>14, <2>1, <2>3, <2>4, ZenonT(60) DEF RefundReverse, TypeOK
<1>15. ASSUME NEW w \in Workers, ProviderRefuses(w) PROVE TypeOK'
  BY <1>15 DEF ProviderRefuses, TypeOK
<1>16. ASSUME NEW w \in Workers, Crash(w) PROVE TypeOK'
  BY <1>16 DEF Crash, TypeOK
<1>17. ASSUME NEW w \in Workers, NEW p \in PaymentIds, FinalizeRead(w, p) PROVE TypeOK'
  BY <1>17 DEF FinalizeRead, TypeOK
<1>18. ASSUME NEW w \in Workers, NEW p \in PaymentIds, RefundRead(w, p) PROVE TypeOK'
  BY <1>18 DEF RefundRead, TypeOK
<1>19. ASSUME NEW p \in PaymentIds, ProviderSettles(p) PROVE TypeOK'
  BY <1>19 DEF ProviderSettles, TypeOK
<1>20. ASSUME NEW i \in Instructors, CreateProfile(i) PROVE TypeOK'
  BY <1>20 DEF CreateProfile, TypeOK
<1>21. CASE UNCHANGED vars
  BY <1>21 DEF vars, TypeOK
<1> QED
  BY <1>1, <1>2, <1>3, <1>4, <1>5, <1>6, <1>7, <1>8, <1>9, <1>10, <1>11, <1>12,
     <1>13, <1>14, <1>15, <1>16, <1>17, <1>18, <1>19, <1>20, <1>21
  DEF Next, Proceed

-----------------------------------------------------------------------------
(* Frame lemmas: what a step can change *)

\* The actions that write a row, a total or the provider's books.
LEMMA WhatChanges ==
    ASSUME [Next]_vars
    PROVE  \/ UNCHANGED <<money, totals, rows>>
           \/ \E w \in Workers :
                \/ EnrollFreeCommit(w) \/ IntentRecord(w) \/ FinalizeMarkFailed(w)
                \/ GrantSettle(w) \/ GrantEnroll(w) \/ RefundReverse(w)
           \/ \E w \in Workers, p \in PaymentIds : IntentCollect(w, p)
           \/ \E w \in Workers, d \in Disbursements : RefundDisburse(w, d)
           \/ \E p \in PaymentIds : ProviderSettles(p)
<1>1. ASSUME NEW w \in Workers, Intent(w)
      PROVE  UNCHANGED <<money, totals, rows>>
  BY <1>1 DEF Intent, EnrollFreeRead, IntentCheck
<1>2. ASSUME NEW w \in Workers,
             \/ FinalizeAsk(w) \/ GrantReadPayment(w) \/ GrantReadEnrollment(w)
             \/ GrantAbort(w) \/ GrantNotify(w) \/ ProviderRefuses(w) \/ Crash(w)
      PROVE  UNCHANGED <<money, totals, rows>>
  BY <1>2 DEF FinalizeAsk, GrantReadPayment, GrantReadEnrollment, GrantAbort,
              GrantNotify, ProviderRefuses, Crash
<1>3. ASSUME NEW w \in Workers, NEW p \in PaymentIds, FinalizeRead(w, p) \/ RefundRead(w, p)
      PROVE  UNCHANGED <<money, totals, rows>>
  BY <1>3 DEF FinalizeRead, RefundRead
<1>4. ASSUME NEW i \in Instructors, CreateProfile(i)
      PROVE  UNCHANGED <<money, totals, rows>>
  BY <1>4 DEF CreateProfile
<1>5. CASE UNCHANGED vars
  BY <1>5 DEF vars
<1> QED
  BY <1>1, <1>2, <1>3, <1>4, <1>5 DEF Next, Proceed

\* The actions that put worker x in a new stage other than idle.
LEMMA Moves ==
    ASSUME TypeOK, [Next]_vars, NEW x \in Workers, job'[x] # job[x]
    PROVE  \/ job'[x] = Idle
           \/ Intent(x)
           \/ \E p \in PaymentIds : \/ IntentCollect(x, p) \/ FinalizeRead(x, p)
                                   \/ RefundRead(x, p)
           \/ \E d \in Disbursements : RefundDisburse(x, d)
           \/ FinalizeAsk(x) \/ GrantReadPayment(x) \/ GrantReadEnrollment(x)
           \/ GrantEnroll(x)
<1> USE DEF TypeOK
<1>1. ASSUME NEW w \in Workers, Intent(w) PROVE w = x
  BY <1>1 DEF Intent, EnrollFreeRead, IntentCheck
<1>2. ASSUME NEW w \in Workers, NEW p \in PaymentIds,
             IntentCollect(w, p) \/ FinalizeRead(w, p) \/ RefundRead(w, p)
      PROVE  w = x
  BY <1>2 DEF IntentCollect, FinalizeRead, RefundRead
<1>3. ASSUME NEW w \in Workers, NEW d \in Disbursements, RefundDisburse(w, d)
      PROVE  w = x
  BY <1>3 DEF RefundDisburse
<1>4. ASSUME NEW w \in Workers,
             \/ FinalizeAsk(w) \/ GrantReadPayment(w) \/ GrantReadEnrollment(w)
             \/ GrantEnroll(w)
      PROVE  w = x
  BY <1>4 DEF FinalizeAsk, GrantReadPayment, GrantReadEnrollment, GrantEnroll
<1>5. ASSUME NEW w \in Workers,
             \/ EnrollFreeCommit(w) \/ IntentRecord(w) \/ FinalizeMarkFailed(w)
             \/ GrantSettle(w) \/ GrantAbort(w) \/ GrantNotify(w)
             \/ RefundReverse(w) \/ ProviderRefuses(w) \/ Crash(w)
      PROVE  job'[x] = Idle
  BY <1>5 DEF EnrollFreeCommit, IntentRecord, FinalizeMarkFailed, GrantSettle,
              GrantAbort, GrantNotify, RefundReverse, ProviderRefuses, Crash
<1>6. (\E i \in Instructors : CreateProfile(i)) => FALSE
  BY DEF CreateProfile
<1>7. (\E p \in PaymentIds : ProviderSettles(p)) => FALSE
  BY DEF ProviderSettles
<1>8. UNCHANGED vars => FALSE
  BY DEF vars
<1> QED
  BY <1>1, <1>2, <1>3, <1>4, <1>5, <1>6, <1>7, <1>8 DEF Next, Proceed

\* What no step undoes.
Kept ==
    /\ \A p \in PaymentIds :
         /\ collection[p] = "success" => collection'[p] = "success"
         /\ collection[p] # "none" => collection'[p] # "none" /\ order'[p] = order[p]
         /\ status[p] # "none" => status'[p] # "none"
         /\ p \in Settled => p \in Settled'
    /\ \A s \in Seats : enrollment[s] # NoRow =>
         enrollment'[s] # NoRow /\ enrollment'[s].via = enrollment[s].via
    /\ \A d \in Disbursements :
         disbursed[d] # NoPayment => disbursed'[d] = disbursed[d]
    /\ reversed \subseteq reversed'

LEMMA Monotone == IInv /\ [Next]_vars => Kept
<1> SUFFICES ASSUME IInv, [Next]_vars PROVE Kept
  OBVIOUS
<1> TypeOK
  BY DEF IInv
<1> USE DEF Settled
<1>1. CASE UNCHANGED <<money, totals, rows>>
  BY <1>1 DEF Kept
<1>2. ASSUME NEW w \in Workers, EnrollFreeCommit(w) PROVE Kept
  <2>1. job[w].seat \in Seats
    BY <1>2, JobFields DEF EnrollFreeCommit
  <2> QED
    BY <1>2, <2>1 DEF EnrollFreeCommit, UniqueIndexAccepts, Kept, TypeOK
<1>3. ASSUME NEW w \in Workers, IntentRecord(w) PROVE Kept
  <2>1. job[w].pid \in PaymentIds /\ status[job[w].pid] = "none"
    BY <1>3, JobFields DEF IntentRecord, IInv, JobsStillJustified, Justified, PidStages
  <2> QED
    BY <1>3, <2>1 DEF IntentRecord, Kept, TypeOK
<1>4. ASSUME NEW w \in Workers, FinalizeMarkFailed(w) PROVE Kept
  <2>1. job[w].pid \in PaymentIds
    BY <1>4, JobFields DEF FinalizeMarkFailed, PidStages
  <2> QED
    BY <1>4, <2>1 DEF FinalizeMarkFailed, Kept, TypeOK
<1>5. ASSUME NEW w \in Workers, GrantSettle(w) PROVE Kept
  <2>1. job[w].pid \in PaymentIds
    BY <1>5, JobFields DEF GrantSettle, PidStages
  <2> QED
    BY <1>5, <2>1 DEF GrantSettle, Kept, TypeOK
<1>6. ASSUME NEW w \in Workers, GrantEnroll(w) PROVE Kept
  <2> DEFINE p == job[w].pid
  <2>1. p \in PaymentIds /\ SeatOf(p) \in Seats
    BY <1>6, JobOrder, OrderFields DEF GrantEnroll, PidStages, IInv
  <2>2. /\ enrollment[SeatOf(p)] = NoRow
        /\ enrollment' = [enrollment EXCEPT ![SeatOf(p)] = [status |-> "ACTIVE", via |-> p]]
        /\ status' = [status EXCEPT ![p] = "COMPLETED"]
        /\ UNCHANGED <<collection, order, disbursed, reversed>>
    BY <1>6 DEF GrantEnroll, UniqueIndexAccepts
  <2>3. \A x \in Seats : enrollment[x] # NoRow => enrollment'[x] = enrollment[x]
    BY <2>1, <2>2 DEF TypeOK
  <2>4. \A q \in PaymentIds :
          /\ q \in Settled => q \in Settled'
          /\ status[q] # "none" => status'[q] # "none"
    BY <2>1, <2>2 DEF TypeOK
  <2> HIDE DEF p
  <2> QED
    BY <2>2, <2>3, <2>4 DEF Kept
<1>7. ASSUME NEW w \in Workers, RefundReverse(w) PROVE Kept
  <2> DEFINE p == job[w].pid
             s == SeatOf(p)
  <2>1. p \in PaymentIds /\ s \in Seats
    BY <1>7, JobOrder, OrderFields DEF RefundReverse, PidStages, IInv
  <2>2. UNCHANGED <<collection, order, disbursed>>
    BY <1>7 DEF RefundReverse
  <2>3. /\ reversed \subseteq reversed'
        /\ status' = [status EXCEPT ![p] = "REFUNDED"] \/ status' = status
    BY <1>7 DEF RefundReverse
  <2>4. ASSUME NEW x \in Seats, enrollment[x] # NoRow
        PROVE  enrollment'[x] # NoRow /\ enrollment'[x].via = enrollment[x].via
    <3>1. [enrollment[x] EXCEPT !.status = "REFUNDED"] \in Rows
          /\ [enrollment[x] EXCEPT !.status = "REFUNDED"].via = enrollment[x].via
      BY <2>4 DEF TypeOK, Rows
    <3>2. [enrollment[x] EXCEPT !.status = "REFUNDED"] # NoRow
      BY <3>1, ConstantsAssumption DEF Rows
    <3>3. enrollment'[x] = enrollment[x]
          \/ enrollment'[x] = [enrollment[x] EXCEPT !.status = "REFUNDED"]
      BY <1>7, <2>1, <2>4 DEF RefundReverse, TypeOK
    <3> QED
      BY <2>4, <3>1, <3>2, <3>3
  <2>5. \A q \in PaymentIds :
          /\ q \in Settled => q \in Settled'
          /\ status[q] # "none" => status'[q] # "none"
    BY <2>1, <2>3 DEF TypeOK
  <2>6. \A q \in PaymentIds :
          /\ collection[q] = "success" => collection'[q] = "success"
          /\ collection[q] # "none" => collection'[q] # "none" /\ order'[q] = order[q]
    BY <2>2
  <2>7. \A d \in Disbursements :
          disbursed[d] # NoPayment => disbursed'[d] = disbursed[d]
    BY <2>2
  <2>8. \A x \in Seats : enrollment[x] # NoRow =>
          enrollment'[x] # NoRow /\ enrollment'[x].via = enrollment[x].via
    BY <2>4
  <2>9. reversed \subseteq reversed'
    BY <2>3
  <2> HIDE DEF p, s
  <2>10. \A q \in PaymentIds :
         /\ collection[q] = "success" => collection'[q] = "success"
         /\ collection[q] # "none" => collection'[q] # "none" /\ order'[q] = order[q]
         /\ status[q] # "none" => status'[q] # "none"
         /\ q \in Settled => q \in Settled'
    BY <2>5, <2>6
  <2> QED
    BY <2>10, <2>7, <2>8, <2>9 DEF Kept
<1>8. ASSUME NEW w \in Workers, NEW p \in PaymentIds, IntentCollect(w, p) PROVE Kept
  BY <1>8 DEF IntentCollect, Kept, TypeOK
<1>9. ASSUME NEW w \in Workers, NEW d \in Disbursements, RefundDisburse(w, d) PROVE Kept
  BY <1>9 DEF RefundDisburse, Kept, TypeOK
<1>10. ASSUME NEW p \in PaymentIds, ProviderSettles(p) PROVE Kept
  BY <1>10 DEF ProviderSettles, Kept, TypeOK
<1> QED
  BY <1>1, <1>2, <1>3, <1>4, <1>5, <1>6, <1>7, <1>8, <1>9, <1>10, WhatChanges

-----------------------------------------------------------------------------
(* The parts of the invariant that speak of rows and money *)

LEMMA RecordsStep == IInv /\ [Next]_vars => RecordsJustified'
<1> SUFFICES ASSUME IInv, [Next]_vars PROVE RecordsJustified'
  OBVIOUS
<1> TypeOK /\ RecordsJustified
  BY DEF IInv
<1> USE DEF RecordsJustified
<1>1. CASE UNCHANGED <<money, totals, rows>>
  BY <1>1
<1>2. ASSUME NEW w \in Workers,
             \/ EnrollFreeCommit(w) \/ IntentRecord(w) \/ FinalizeMarkFailed(w)
             \/ GrantSettle(w) \/ GrantEnroll(w)
      PROVE  RecordsJustified'
  <2>1. UNCHANGED <<money, reversed>>
    BY <1>2 DEF EnrollFreeCommit, IntentRecord, FinalizeMarkFailed, GrantSettle, GrantEnroll
  <2>2. CASE EnrollFreeCommit(w)
    BY <2>1, <2>2 DEF EnrollFreeCommit
  <2>3. CASE ~EnrollFreeCommit(w)
    <3>1. job[w].pid \in PaymentIds /\ collection[job[w].pid] # "none"
      BY <1>2, <2>3, JobOrder DEF IntentRecord, FinalizeMarkFailed, GrantSettle,
           GrantEnroll, PidStages
    <3>2. \A q \in PaymentIds : q # job[w].pid => status'[q] = status[q]
      BY <1>2, <2>3, <3>1 DEF IntentRecord, FinalizeMarkFailed, GrantSettle,
           GrantEnroll, TypeOK
    <3> QED
      BY <2>1, <3>1, <3>2
  <2> QED
    BY <2>2, <2>3
<1>3. ASSUME NEW w \in Workers, RefundReverse(w) PROVE RecordsJustified'
  <2>1. /\ job[w].pid \in PaymentIds /\ collection[job[w].pid] # "none"
        /\ job[w].by \in Disbursements /\ disbursed[job[w].by] # NoPayment
    BY <1>3, JobOrder, JobFields, ConstantsAssumption
    DEF RefundReverse, PidStages, IInv, JobsStillJustified, Justified
  <2>2. UNCHANGED money /\ reversed' \subseteq reversed \cup {job[w].by}
    BY <1>3 DEF RefundReverse
  <2>3. \A q \in PaymentIds : q # job[w].pid => status'[q] = status[q]
    BY <1>3, <2>1 DEF RefundReverse, TypeOK
  <2> QED
    BY <2>1, <2>2, <2>3
<1>4. ASSUME NEW w \in Workers, NEW p \in PaymentIds, IntentCollect(w, p)
      PROVE  RecordsJustified'
  <2>1. job[w].order # NoOrder
    BY <1>4, JobFields, ConstantsAssumption DEF IntentCollect, Orders
  <2> QED
    BY <1>4, <2>1 DEF IntentCollect, TypeOK
<1>5. ASSUME NEW w \in Workers, NEW d \in Disbursements, RefundDisburse(w, d)
      PROVE  RecordsJustified'
  <2>1. job[w].pid # NoPayment
    BY <1>5, JobFields, ConstantsAssumption DEF RefundDisburse, PidStages
  <2> QED
    BY <1>5, <2>1 DEF RefundDisburse, TypeOK
<1>6. ASSUME NEW p \in PaymentIds, ProviderSettles(p) PROVE RecordsJustified'
  BY <1>6 DEF ProviderSettles, TypeOK
<1> QED
  BY <1>1, <1>2, <1>3, <1>4, <1>5, <1>6, WhatChanges

\* Whatever settles a payment found its money collected and leaves a row.
LEMMA NewlySettled ==
    ASSUME IInv, [Next]_vars, NEW p \in PaymentIds, p \in Settled', p \notin Settled
    PROVE  collection[p] = "success" /\ enrollment'[SeatOf(p)] # NoRow
<1> TypeOK
  BY DEF IInv
<1> USE DEF Settled
<1>1. CASE UNCHANGED <<money, totals, rows>>
  BY <1>1
<1>2. ASSUME NEW w \in Workers, EnrollFreeCommit(w) PROVE FALSE
  BY <1>2 DEF EnrollFreeCommit
<1>3. ASSUME NEW w \in Workers, IntentRecord(w) \/ FinalizeMarkFailed(w) PROVE FALSE
  <2>1. job[w].pid \in PaymentIds
    BY <1>3, JobFields DEF IntentRecord, FinalizeMarkFailed, PidStages
  <2> QED
    BY <1>3, <2>1 DEF IntentRecord, FinalizeMarkFailed, TypeOK
<1>4. ASSUME NEW w \in Workers, GrantSettle(w)
      PROVE  collection[p] = "success" /\ enrollment'[SeatOf(p)] # NoRow
  <2>1. job[w].pid = p
    BY <1>4, JobFields DEF GrantSettle, PidStages, TypeOK
  <2> QED
    BY <1>4, <2>1 DEF GrantSettle, IInv, JobsStillJustified, Justified
<1>5. ASSUME NEW w \in Workers, GrantEnroll(w)
      PROVE  collection[p] = "success" /\ enrollment'[SeatOf(p)] # NoRow
  <2>1. job[w].pid = p
    BY <1>5, JobFields DEF GrantEnroll, PidStages, TypeOK
  <2>2. collection[p] = "success" /\ SeatOf(p) \in Seats
    BY <1>5, <2>1, JobOrder, OrderFields DEF GrantEnroll, PidStages, IInv
  <2>3. enrollment'[SeatOf(p)] = [status |-> "ACTIVE", via |-> p]
    BY <1>5, <2>1, <2>2 DEF GrantEnroll, TypeOK
  <2>4. [status |-> "ACTIVE", via |-> p] # NoRow
    BY ConstantsAssumption
  <2> QED
    BY <2>2, <2>3, <2>4
<1>6. ASSUME NEW w \in Workers, RefundReverse(w) PROVE FALSE
  <2>1. job[w].pid \in Settled
    BY <1>6, JobOrder DEF RefundReverse, PidStages
  <2> QED
    BY <1>6, <2>1 DEF RefundReverse, TypeOK
<1>7. ASSUME NEW w \in Workers, NEW q \in PaymentIds, IntentCollect(w, q) PROVE FALSE
  BY <1>7 DEF IntentCollect
<1>8. ASSUME NEW w \in Workers, NEW d \in Disbursements, RefundDisburse(w, d) PROVE FALSE
  BY <1>8 DEF RefundDisburse
<1>9. ASSUME NEW q \in PaymentIds, ProviderSettles(q) PROVE FALSE
  BY <1>9 DEF ProviderSettles
<1> QED
  BY <1>1, <1>2, <1>3, <1>4, <1>5, <1>6, <1>7, <1>8, <1>9, WhatChanges

\* A settled payment keeps its order, hence its seat.
LEMMA SettledSeat ==
    ASSUME IInv, [Next]_vars, NEW p \in PaymentIds, p \in Settled'
    PROVE  /\ collection[p] = "success" /\ order'[p] = order[p]
           /\ SeatOf(p)' = SeatOf(p) /\ SeatOf(p) \in Seats
<1>1. collection[p] = "success"
  BY NewlySettled DEF IInv, SettledWasPaid
<1>2. order'[p] = order[p]
  BY <1>1, Monotone DEF Kept
<1> QED
  BY <1>1, <1>2, OrderFields DEF IInv, SeatOf

LEMMA PaidStep == IInv /\ [Next]_vars => SettledWasPaid'
<1> SUFFICES ASSUME IInv, [Next]_vars PROVE SettledWasPaid'
  OBVIOUS
<1> TypeOK
  BY DEF IInv
<1>1. \A p \in PaymentIds : p \in Settled' => collection'[p] = "success"
  BY SettledSeat, Monotone DEF Kept
<1>2. ASSUME NEW d \in Disbursements, disbursed'[d] # NoPayment
      PROVE  collection'[disbursed'[d]] = "success"
  <2>1. CASE disbursed'[d] = disbursed[d]
    <3>1. disbursed[d] \in PaymentIds /\ collection[disbursed[d]] = "success"
      BY <1>2, <2>1 DEF IInv, SettledWasPaid, TypeOK
    <3> QED
      BY <2>1, <3>1, Monotone DEF Kept
  <2>2. ASSUME NEW w \in Workers, NEW e \in Disbursements, RefundDisburse(w, e),
               disbursed'[d] # disbursed[d]
        PROVE  collection'[disbursed'[d]] = "success"
    <3>1. disbursed'[d] = job[w].pid
      BY <2>2 DEF RefundDisburse, TypeOK
    <3>2. job[w].pid \in PaymentIds /\ collection[job[w].pid] = "success"
      BY <2>2, JobOrder DEF RefundDisburse, PidStages
    <3> QED
      BY <3>1, <3>2, Monotone DEF Kept
  <2>3. UNCHANGED disbursed \/ \E w \in Workers, e \in Disbursements : RefundDisburse(w, e)
    BY WhatChanges DEF EnrollFreeCommit, IntentRecord, FinalizeMarkFailed, GrantSettle,
       GrantEnroll, RefundReverse, IntentCollect, ProviderSettles
  <2> QED
    BY <2>1, <2>2, <2>3
<1>3. Settled' \subseteq PaymentIds
  BY DEF Settled
<1> QED
  BY <1>1, <1>2, <1>3 DEF SettledWasPaid

LEMMA EnrolledStep == IInv /\ [Next]_vars => SettledIsEnrolled'
<1> SUFFICES ASSUME IInv, [Next]_vars, NEW p \in PaymentIds, p \in Settled'
             PROVE  enrollment'[SeatOf(p)'] # NoRow
  BY DEF SettledIsEnrolled, Settled
<1>1. SeatOf(p)' = SeatOf(p) /\ SeatOf(p) \in Seats
  BY SettledSeat
<1>2. CASE p \in Settled
  <2>1. enrollment[SeatOf(p)] # NoRow
    BY <1>2 DEF IInv, SettledIsEnrolled
  <2> QED
    BY <1>1, <2>1, Monotone DEF Kept
<1>3. CASE p \notin Settled
  BY <1>1, <1>3, NewlySettled
<1> QED
  BY <1>2, <1>3

\* A new row is the commit of a free enrolment or of a payment for that seat.
LEMMA NewRow ==
    ASSUME IInv, [Next]_vars, NEW s \in Seats,
           enrollment[s] = NoRow, enrollment'[s] # NoRow
    PROVE  \/ \E w \in Workers : /\ EnrollFreeCommit(w) /\ job[w].seat = s
                                /\ enrollment'[s].via = Free /\ 0 \in Prices[s[2]]
           \/ \E w \in Workers : /\ GrantEnroll(w) /\ SeatOf(job[w].pid) = s
                                /\ enrollment'[s].via = job[w].pid
<1> TypeOK
  BY DEF IInv
<1>1. ASSUME NEW w \in Workers, EnrollFreeCommit(w)
      PROVE  /\ job[w].seat = s /\ enrollment'[s].via = Free /\ 0 \in Prices[s[2]]
  <2>1. job[w].seat \in Seats /\ 0 \in Prices[job[w].seat[2]]
    BY <1>1, JobFields DEF EnrollFreeCommit, IInv, JobsStillJustified, Justified
  <2>2. job[w].seat = s
    BY <1>1, <2>1 DEF EnrollFreeCommit, TypeOK
  <2>3. enrollment'[s] = [status |-> "ACTIVE", via |-> Free]
    BY <1>1, <2>1, <2>2 DEF EnrollFreeCommit, TypeOK
  <2> QED
    BY <2>1, <2>2, <2>3
<1>2. ASSUME NEW w \in Workers, GrantEnroll(w)
      PROVE  SeatOf(job[w].pid) = s /\ enrollment'[s].via = job[w].pid
  <2>1. SeatOf(job[w].pid) \in Seats
    BY <1>2, JobOrder, OrderFields DEF GrantEnroll, PidStages, IInv
  <2>2. enrollment' = [enrollment EXCEPT ![SeatOf(job[w].pid)] =
                         [status |-> "ACTIVE", via |-> job[w].pid]]
    BY <1>2 DEF GrantEnroll
  <2> QED
    BY <2>1, <2>2 DEF TypeOK
<1>3. ASSUME NEW w \in Workers, RefundReverse(w) PROVE FALSE
  <2>1. SeatOf(job[w].pid) \in Seats
    BY <1>3, JobOrder, OrderFields DEF RefundReverse, PidStages, IInv
  <2> QED
    BY <1>3, <2>1 DEF RefundReverse, TypeOK
<1>4. \/ UNCHANGED enrollment
      \/ \E w \in Workers : EnrollFreeCommit(w) \/ GrantEnroll(w) \/ RefundReverse(w)
  BY WhatChanges DEF IntentRecord, FinalizeMarkFailed, GrantSettle, IntentCollect,
     RefundDisburse, ProviderSettles
<1> QED
  BY <1>1, <1>2, <1>3, <1>4

LEMMA EarnedStep == IInv /\ [Next]_vars => EnrollmentIsEarned'
<1> SUFFICES ASSUME IInv, [Next]_vars, NEW s \in Seats, enrollment'[s] # NoRow
             PROVE  IF enrollment'[s].via = Free THEN 0 \in Prices[s[2]]
                    ELSE /\ enrollment'[s].via \in Settled'
                         /\ <<order'[enrollment'[s].via].user,
                              order'[enrollment'[s].via].course>> = s
  BY DEF EnrollmentIsEarned, SeatOf
<1> TypeOK
  BY DEF IInv
<1>1. ASSUME NEW p \in PaymentIds, p \in Settled', SeatOf(p) = s
      PROVE  p # Free /\ <<order'[p].user, order'[p].course>> = s
  BY <1>1, SettledSeat, ConstantsAssumption DEF SeatOf
<1>2. CASE enrollment[s] # NoRow
  <2>1. enrollment'[s].via = enrollment[s].via
    BY <1>2, Monotone DEF Kept
  <2>2. CASE enrollment[s].via = Free
    BY <1>2, <2>1, <2>2 DEF IInv, EnrollmentIsEarned
  <2>3. CASE enrollment[s].via # Free
    <3> DEFINE p == enrollment[s].via
    <3>1. p \in Settled /\ SeatOf(p) = s
      BY <1>2, <2>3 DEF IInv, EnrollmentIsEarned
    <3>2. p \in PaymentIds
      BY <3>1 DEF Settled
    <3>3. p \in Settled'
      BY <3>1, <3>2, Monotone DEF Kept
    <3> HIDE DEF p
    <3>4. <<order'[p].user, order'[p].course>> = s
      BY <3>1, <3>2, <3>3, <1>1
    <3> QED
      BY <2>1, <2>3, <3>3, <3>4 DEF p
  <2> QED
    BY <2>2, <2>3
<1>3. CASE enrollment[s] = NoRow
  <2>1. ASSUME NEW w \in Workers, GrantEnroll(w), SeatOf(job[w].pid) = s,
               enrollment'[s].via = job[w].pid
        PROVE  /\ enrollment'[s].via # Free
               /\ enrollment'[s].via \in Settled'
               /\ <<order'[enrollment'[s].via].user,
                    order'[enrollment'[s].via].course>> = s
    <3> DEFINE p == job[w].pid
    <3>1. p \in PaymentIds
      BY <2>1, JobFields DEF GrantEnroll, PidStages
    <3>2. p \in Settled'
      BY <2>1, <3>1 DEF GrantEnroll, Settled, TypeOK
    <3> HIDE DEF p
    <3>3. SeatOf(p) = s /\ enrollment'[s].via = p
      BY <2>1 DEF p
    <3>4. p # Free /\ <<order'[p].user, order'[p].course>> = s
      BY <3>1, <3>2, <3>3, <1>1
    <3> QED
      BY <3>2, <3>3, <3>4
  <2> QED
    BY <1>3, <2>1, NewRow
<1> QED
  BY <1>2, <1>3

-----------------------------------------------------------------------------
(* What the jobs rely on *)

\* A job that records or reverses is determined by what it carries.
LEMMA JobShape ==
    ASSUME TypeOK, NEW w \in Workers
    PROVE  /\ At(w, "record") => job[w] = [at |-> "record", pid |-> job[w].pid]
           /\ At(w, "reverse") =>
                job[w] = [at |-> "reverse", pid |-> job[w].pid, by |-> job[w].by]
BY DEF TypeOK, Jobs

\* Only IntentCollect leads to "record", only RefundDisburse to "reverse".
LEMMA NewStages ==
    ASSUME IInv, [Next]_vars, NEW x \in Workers, job'[x] # job[x]
    PROVE  /\ job'[x].at = "record" =>
                job'[x].pid \in PaymentIds /\ collection[job'[x].pid] = "none"
           /\ job'[x].at = "reverse" =>
                job'[x].by \in Disbursements /\ disbursed[job'[x].by] = NoPayment
<1> TypeOK
  BY DEF IInv
<1> USE DEF TypeOK
<1>1. CASE job'[x] = Idle
  BY <1>1
<1>2. CASE Intent(x)
  <2>1. ASSUME NEW u \in Users, NEW c \in Courses, EnrollFreeRead(x, u, c)
        PROVE  job'[x].at = "freeCommit"
    BY <2>1 DEF EnrollFreeRead
  <2>2. ASSUME NEW u \in Users, NEW c \in Courses, NEW k \in Coupons \cup {NoCoupon},
               NEW price \in Prices[c], IntentCheck(x, u, c, k, price)
        PROVE  job'[x].at = "collect"
    <3>1. PICK o \in Orders : job' = [job EXCEPT ![x] = [at |-> "collect", order |-> o]]
      BY <2>2, IntentCheckOrder
    <3> QED
      BY <3>1
  <2>3. job'[x].at \in {"freeCommit", "collect"}
    BY <1>2, <2>1, <2>2 DEF Intent
  <2> QED
    BY <2>3
<1>3. ASSUME NEW p \in PaymentIds, IntentCollect(x, p)
      PROVE  /\ job'[x].at # "reverse"
             /\ job'[x].at = "record" => job'[x].pid = p /\ collection[p] = "none"
  BY <1>3 DEF IntentCollect
<1>4. ASSUME NEW p \in PaymentIds, FinalizeRead(x, p) \/ RefundRead(x, p)
      PROVE  job'[x].at \notin {"record", "reverse"}
  BY <1>4 DEF FinalizeRead, RefundRead
<1>5. ASSUME NEW d \in Disbursements, RefundDisburse(x, d)
      PROVE  /\ job'[x].at # "record"
             /\ job'[x].at = "reverse" => job'[x].by = d /\ disbursed[d] = NoPayment
  <2>1. \/ job'[x] = Idle
        \/ job'[x] = [at |-> "reverse", pid |-> job[x].pid, by |-> d]
    BY <1>5 DEF RefundDisburse
  <2> QED
    BY <1>5, <2>1 DEF RefundDisburse
<1>6. CASE FinalizeAsk(x) \/ GrantReadPayment(x) \/ GrantReadEnrollment(x) \/ GrantEnroll(x)
  BY <1>6 DEF FinalizeAsk, GrantReadPayment, GrantReadEnrollment, GrantEnroll
<1> QED
  BY <1>1, <1>2, <1>3, <1>4, <1>5, <1>6, Moves

\* The row a recording job is about to insert is inserted by no other job.
LEMMA RecordKept ==
    ASSUME IInv, [Next]_vars, NEW v \in Workers, job'[v] = job[v], At(v, "record")
    PROVE  /\ status'[job[v].pid] = "none"
           /\ \A x \in Workers : job'[x] = job[v] => x = v
<1> DEFINE p == job[v].pid
<1> TypeOK
  BY DEF IInv
<1>1. /\ p \in PaymentIds /\ collection[p] # "none" /\ status[p] = "none"
      /\ \A x \in Workers : job[x] = job[v] => x = v
  BY JobFields DEF IInv, JobsStillJustified, Justified, PidStages
<1>2. ASSUME NEW x \in Workers, job'[x] = job[v] PROVE x = v
  <2>1. CASE job'[x] = job[x]
    BY <1>1, <1>2, <2>1
  <2>2. CASE job'[x] # job[x]
    BY <1>1, <1>2, <2>2, NewStages
  <2> QED
    BY <2>1, <2>2
<1>3. ASSUME NEW w \in Workers, IntentRecord(w) PROVE job[w].pid # p
  <2>1. job'[w] = Idle /\ At(w, "record")
    BY <1>3 DEF IntentRecord, TypeOK
  <2>2. w # v
    BY <2>1
  <2>3. job[w] = [at |-> "record", pid |-> job[w].pid]
        /\ job[v] = [at |-> "record", pid |-> p]
    BY <2>1, JobShape
  <2> QED
    BY <1>1, <2>2, <2>3
<1>4. ASSUME NEW w \in Workers,
             GrantSettle(w) \/ GrantEnroll(w) \/ RefundReverse(w)
      PROVE  job[w].pid # p
  BY <1>1, <1>4, JobOrder DEF GrantSettle, GrantEnroll, RefundReverse, Settled, PidStages,
     IInv, JobsStillJustified, Justified
<1> HIDE DEF p
<1>5. status'[p] = "none"
  <2>1. ASSUME NEW w \in Workers,
               \/ IntentRecord(w) \/ GrantSettle(w) \/ GrantEnroll(w)
               \/ RefundReverse(w) \/ FinalizeMarkFailed(w)
        PROVE  status'[p] = "none"
    <3>1. job[w].pid \in PaymentIds
      BY <2>1, JobFields DEF IntentRecord, GrantSettle, GrantEnroll, RefundReverse,
         FinalizeMarkFailed, PidStages
    <3>2. CASE FinalizeMarkFailed(w)
      BY <1>1, <3>1, <3>2 DEF FinalizeMarkFailed, TypeOK
    <3>3. CASE ~FinalizeMarkFailed(w)
      <4>1. job[w].pid # p
        BY <1>3, <1>4, <2>1, <3>3
      <4> QED
        BY <1>1, <2>1, <3>1, <3>3, <4>1 DEF IntentRecord, GrantSettle, GrantEnroll,
           RefundReverse, TypeOK
    <3> QED
      BY <3>2, <3>3
  <2>2. UNCHANGED status \/ \E w \in Workers :
           \/ IntentRecord(w) \/ GrantSettle(w) \/ GrantEnroll(w)
           \/ RefundReverse(w) \/ FinalizeMarkFailed(w)
    BY WhatChanges DEF EnrollFreeCommit, IntentCollect, RefundDisburse, ProviderSettles
  <2> QED
    BY <1>1, <2>1, <2>2
<1> QED
  BY <1>2, <1>5 DEF p

\* The disbursement a reversing job is about to record is recorded by no other.
LEMMA ReverseKept ==
    ASSUME IInv, [Next]_vars, NEW v \in Workers, job'[v] = job[v], At(v, "reverse")
    PROVE  /\ disbursed'[job[v].by] = job[v].pid
           /\ job[v].by \notin reversed'
           /\ \A x \in Workers : job'[x] = job[v] => x = v
<1> TypeOK
  BY DEF IInv
<1>1. /\ job[v].pid \in PaymentIds /\ job[v].by \in Disbursements
      /\ disbursed[job[v].by] = job[v].pid /\ job[v].by \notin reversed
      /\ disbursed[job[v].by] # NoPayment
      /\ \A x \in Workers : job[x] = job[v] => x = v
  BY JobFields, ConstantsAssumption DEF IInv, JobsStillJustified, Justified, PidStages
<1>2. ASSUME NEW x \in Workers, job'[x] = job[v] PROVE x = v
  <2>1. CASE job'[x] = job[x]
    BY <1>1, <1>2, <2>1
  <2>2. CASE job'[x] # job[x]
    BY <1>1, <1>2, <2>2, NewStages
  <2> QED
    BY <2>1, <2>2
<1>3. disbursed'[job[v].by] = job[v].pid
  BY <1>1, Monotone DEF Kept
<1>4. ASSUME NEW w \in Workers, RefundReverse(w) PROVE job[v].by \notin reversed'
  <2>1. job'[w] = Idle /\ At(w, "reverse")
    BY <1>4 DEF RefundReverse, TypeOK
  <2>2. w # v
    BY <2>1
  <2>3. disbursed[job[w].by] = job[w].pid
    BY <2>1 DEF IInv, JobsStillJustified, Justified
  <2>4. job[w].by # job[v].by
    BY <1>1, <2>1, <2>2, <2>3, JobShape
  <2>5. reversed' \subseteq reversed \cup {job[w].by}
    BY <1>4 DEF RefundReverse
  <2> QED
    BY <1>1, <2>4, <2>5
<1>5. UNCHANGED reversed \/ \E w \in Workers : RefundReverse(w)
  BY WhatChanges DEF EnrollFreeCommit, IntentRecord, FinalizeMarkFailed, GrantSettle,
     GrantEnroll, IntentCollect, RefundDisburse, ProviderSettles
<1> QED
  BY <1>1, <1>2, <1>3, <1>4, <1>5

\* What a job that stays at its await relies on survives the steps of others.
LEMMA JobKept ==
    ASSUME IInv, [Next]_vars, NEW v \in Workers, job'[v] = job[v]
    PROVE  Justified(v)'
<1> DEFINE p == job[v].pid
<1> TypeOK
  BY DEF IInv
<1>1. Justified(v)
  BY DEF IInv, JobsStillJustified
<1>2. CASE job[v].at \notin PidStages
  BY <1>1, <1>2 DEF Justified, PidStages
<1>3. CASE job[v].at \in PidStages
  <2>1. p \in PaymentIds /\ collection[p] # "none"
        /\ (job[v].at \in {"readPayment", "readEnrollment", "grant", "notify"} =>
              collection[p] = "success")
    BY <1>3, JobOrder
  <2>2. /\ collection'[p] # "none" /\ order'[p] = order[p]
        /\ (collection[p] = "success" => collection'[p] = "success")
        /\ (status[p] # "none" => status'[p] # "none")
        /\ (p \in Settled => p \in Settled')
    BY <2>1, Monotone DEF Kept
  <2>3. SeatOf(p) \in Seats
    BY <2>1, OrderFields DEF IInv
  <2>4. enrollment[SeatOf(p)] # NoRow => enrollment'[SeatOf(p)] # NoRow
    BY <2>3, Monotone DEF Kept
  <2>5. p \in Sold => p \in Sold'
    BY Monotone DEF Kept, Sold
  <2>6. <<order'[p].user, order'[p].course>> = SeatOf(p)
    BY <2>2 DEF SeatOf
  <2>7. CASE At(v, "record")
    BY <1>1, <2>1, <2>2, <2>7, RecordKept DEF Justified
  <2>8. CASE At(v, "reverse")
    BY <1>1, <2>1, <2>2, <2>8, ReverseKept DEF Justified
  <2>9. CASE job[v].at \in {"ask", "markFailed", "readPayment", "readEnrollment",
                            "notify", "disburse"}
    BY <1>1, <2>1, <2>2, <2>5, <2>9 DEF Justified
  <2>10. CASE At(v, "grant")
    BY <1>1, <2>1, <2>2, <2>4, <2>6, <2>10 DEF Justified, SeatOf
  <2> QED
    BY <1>3, <2>7, <2>8, <2>9, <2>10 DEF PidStages
<1> QED
  BY <1>2, <1>3

\* What a job read or did in its own step justifies the stage it reaches.
LEMMA JobMoved ==
    ASSUME IInv, [Next]_vars, NEW v \in Workers, job'[v] # job[v]
    PROVE  Justified(v)'
<1> TypeOK
  BY DEF IInv
<1> USE DEF Justified
<1>1. CASE job'[v] = Idle
  BY <1>1
<1>2. CASE Intent(v)
  <2>1. ASSUME NEW u \in Users, NEW c \in Courses, EnrollFreeRead(v, u, c)
        PROVE  Justified(v)'
    <3>1. job'[v] = [at |-> "freeCommit", seat |-> <<u, c>>] /\ 0 \in Prices[c]
      BY <2>1 DEF EnrollFreeRead, FreeOf, TypeOK
    <3> QED
      BY <3>1
  <2>2. ASSUME NEW u \in Users, NEW c \in Courses, NEW k \in Coupons \cup {NoCoupon},
               NEW price \in Prices[c], IntentCheck(v, u, c, k, price)
        PROVE  Justified(v)'
    <3>1. PICK o \in Orders : job' = [job EXCEPT ![v] = [at |-> "collect", order |-> o]]
      BY <2>2, IntentCheckOrder
    <3>2. job'[v].at = "collect"
      BY <3>1 DEF TypeOK
    <3> QED
      BY <3>2
  <2> QED
    BY <1>2, <2>1, <2>2 DEF Intent
<1>3. ASSUME NEW p \in PaymentIds, IntentCollect(v, p), job'[v] # Idle
      PROVE  Justified(v)'
  <2>1. /\ job' = [job EXCEPT ![v] = [at |-> "record", pid |-> p]]
        /\ collection[p] = "none" /\ collection'[p] = "pending" /\ status' = status
    BY <1>3 DEF IntentCollect, TypeOK
  <2>2. status'[p] = "none"
    BY <2>1 DEF IInv, RecordsJustified
  <2>3. ASSUME NEW x \in Workers, job'[x] = [at |-> "record", pid |-> p] PROVE x = v
    <3>1. CASE job[x] = [at |-> "record", pid |-> p]
      BY <2>1, <3>1 DEF IInv, JobsStillJustified
    <3> QED
      BY <2>1, <2>3, <3>1 DEF TypeOK
  <2>4. job'[v] = [at |-> "record", pid |-> p]
    BY <2>1 DEF TypeOK
  <2> QED
    BY <2>1, <2>2, <2>3, <2>4
<1>4. ASSUME NEW p \in PaymentIds, FinalizeRead(v, p) PROVE Justified(v)'
  <2>1. job'[v] = [at |-> "ask", pid |-> p] /\ collection'[p] # "none"
    BY <1>4 DEF FinalizeRead, TypeOK
  <2> QED
    BY <2>1
<1>5. ASSUME NEW p \in PaymentIds, RefundRead(v, p) PROVE Justified(v)'
  <2>1. job'[v] = [at |-> "disburse", pid |-> p] /\ p \in Settled'
    BY <1>5 DEF RefundRead, Settled, TypeOK
  <2> QED
    BY <2>1
<1>6. ASSUME NEW d \in Disbursements, RefundDisburse(v, d), job'[v] # Idle
      PROVE  Justified(v)'
  <2> DEFINE j == [at |-> "reverse", pid |-> job[v].pid, by |-> d]
  <2>1. job[v].pid \in PaymentIds /\ job[v].pid \in Settled
    BY <1>6, JobOrder DEF RefundDisburse, PidStages
  <2>2. /\ job' = [job EXCEPT ![v] = j]
        /\ disbursed[d] = NoPayment /\ disbursed'[d] = job[v].pid /\ reversed' = reversed
    BY <1>6 DEF RefundDisburse, TypeOK
  <2>3. d \notin reversed' /\ job[v].pid \in Settled'
    BY <2>1, <2>2, Monotone DEF Kept, IInv, RecordsJustified
  <2>4. ASSUME NEW x \in Workers, job'[x] = j PROVE x = v
    <3>1. CASE job[x] = j
      BY <2>1, <2>2, <3>1, ConstantsAssumption DEF IInv, JobsStillJustified
    <3> QED
      BY <2>2, <2>4, <3>1 DEF TypeOK
  <2>5. job'[v] = j
    BY <2>2 DEF TypeOK
  <2> QED
    BY <2>2, <2>3, <2>4, <2>5
<1>7. ASSUME FinalizeAsk(v), job'[v] # Idle PROVE Justified(v)'
  <2> DEFINE p == job[v].pid
  <2>1. \/ job'[v] = [at |-> "readPayment", pid |-> p] /\ collection'[p] = "success"
        \/ job'[v] = [at |-> "markFailed", pid |-> p] /\ collection'[p] = "failed"
    BY <1>7 DEF FinalizeAsk, Confirmed, TypeOK
  <2> QED
    BY <2>1
<1>8. ASSUME GrantReadPayment(v), job'[v] # Idle PROVE Justified(v)'
  <2> DEFINE p == job[v].pid
  <2>1. collection[p] = "success" /\ At(v, "readPayment")
    BY <1>8, JobOrder DEF GrantReadPayment, PidStages
  <2>2. /\ job'[v] = [at |-> "readEnrollment", pid |-> p]
        /\ status'[p] # "none" /\ collection' = collection
    BY <1>8 DEF GrantReadPayment, NotGrantable, TypeOK
  <2> QED
    BY <2>1, <2>2
<1>9. ASSUME GrantReadEnrollment(v) PROVE Justified(v)'
  <2> DEFINE p == job[v].pid
             e == enrollment[SeatOf(p)] # NoRow
  <2>1. collection[p] = "success" /\ status[p] # "none"
    BY <1>9 DEF GrantReadEnrollment, IInv, JobsStillJustified
  <2>2. /\ job'[v] = [at |-> "grant", pid |-> p, enrolled |-> e]
        /\ UNCHANGED <<collection, status, enrollment, order>>
    BY <1>9 DEF GrantReadEnrollment, TypeOK
  <2>3. e => enrollment'[<<order'[p].user, order'[p].course>>] # NoRow
    BY <2>2 DEF SeatOf
  <2> HIDE DEF p, e
  <2> QED
    BY <2>1, <2>2, <2>3 DEF SeatOf
<1>10. ASSUME GrantEnroll(v) PROVE Justified(v)'
  <2> DEFINE p == job[v].pid
  <2>1. p \in PaymentIds /\ collection[p] = "success" /\ SeatOf(p) \in Seats
    BY <1>10, JobOrder, OrderFields DEF GrantEnroll, PidStages, IInv
  <2>2. job'[v] = [at |-> "notify", pid |-> p] /\ collection' = collection
    BY <1>10 DEF GrantEnroll, TypeOK
  <2>3. enrollment'[SeatOf(p)] = [status |-> "ACTIVE", via |-> p]
    BY <1>10, <2>1 DEF GrantEnroll, TypeOK
  <2>4. [status |-> "ACTIVE", via |-> p] # NoRow
    BY <2>1, ConstantsAssumption
  <2>5. p \in Sold'
    BY <2>1, <2>3, <2>4 DEF Sold, Seats
  <2> QED
    BY <2>1, <2>2, <2>5
<1> QED
  BY <1>1, <1>2, <1>3, <1>4, <1>5, <1>6, <1>7, <1>8, <1>9, <1>10, Moves

LEMMA JobsStep == IInv /\ [Next]_vars => JobsStillJustified'
BY JobKept, JobMoved DEF JobsStillJustified

-----------------------------------------------------------------------------
(* The theorems *)

LEMMA InitIInv == Init => IInv
<1> SUFFICES ASSUME Init PROVE IInv
  OBVIOUS
<1> USE DEF Init
<1>1. TypeOK
  BY JobsClosed DEF TypeOK
<1>2. RecordsJustified
  BY DEF RecordsJustified
<1>3. JobsStillJustified
  BY DEF JobsStillJustified, Justified
<1>4. Settled = {}
  BY DEF Settled
<1>5. SettledWasPaid /\ SettledIsEnrolled
  BY <1>4 DEF SettledWasPaid, SettledIsEnrolled
<1>6. EnrollmentIsEarned
  BY DEF EnrollmentIsEarned
<1> QED
  BY <1>1, <1>2, <1>3, <1>5, <1>6 DEF IInv

LEMMA StepIInv == IInv /\ [Next]_vars => IInv'
BY TypeStep, RecordsStep, JobsStep, PaidStep, EnrolledStep, EarnedStep DEF IInv

\* IInv is inductive: everything checked of rows, money and jobs holds together.
THEOREM Invariance == Spec => []IInv
BY InitIInv, StepIInv, PTL DEF Spec

\* Every variable keeps its type.
THEOREM TypeCorrect == Spec => []TypeOK
<1>1. IInv => TypeOK
  BY DEF IInv
<1> QED
  BY <1>1, Invariance, PTL

\* grantEnrollment and refundPayment move money only after the provider
\* confirmed it, for any number of users, payments and concurrent requests.
THEOREM PaidBeforeSettled == Spec => []SettledWasPaid
<1>1. IInv => SettledWasPaid
  BY DEF IInv
<1> QED
  BY <1>1, Invariance, PTL

\* The transaction of grantEnrollment never leaves a COMPLETED payment whose
\* buyer has no enrolment row.
THEOREM EnrolledWhenSettled == Spec => []SettledIsEnrolled
<1>1. IInv => SettledIsEnrolled
  BY DEF IInv
<1> QED
  BY <1>1, Invariance, PTL

\* Every row was free or paid for, by the user it belongs to.
THEOREM EarnedEnrollment == Spec => []EnrollmentIsEarned
<1>1. IInv => EnrollmentIsEarned
  BY DEF IInv
<1> QED
  BY <1>1, Invariance, PTL

\* What a request read before an await and still acts on after it is true.
THEOREM StaleReadsAreSafe == Spec => []JobsStillJustified
<1>1. IInv => JobsStillJustified
  BY DEF IInv
<1> QED
  BY <1>1, Invariance, PTL

\* No interleaving of webhook, poll and refund un-settles a payment.
THEOREM SettledIsFinal == Spec => PaidStaysPaid
<1>1. IInv /\ [Next]_vars => [\A p \in Settled : p \in Settled']_vars
  <2> SUFFICES ASSUME IInv, [Next]_vars, NEW p \in Settled PROVE p \in Settled'
    OBVIOUS
  <2>1. p \in PaymentIds
    BY DEF Settled
  <2> QED
    BY <2>1, Monotone DEF Kept
<1> QED
  BY <1>1, Invariance, PTL DEF Spec, PaidStaysPaid

LEMMA WhoNotifies ==
    ASSUME [Next]_vars
    PROVE  UNCHANGED notified \/ \E w \in Workers : GrantNotify(w)
<1>1. ASSUME NEW w \in Workers, Intent(w) PROVE UNCHANGED notified
  BY <1>1 DEF Intent, EnrollFreeRead, IntentCheck
<1>2. ASSUME NEW w \in Workers,
             \/ EnrollFreeCommit(w) \/ IntentRecord(w) \/ FinalizeAsk(w)
             \/ FinalizeMarkFailed(w) \/ GrantReadPayment(w) \/ GrantReadEnrollment(w)
             \/ GrantSettle(w) \/ GrantEnroll(w) \/ GrantAbort(w) \/ RefundReverse(w)
             \/ ProviderRefuses(w) \/ Crash(w)
      PROVE  UNCHANGED notified
  BY <1>2 DEF EnrollFreeCommit, IntentRecord, FinalizeAsk, FinalizeMarkFailed,
     GrantReadPayment, GrantReadEnrollment, GrantSettle, GrantEnroll, GrantAbort,
     RefundReverse, ProviderRefuses, Crash
<1>3. ASSUME NEW w \in Workers, NEW p \in PaymentIds,
             FinalizeRead(w, p) \/ RefundRead(w, p) \/ IntentCollect(w, p)
      PROVE  UNCHANGED notified
  BY <1>3 DEF FinalizeRead, RefundRead, IntentCollect
<1>4. ASSUME NEW w \in Workers, NEW d \in Disbursements, RefundDisburse(w, d)
      PROVE  UNCHANGED notified
  BY <1>4 DEF RefundDisburse
<1>5. ASSUME \/ \E p \in PaymentIds : ProviderSettles(p)
             \/ \E i \in Instructors : CreateProfile(i)
             \/ UNCHANGED vars
      PROVE  UNCHANGED notified
  BY <1>5 DEF ProviderSettles, CreateProfile, vars
<1> QED
  BY <1>1, <1>2, <1>3, <1>4, <1>5 DEF Next, Proceed

\* A buyer is notified by the request that sold the enrolment, and a sale stands.
LEMMA NotifiedStep == IInv /\ NotifiedForTheSale /\ [Next]_vars => NotifiedForTheSale'
<1> SUFFICES ASSUME IInv, NotifiedForTheSale, [Next]_vars, NEW p \in notified'
             PROVE  p \in Sold'
  BY DEF NotifiedForTheSale
<1>1. p \in Sold => p \in Sold'
  BY Monotone DEF Sold, Kept
<1>2. CASE p \in notified
  BY <1>1, <1>2 DEF NotifiedForTheSale
<1>3. CASE p \notin notified
  <2>1. PICK w \in Workers : GrantNotify(w)
    BY <1>3, WhoNotifies
  <2>2. job[w].pid = p
    BY <1>3, <2>1 DEF GrantNotify
  <2>3. p \in Sold
    BY <2>1, <2>2 DEF GrantNotify, At, IInv, JobsStillJustified, Justified
  <2> QED
    BY <1>1, <2>3
<1> QED
  BY <1>2, <1>3

\* Whatever is retried, raced or lost, nobody holds a seat unpaid, pays without
\* a seat, or is told of a sale that was not made.
THEOREM SoundSales == Spec => []SalesAreSound
<1>1. Init => NotifiedForTheSale
  BY DEF Init, NotifiedForTheSale
<1>2. IInv /\ NotifiedForTheSale => SalesAreSound
  BY DEF IInv, SalesAreSound
<1> QED
  BY <1>1, <1>2, Invariance, NotifiedStep, PTL DEF Spec

-----------------------------------------------------------------------------
(* Payments implements PurchaseLedger *)

LEMMA LedgerInit == Init => Ledger!Init
<1> SUFFICES ASSUME Init PROVE Ledger!Init
  OBVIOUS
<1> USE DEF Init
<1>1. Claimed = [p \in PaymentIds |-> NoOrder]
  BY DEF Claimed
<1>2. Paid = {} /\ Settled = {}
  BY DEF Paid, Settled
<1>3. Repaid = {}
  BY ConstantsAssumption DEF Repaid, Refunds
<1>4. Holder = [s \in Seats |-> NoRow]
  BY DEF Holder
<1> QED
  BY <1>1, <1>2, <1>3, <1>4 DEF Ledger!Init

\* What each view depends on.
LEMMA Views ==
    /\ UNCHANGED order => UNCHANGED Claimed
    /\ UNCHANGED collection => UNCHANGED Paid
    /\ UNCHANGED status => UNCHANGED Settled
    /\ UNCHANGED disbursed => UNCHANGED Repaid
    /\ UNCHANGED enrollment => UNCHANGED Holder
BY DEF Claimed, Paid, Settled, Repaid, Refunds, Holder, SeatOf

\* A seat is held as soon as its row exists.
LEMMA Held ==
    ASSUME TypeOK, NEW s \in Seats
    PROVE  Holder[s] = NoRow <=> enrollment[s] = NoRow
<1>1. enrollment[s] # NoRow => enrollment[s].via \in PaymentIds \cup {Free}
  BY DEF TypeOK, Rows
<1> QED
  BY <1>1, ConstantsAssumption DEF Holder

\* Rewriting the row of s puts its purchase in the ledger, and nothing else.
LEMMA HolderUpdate ==
    ASSUME TypeOK, NEW s \in Seats, NEW r \in Rows,
           enrollment' = [enrollment EXCEPT ![s] = r]
    PROVE  Holder' = [Holder EXCEPT ![s] = r.via]
<1>1. r # NoRow
  BY ConstantsAssumption DEF Rows
<1>2. \A x \in Seats : enrollment'[x] = IF x = s THEN r ELSE enrollment[x]
  BY DEF TypeOK
<1>3. \A x \in Seats : Holder'[x] = IF x = s THEN r.via ELSE Holder[x]
  BY <1>1, <1>2 DEF Holder
<1>4. Holder' = [x \in Seats |-> Holder'[x]] /\ Holder = [x \in Seats |-> Holder[x]]
  BY DEF Holder
<1> HIDE DEF Holder
<1> QED
  BY <1>3, <1>4

LEMMA TakeFreeStep ==
    ASSUME IInv, NEW w \in Workers, EnrollFreeCommit(w)
    PROVE  [Ledger!Next]_(Ledger!vars)
<1> DEFINE s == job[w].seat
           r == [status |-> "ACTIVE", via |-> Free]
<1>1. s \in Seats /\ r \in Rows
  BY JobFields DEF EnrollFreeCommit, IInv, Rows
<1>2. UNCHANGED <<Claimed, Paid, Settled, Repaid>>
  BY Views DEF EnrollFreeCommit
<1>3. CASE enrollment[s] = NoRow
  <2>1. enrollment' = [enrollment EXCEPT ![s] = r]
    BY <1>3 DEF EnrollFreeCommit, UniqueIndexAccepts
  <2>2. Holder' = [Holder EXCEPT ![s] = r.via] /\ Holder[s] = NoRow
    BY <1>1, <1>3, <2>1, HolderUpdate, Held DEF IInv
  <2>3. Ledger!TakeFree(s)
    BY <1>2, <2>2 DEF Ledger!TakeFree
  <2> QED
    BY <1>1, <2>3 DEF Ledger!Next
<1>4. CASE enrollment[s] # NoRow
  <2>1. UNCHANGED enrollment
    BY <1>4 DEF EnrollFreeCommit, UniqueIndexAccepts
  <2> QED
    BY <1>2, <2>1, Views DEF Ledger!vars
<1> QED
  BY <1>3, <1>4

LEMMA SettleStep ==
    ASSUME IInv, NEW w \in Workers, GrantSettle(w) \/ GrantEnroll(w)
    PROVE  [Ledger!Next]_(Ledger!vars)
<1> DEFINE p == job[w].pid
           s == SeatOf(p)
           r == [status |-> "ACTIVE", via |-> p]
<1> TypeOK
  BY DEF IInv
<1>1. /\ p \in PaymentIds /\ collection[p] = "success" /\ s \in Seats
      /\ r \in Rows /\ order[p] # NoOrder
  BY JobOrder, OrderFields DEF GrantSettle, GrantEnroll, PidStages, IInv, RecordsJustified, Rows
<1>2. Claimed[p] = s /\ p \in Paid
  BY <1>1 DEF Claimed, Paid
<1>3. UNCHANGED <<Claimed, Paid, Repaid>>
  BY Views DEF GrantSettle, GrantEnroll
<1>4. status' = [status EXCEPT ![p] = "COMPLETED"]
  BY DEF GrantSettle, GrantEnroll
<1>5. Settled' = Settled \cup {p}
  BY <1>1, <1>4 DEF Settled, TypeOK
<1>6. CASE GrantSettle(w)
  <2>1. enrollment[s] # NoRow /\ UNCHANGED enrollment
    BY <1>6 DEF GrantSettle, IInv, JobsStillJustified, Justified
  <2>2. Holder[s] # NoRow /\ UNCHANGED Holder
    BY <1>1, <2>1, Held, Views
  <2>3. CASE p \in Settled
    <3>1. Settled' = Settled
      BY <1>5, <2>3
    <3> QED
      BY <1>3, <2>2, <3>1 DEF Ledger!vars
  <2>4. CASE p \notin Settled
    <3>1. Ledger!Settle(p)
      BY <1>2, <1>3, <1>5, <2>2, <2>4 DEF Ledger!Settle
    <3> QED
      BY <1>1, <3>1 DEF Ledger!Next
  <2> QED
    BY <2>3, <2>4
<1>7. CASE GrantEnroll(w)
  <2>1. enrollment[s] = NoRow /\ enrollment' = [enrollment EXCEPT ![s] = r]
    BY <1>7 DEF GrantEnroll, UniqueIndexAccepts
  <2>2. Holder[s] = NoRow /\ Holder' = [Holder EXCEPT ![s] = p]
    BY <1>1, <2>1, Held, HolderUpdate
  <2>3. p \notin Settled
    BY <2>1 DEF IInv, SettledIsEnrolled
  <2>4. Ledger!Settle(p)
    BY <1>2, <1>3, <1>5, <2>2, <2>3 DEF Ledger!Settle
  <2> QED
    BY <1>1, <2>4 DEF Ledger!Next
<1> QED
  BY <1>6, <1>7

LEMMA ReverseIsInvisible ==
    ASSUME IInv, NEW w \in Workers, RefundReverse(w)
    PROVE  UNCHANGED Ledger!vars
<1> DEFINE p == job[w].pid
           s == SeatOf(p)
<1> TypeOK
  BY DEF IInv
<1>1. p \in PaymentIds /\ p \in Settled /\ s \in Seats
  BY JobOrder, OrderFields DEF RefundReverse, PidStages, IInv
<1>2. UNCHANGED <<Claimed, Paid, Repaid>>
  BY Views DEF RefundReverse
<1>3. status' = status \/ status' = [status EXCEPT ![p] = "REFUNDED"]
  BY DEF RefundReverse
<1>4. UNCHANGED Settled
  BY <1>1, <1>3 DEF Settled, TypeOK
<1>5. enrollment[s] # NoRow /\ enrollment[s] \in Rows
  BY <1>1 DEF IInv, SettledIsEnrolled, TypeOK
<1>6. CASE enrollment' = enrollment
  BY <1>2, <1>4, <1>6, Views DEF Ledger!vars
<1>7. CASE enrollment' # enrollment
  <2> DEFINE r == [enrollment[s] EXCEPT !.status = "REFUNDED"]
  <2>1. r \in Rows /\ r.via = enrollment[s].via
    BY <1>5 DEF Rows
  <2>2. enrollment' = [enrollment EXCEPT ![s] = r]
    BY <1>5, <1>7 DEF RefundReverse
  <2>3. Holder' = [Holder EXCEPT ![s] = r.via]
    BY <1>1, <2>1, <2>2, HolderUpdate
  <2>4. Holder \in [Seats -> {Holder[x] : x \in Seats}] /\ Holder[s] = r.via
    BY <1>1, <1>5, <2>1 DEF Holder
  <2>5. UNCHANGED Holder
    BY <1>1, <2>3, <2>4
  <2> QED
    BY <1>2, <1>4, <2>5 DEF Ledger!vars
<1> QED
  BY <1>6, <1>7

LEMMA ClaimStep ==
    ASSUME IInv, NEW w \in Workers, NEW p \in PaymentIds, IntentCollect(w, p)
    PROVE  [Ledger!Next]_(Ledger!vars)
<1> DEFINE o == job[w].order
           s == <<o.user, o.course>>
<1> TypeOK
  BY DEF IInv
<1>1. o \in Orders /\ o # NoOrder
  BY JobFields, ConstantsAssumption DEF IntentCollect, Orders
<1>2. s \in Seats
  BY <1>1 DEF Orders, Seats
<1>3. order[p] = NoOrder
  BY DEF IntentCollect, IInv, RecordsJustified
<1>4. order' = [order EXCEPT ![p] = o] /\ UNCHANGED <<disbursed, status, enrollment>>
      /\ collection' = [collection EXCEPT ![p] = "pending"] /\ collection[p] = "none"
  BY DEF IntentCollect
<1>5. Claimed[p] = NoOrder /\ Claimed' = [Claimed EXCEPT ![p] = s]
  BY <1>1, <1>3, <1>4 DEF Claimed, SeatOf, TypeOK
<1>6. Paid' = Paid
  BY <1>4 DEF Paid, TypeOK
<1>7. UNCHANGED <<Settled, Repaid, Holder>>
  BY <1>4, Views
<1>8. Ledger!Claim(p, s)
  BY <1>5, <1>6, <1>7 DEF Ledger!Claim
<1> QED
  BY <1>2, <1>8 DEF Ledger!Next

LEMMA RepayStep ==
    ASSUME IInv, NEW w \in Workers, NEW d \in Disbursements, RefundDisburse(w, d)
    PROVE  [Ledger!Next]_(Ledger!vars)
<1> DEFINE p == job[w].pid
<1>1. p \in PaymentIds /\ p \in Settled
  BY JobOrder DEF RefundDisburse, PidStages
<1>2. disbursed[d] = NoPayment /\ disbursed' = [disbursed EXCEPT ![d] = p]
      /\ UNCHANGED <<collection, order, rows>>
  BY DEF RefundDisburse
<1>3. UNCHANGED <<Claimed, Paid, Settled, Holder>>
  BY <1>2, Views
<1>4. \A q \in PaymentIds : Refunds(q)' # {} <=> Refunds(q) # {} \/ q = p
  BY <1>2, ConstantsAssumption DEF Refunds, IInv, TypeOK
<1>5. Repaid' = Repaid \cup {p}
  BY <1>1, <1>4 DEF Repaid
<1>6. Ledger!Repay(p)
  BY <1>1, <1>3, <1>5 DEF Ledger!Repay
<1> QED
  BY <1>1, <1>6 DEF Ledger!Next

LEMMA PayStep ==
    ASSUME IInv, NEW p \in PaymentIds, ProviderSettles(p)
    PROVE  [Ledger!Next]_(Ledger!vars)
<1>1. /\ order[p] # NoOrder
      /\ \E outcome \in {"success", "failed"} :
           collection' = [collection EXCEPT ![p] = outcome]
      /\ collection[p] # "success"
      /\ UNCHANGED <<order, disbursed, rows>>
  BY DEF ProviderSettles, IInv, RecordsJustified
<1>2. UNCHANGED <<Claimed, Settled, Repaid, Holder>>
  BY <1>1, Views
<1>3. Claimed[p] # NoOrder
  BY <1>1, ConstantsAssumption, OrderFields DEF Claimed, SeatOf, Seats, IInv, RecordsJustified
<1>4. Paid' = Paid \/ Paid' = Paid \cup {p}
  BY <1>1 DEF Paid, IInv, TypeOK
<1>5. CASE Paid' = Paid
  BY <1>2, <1>5 DEF Ledger!vars
<1>6. CASE Paid' = Paid \cup {p}
  <2>1. Ledger!Pay(p)
    BY <1>2, <1>3, <1>6 DEF Ledger!Pay
  <2> QED
    BY <2>1 DEF Ledger!Next
<1> QED
  BY <1>4, <1>5, <1>6

LEMMA LedgerStep == IInv /\ [Next]_vars => [Ledger!Next]_(Ledger!vars)
<1> SUFFICES ASSUME IInv, [Next]_vars PROVE [Ledger!Next]_(Ledger!vars)
  OBVIOUS
<1>1. CASE UNCHANGED <<money, totals, rows>>
  BY <1>1, Views DEF Ledger!vars
<1>2. ASSUME NEW w \in Workers, IntentRecord(w) \/ FinalizeMarkFailed(w)
      PROVE  UNCHANGED Ledger!vars
  <2>1. UNCHANGED <<money, enrollment>>
    BY <1>2 DEF IntentRecord, FinalizeMarkFailed
  <2>2. job[w].pid \in PaymentIds
    BY <1>2, JobOrder DEF IntentRecord, FinalizeMarkFailed, PidStages
  <2>3. IntentRecord(w) => status[job[w].pid] = "none"
    BY DEF IntentRecord, IInv, JobsStillJustified, Justified
  <2>4. UNCHANGED Settled
    BY <1>2, <2>2, <2>3 DEF IntentRecord, FinalizeMarkFailed, Settled, IInv, TypeOK
  <2> QED
    BY <2>1, <2>4, Views DEF Ledger!vars
<1> QED
  BY <1>1, <1>2, TakeFreeStep, SettleStep, ReverseIsInvisible, ClaimStep, RepayStep,
     PayStep, WhatChanges

\* The races, crashes and retries of payments.service.ts are invisible to
\* whoever looks only at seats and money: payments behave as PurchaseLedger.
THEOREM Refinement == Spec => ImplementsLedger
BY Invariance, LedgerInit, LedgerStep, PTL DEF Spec, ImplementsLedger, Ledger!Spec

-----------------------------------------------------------------------------
(* The head counts *)

RowsOf(c) == {s \in Seats : s[2] = c /\ enrollment[s] # NoRow}
BackOf(c) == {d \in reversed : order[disbursed[d]].course = c}
SoldBy(i) == {p \in Sold : InstructorFor(p) = i}
BackBy(i) == {d \in reversed : InstructorFor(disbursed[d]) = i}

LEMMA AllFinite ==
    ASSUME TypeOK
    PROVE  /\ \A c : IsFiniteSet(RowsOf(c)) /\ IsFiniteSet(BackOf(c))
           /\ \A i : IsFiniteSet(SoldBy(i)) /\ IsFiniteSet(BackBy(i))
<1>1. IsFiniteSet(Seats)
  BY FiniteAssumption, FS_Product DEF Seats
<1>2. IsFiniteSet(reversed)
  BY FiniteAssumption, FS_Subset DEF TypeOK
<1>3. IsFiniteSet(Sold)
  <2>1. Sold \subseteq PaymentIds
    BY DEF Sold
  <2> QED
    BY <2>1, FiniteAssumption, FS_Subset
<1>4. /\ \A c : RowsOf(c) \subseteq Seats /\ BackOf(c) \subseteq reversed
      /\ \A i : SoldBy(i) \subseteq Sold /\ BackBy(i) \subseteq reversed
  BY DEF RowsOf, BackOf, SoldBy, BackBy
<1> QED
  BY <1>1, <1>2, <1>3, <1>4, FS_Subset

\* One element more is one more.
LEMMA OneMore ==
    ASSUME NEW S, IsFiniteSet(S), NEW x, x \notin S
    PROVE  Cardinality(S \cup {x}) = Cardinality(S) + 1
BY FS_AddElement

\* Money given back was for a purchase whose order cannot change any more.
LEMMA ReversedOrder ==
    ASSUME IInv, [Next]_vars, NEW d \in reversed
    PROVE  /\ disbursed[d] \in PaymentIds /\ disbursed'[d] = disbursed[d]
           /\ order'[disbursed[d]] = order[disbursed[d]]
<1>1. d \in Disbursements /\ disbursed[d] # NoPayment
  BY DEF IInv, TypeOK, RecordsJustified
<1>2. disbursed[d] \in PaymentIds /\ collection[disbursed[d]] = "success"
  BY <1>1 DEF IInv, TypeOK, SettledWasPaid
<1> QED
  BY <1>1, <1>2, Monotone DEF Kept

LEMMA BackSame ==
    ASSUME IInv, [Next]_vars, reversed' = reversed
    PROVE  /\ \A c : BackOf(c)' = BackOf(c)
           /\ \A i : BackBy(i)' = BackBy(i)
BY ReversedOrder DEF BackOf, BackBy, InstructorFor

LEMMA SoldOrder ==
    ASSUME IInv, [Next]_vars, NEW p \in Sold
    PROVE  p \in Settled /\ order'[p] = order[p]
<1>1. PICK s \in Seats : enrollment[s] # NoRow /\ enrollment[s].via = p
  BY DEF Sold
<1>2. p \in PaymentIds
  BY DEF Sold
<1>3. p \in Settled
  BY <1>1, <1>2, ConstantsAssumption DEF IInv, EnrollmentIsEarned
<1> QED
  BY <1>2, <1>3, Monotone DEF Kept, IInv, SettledWasPaid

LEMMA SoldSame ==
    ASSUME IInv, [Next]_vars, Sold' = Sold
    PROVE  \A i : SoldBy(i)' = SoldBy(i)
BY SoldOrder DEF SoldBy, InstructorFor

HeadCounts ==
    /\ \A c \in Courses : course[c].enrollments =
         Cardinality(RowsOf(c)) - Cardinality(BackOf(c))
    /\ \A i \in Instructors : profile[i].students =
         Cardinality(SoldBy(i)) - Cardinality(BackBy(i))

\* Steps that insert no row and record no refund.
LEMMA CountsSame ==
    ASSUME IInv, [Next]_vars, HeadCounts, UNCHANGED <<enrollment, reversed, course, profile>>
    PROVE  HeadCounts'
<1>1. Sold' = Sold
  BY DEF Sold
<1>2. \A c : RowsOf(c)' = RowsOf(c)
  BY DEF RowsOf
<1> QED
  BY <1>1, <1>2, BackSame, SoldSame DEF HeadCounts

\* A row inserted for seat s counts once, for the course of s.
LEMMA RowsInsert ==
    ASSUME TypeOK, NEW s \in Seats, NEW r \in Rows, enrollment[s] = NoRow,
           enrollment' = [enrollment EXCEPT ![s] = r], NEW c
    PROVE  Cardinality(RowsOf(c)') = Cardinality(RowsOf(c)) + (IF c = s[2] THEN 1 ELSE 0)
<1>1. r # NoRow
  BY ConstantsAssumption DEF Rows
<1>2. RowsOf(c)' = IF c = s[2] THEN RowsOf(c) \cup {s} ELSE RowsOf(c)
  BY <1>1 DEF RowsOf, TypeOK
<1>3. s \notin RowsOf(c) /\ IsFiniteSet(RowsOf(c))
  BY AllFinite DEF RowsOf
<1>4. Cardinality(RowsOf(c)) \in Nat
  BY <1>3, FS_CardinalityType
<1> QED
  BY <1>2, <1>3, <1>4, OneMore

LEMMA CountsFree ==
    ASSUME IInv, [Next]_vars, HeadCounts, NEW w \in Workers, EnrollFreeCommit(w)
    PROVE  HeadCounts'
<1> DEFINE s == job[w].seat
           r == [status |-> "ACTIVE", via |-> Free]
<1> TypeOK
  BY DEF IInv
<1>1. s \in Seats /\ s[2] \in Courses /\ r \in Rows
  BY JobFields DEF EnrollFreeCommit, Rows, Seats
<1>2. CASE enrollment[s] # NoRow
  BY <1>2, CountsSame DEF EnrollFreeCommit, UniqueIndexAccepts
<1>3. CASE enrollment[s] = NoRow
  <2>1. /\ enrollment' = [enrollment EXCEPT ![s] = r]
        /\ course' = CourseTotals(s[2], 1, 0) /\ UNCHANGED <<profile, reversed>>
    BY <1>3 DEF EnrollFreeCommit, UniqueIndexAccepts
  <2>2. \A x \in Seats : enrollment'[x] = IF x = s THEN r ELSE enrollment[x]
    BY <2>1 DEF TypeOK
  <2>3. Sold' = Sold
    BY <1>1, <1>3, <2>2, ConstantsAssumption DEF Sold
  <2>4. \A c \in Courses : course'[c].enrollments =
          course[c].enrollments + (IF c = s[2] THEN 1 ELSE 0)
    BY <1>1, <2>1 DEF CourseTotals, TypeOK
  <2>5. \A c : Cardinality(RowsOf(c)') =
               Cardinality(RowsOf(c)) + (IF c = s[2] THEN 1 ELSE 0)
    BY <1>1, <1>3, <2>1, RowsInsert
  <2>6. \A c : Cardinality(RowsOf(c)) \in Int /\ Cardinality(BackOf(c)) \in Int
    BY AllFinite, FS_CardinalityType
  <2> HIDE DEF s, r
  <2>7. \A c \in Courses : course'[c].enrollments =
          Cardinality(RowsOf(c)') - Cardinality(BackOf(c)')
    BY <2>1, <2>4, <2>5, <2>6, BackSame DEF HeadCounts
  <2>8. \A i \in Instructors : profile'[i].students =
          Cardinality(SoldBy(i)') - Cardinality(BackBy(i)')
    BY <2>1, <2>3, BackSame, SoldSame DEF HeadCounts
  <2> QED
    BY <2>7, <2>8 DEF HeadCounts
<1> QED
  BY <1>2, <1>3

LEMMA CountsGrant ==
    ASSUME IInv, [Next]_vars, HeadCounts, NEW w \in Workers, GrantEnroll(w)
    PROVE  HeadCounts'
<1> DEFINE p == job[w].pid
           s == SeatOf(p)
           r == [status |-> "ACTIVE", via |-> p]
           j == InstructorFor(p)
           amount == order[p].amount
<1> TypeOK
  BY DEF IInv
<1>1. /\ p \in PaymentIds /\ s \in Seats /\ s[2] \in Courses /\ r \in Rows
      /\ j \in Instructors /\ amount \in Nat
  BY JobOrder, OrderFields DEF GrantEnroll, PidStages, IInv, Rows
<1>2. /\ enrollment[s] = NoRow /\ enrollment' = [enrollment EXCEPT ![s] = r]
      /\ course' = CourseTotals(s[2], 1, amount) /\ profile' = ProfileTotals(j, 1, amount)
      /\ UNCHANGED <<order, reversed>>
  BY DEF GrantEnroll, UniqueIndexAccepts
<1>3. \A x \in Seats : enrollment'[x] = IF x = s THEN r ELSE enrollment[x]
  BY <1>2 DEF TypeOK
<1>4. Sold' = Sold \cup {p}
  <2>1. r # NoRow /\ r.via = p
    BY <1>1, ConstantsAssumption DEF Rows
  <2> HIDE DEF r, s
  <2> QED
    BY <1>1, <1>2, <1>3, <2>1 DEF Sold
<1>5. p \notin Sold
  <2>1. p \notin Settled
    BY <1>2 DEF IInv, SettledIsEnrolled
  <2> QED
    BY <2>1, SoldOrder
<1>6. \A c \in Courses : course'[c].enrollments =
        course[c].enrollments + (IF c = s[2] THEN 1 ELSE 0)
  BY <1>1, <1>2 DEF CourseTotals, TypeOK
<1>7. \A i \in Instructors : profile'[i].students =
        profile[i].students + (IF i = j THEN 1 ELSE 0)
  BY <1>1, <1>2 DEF ProfileTotals, TypeOK
<1>8. \A c : Cardinality(RowsOf(c)') =
             Cardinality(RowsOf(c)) + (IF c = s[2] THEN 1 ELSE 0)
  BY <1>1, <1>2, RowsInsert
<1>9. ASSUME NEW i
      PROVE  Cardinality(SoldBy(i)') = Cardinality(SoldBy(i)) + (IF i = j THEN 1 ELSE 0)
  <2>1. SoldBy(i)' = IF i = j THEN SoldBy(i) \cup {p} ELSE SoldBy(i)
    BY <1>2, <1>4 DEF SoldBy, InstructorFor
  <2>2. p \notin SoldBy(i) /\ IsFiniteSet(SoldBy(i))
    BY <1>5, AllFinite DEF SoldBy
  <2>3. Cardinality(SoldBy(i)) \in Nat
    BY <2>2, FS_CardinalityType
  <2> HIDE DEF j, p
  <2> QED
    BY <2>1, <2>2, <2>3, OneMore
<1>10. /\ \A c : Cardinality(RowsOf(c)) \in Int /\ Cardinality(BackOf(c)) \in Int
       /\ \A i : Cardinality(SoldBy(i)) \in Int /\ Cardinality(BackBy(i)) \in Int
  BY AllFinite, FS_CardinalityType
<1> HIDE DEF s, r, p, j, amount
<1>11. \A c \in Courses : course'[c].enrollments =
         Cardinality(RowsOf(c)') - Cardinality(BackOf(c)')
  BY <1>2, <1>6, <1>8, <1>10, BackSame DEF HeadCounts
<1>12. \A i \in Instructors : profile'[i].students =
         Cardinality(SoldBy(i)') - Cardinality(BackBy(i)')
  BY <1>2, <1>7, <1>9, <1>10, BackSame DEF HeadCounts
<1> QED
  BY <1>11, <1>12 DEF HeadCounts

LEMMA CountsReverse ==
    ASSUME IInv, [Next]_vars, HeadCounts, NEW w \in Workers, RefundReverse(w)
    PROVE  HeadCounts'
<1> DEFINE p == job[w].pid
           b == job[w].by
           s == SeatOf(p)
           j == InstructorFor(p)
           amount == order[p].amount
<1> TypeOK
  BY DEF IInv
<1>1. /\ p \in PaymentIds /\ s \in Seats /\ s[2] \in Courses /\ s[2] = order[p].course
      /\ j \in Instructors /\ amount \in Nat /\ b \in Disbursements
  BY JobFields, JobOrder, OrderFields DEF RefundReverse, PidStages, IInv
<1>2. disbursed[b] = p /\ b \notin reversed
  BY DEF RefundReverse, IInv, JobsStillJustified, Justified
<1>3. CASE j \notin profiled
  BY <1>3, CountsSame DEF RefundReverse
<1>4. CASE j \in profiled
  <2>1. /\ reversed' = reversed \cup {b} /\ UNCHANGED <<order, disbursed>>
        /\ course' = CourseTotals(s[2], -1, amount)
        /\ profile' = ProfileTotals(j, -1, amount)
    BY <1>4 DEF RefundReverse
  <2>2. ASSUME NEW x \in Seats
        PROVE  /\ enrollment'[x] # NoRow <=> enrollment[x] # NoRow
               /\ enrollment[x] # NoRow => enrollment'[x].via = enrollment[x].via
    <3>1. enrollment[x] # NoRow =>
            enrollment'[x] # NoRow /\ enrollment'[x].via = enrollment[x].via
      BY Monotone DEF Kept
    <3>2. enrollment[x] = NoRow => enrollment'[x] = NoRow
      BY <1>1 DEF RefundReverse, TypeOK
    <3> QED
      BY <3>1, <3>2
  <2>3. Sold' = Sold /\ \A c : RowsOf(c)' = RowsOf(c)
    BY <2>2 DEF Sold, RowsOf
  <2>4. \A i : SoldBy(i)' = SoldBy(i)
    BY <2>3, SoldSame
  <2>5. \A c \in Courses : course'[c].enrollments =
          course[c].enrollments - (IF c = s[2] THEN 1 ELSE 0)
    BY <1>1, <2>1 DEF CourseTotals, TypeOK
  <2>6. \A i \in Instructors : profile'[i].students =
          profile[i].students - (IF i = j THEN 1 ELSE 0)
    BY <1>1, <2>1 DEF ProfileTotals, TypeOK
  <2>7. /\ \A c : Cardinality(RowsOf(c)) \in Int /\ Cardinality(BackOf(c)) \in Int
        /\ \A i : Cardinality(SoldBy(i)) \in Int /\ Cardinality(BackBy(i)) \in Int
    BY AllFinite, FS_CardinalityType
  <2>8. ASSUME NEW c
        PROVE  Cardinality(BackOf(c)') =
                 Cardinality(BackOf(c)) + (IF c = s[2] THEN 1 ELSE 0)
    <3>1. BackOf(c)' = IF c = s[2] THEN BackOf(c) \cup {b} ELSE BackOf(c)
      BY <1>1, <1>2, <2>1 DEF BackOf
    <3>2. b \notin BackOf(c) /\ IsFiniteSet(BackOf(c))
      BY <1>2, AllFinite DEF BackOf
    <3> HIDE DEF b, s
    <3> QED
      BY <2>7, <3>1, <3>2, OneMore
  <2>9. ASSUME NEW i
        PROVE  Cardinality(BackBy(i)') =
                 Cardinality(BackBy(i)) + (IF i = j THEN 1 ELSE 0)
    <3>1. BackBy(i)' = IF i = j THEN BackBy(i) \cup {b} ELSE BackBy(i)
      BY <1>2, <2>1 DEF BackBy, InstructorFor
    <3>2. b \notin BackBy(i) /\ IsFiniteSet(BackBy(i))
      BY <1>2, AllFinite DEF BackBy
    <3> HIDE DEF b, j
    <3> QED
      BY <2>7, <3>1, <3>2, OneMore
  <2> HIDE DEF p, b, s, j, amount
  <2>10. \A c \in Courses : course'[c].enrollments =
           Cardinality(RowsOf(c)') - Cardinality(BackOf(c)')
    BY <2>3, <2>5, <2>7, <2>8 DEF HeadCounts, TypeOK
  <2>11. \A i \in Instructors : profile'[i].students =
           Cardinality(SoldBy(i)') - Cardinality(BackBy(i)')
    BY <2>4, <2>6, <2>7, <2>9 DEF HeadCounts, TypeOK
  <2> QED
    BY <2>10, <2>11 DEF HeadCounts
<1> QED
  BY <1>3, <1>4

LEMMA CountsStep == IInv /\ HeadCounts /\ [Next]_vars => HeadCounts'
<1> SUFFICES ASSUME IInv, HeadCounts, [Next]_vars PROVE HeadCounts'
  OBVIOUS
<1>1. CASE UNCHANGED <<enrollment, reversed, course, profile>>
  BY <1>1, CountsSame
<1>2. \/ UNCHANGED <<enrollment, reversed, course, profile>>
      \/ \E w \in Workers : EnrollFreeCommit(w) \/ GrantEnroll(w) \/ RefundReverse(w)
  BY WhatChanges DEF IntentRecord, FinalizeMarkFailed, GrantSettle, IntentCollect,
     RefundDisburse, ProviderSettles
<1> QED
  BY <1>1, <1>2, CountsFree, CountsGrant, CountsReverse

LEMMA CountsInit == Init => HeadCounts
<1> SUFFICES ASSUME Init PROVE HeadCounts
  OBVIOUS
<1>1. /\ \A c : RowsOf(c) = {} /\ BackOf(c) = {}
      /\ \A i : SoldBy(i) = {} /\ BackBy(i) = {}
  BY DEF Init, RowsOf, BackOf, SoldBy, BackBy, Sold
<1>2. Cardinality({}) = 0
  BY FS_EmptySet
<1>3. /\ \A c \in Courses : course[c].enrollments = 0
      /\ \A i \in Instructors : profile[i].students = 0
  BY DEF Init
<1>4. ASSUME NEW c \in Courses
      PROVE  course[c].enrollments = Cardinality(RowsOf(c)) - Cardinality(BackOf(c))
  <2>1. RowsOf(c) = {} /\ BackOf(c) = {} /\ course[c].enrollments = 0
    BY <1>1, <1>3
  <2> QED
    BY <1>2, <2>1
<1>5. ASSUME NEW i \in Instructors
      PROVE  profile[i].students = Cardinality(SoldBy(i)) - Cardinality(BackBy(i))
  <2>1. SoldBy(i) = {} /\ BackBy(i) = {} /\ profile[i].students = 0
    BY <1>1, <1>3
  <2> QED
    BY <1>2, <2>1
<1> QED
  BY <1>4, <1>5 DEF HeadCounts

\* Course.totalEnrollments and InstructorProfile.totalStudents count each
\* enrolment once and each recorded refund once, whatever the interleaving of
\* webhooks, polls, free enrolments and refunds.
THEOREM HeadCountsReconcile == Spec => []StudentsReconcile
<1>1. HeadCounts => StudentsReconcile
  BY DEF HeadCounts, StudentsReconcile, RowsOf, BackOf, SoldBy, BackBy
<1> QED
  BY <1>1, Invariance, CountsInit, CountsStep, PTL DEF Spec
-----------------------------------------------------------------------------
(* The totals of money *)

\* What a payment brought in, and what a disbursement gave back.
Paying == [p \in PaymentIds |-> order[p].amount]
PaidBack == [d \in Disbursements |-> order[disbursed[d]].amount]

SoldOf(c) == {p \in Sold : order[p].course = c}
UsedWith(k) == {p \in Sold : order[p].coupon = k}
BoughtBy(u) == {p \in Sold : order[p].user = u}

\* The sums of RevenueReconciles and BuyerTotalsReconcile are SumOver these.
LEMMA AmountsAdd ==
    ASSUME NEW S \in SUBSET PaymentIds
    PROVE  MapThenSumSet(LAMBDA p : order[p].amount, S) = SumOver(Paying, S)
<1> DEFINE Adds(g) == g = [s \in SUBSET S |->
               IF s = {} THEN 0
               ELSE order[CHOOSE x \in s : TRUE].amount + g[s \ {CHOOSE x \in s : TRUE}]]
           h == CHOOSE g : Adds(g)
<1>1. IsFiniteSet(S)
  BY FiniteAssumption, FS_Subset
<1>2. MapThenSumSet(LAMBDA p : order[p].amount, S) = h[S]
  BY DEF MapThenSumSet, MapThenFoldSet
<1>3. ASSUME NEW g
      PROVE  IsPartialSum(g, Paying, S) <=> Adds(g)
  <2>1. \A s \in SUBSET S : s # {} => Paying[First(s)] = order[CHOOSE x \in s : TRUE].amount
    BY FirstIsMember DEF First, Paying
  <2> QED
    BY <2>1 DEF IsPartialSum, First
<1>4. \E g : Adds(g)
  <2> HIDE DEF Adds
  <2> QED
    BY <1>1, <1>3, PartialSumExists
<1> HIDE DEF Adds
<1>5. IsPartialSum(h, Paying, S)
  BY <1>3, <1>4
<1> QED
  BY <1>1, <1>2, <1>5, SumIs

LEMMA RefundsAdd ==
    ASSUME NEW S \in SUBSET Disbursements
    PROVE  MapThenSumSet(LAMBDA d : order[disbursed[d]].amount, S) = SumOver(PaidBack, S)
<1> DEFINE Adds(g) == g = [s \in SUBSET S |->
               IF s = {} THEN 0
               ELSE order[disbursed[CHOOSE x \in s : TRUE]].amount
                    + g[s \ {CHOOSE x \in s : TRUE}]]
           h == CHOOSE g : Adds(g)
<1>1. IsFiniteSet(S)
  BY FiniteAssumption, FS_Subset
<1>2. MapThenSumSet(LAMBDA d : order[disbursed[d]].amount, S) = h[S]
  BY DEF MapThenSumSet, MapThenFoldSet
<1>3. ASSUME NEW g
      PROVE  IsPartialSum(g, PaidBack, S) <=> Adds(g)
  <2>1. \A s \in SUBSET S :
          s # {} => PaidBack[First(s)] = order[disbursed[CHOOSE x \in s : TRUE]].amount
    BY FirstIsMember DEF First, PaidBack
  <2> QED
    BY <2>1 DEF IsPartialSum, First
<1>4. \E g : Adds(g)
  <2> HIDE DEF Adds
  <2> QED
    BY <1>1, <1>3, PartialSumExists
<1> HIDE DEF Adds
<1>5. IsPartialSum(h, PaidBack, S)
  BY <1>3, <1>4
<1> QED
  BY <1>1, <1>2, <1>5, SumIs

\* What was sold was for an amount that cannot change any more, and so was what
\* was given back.
LEMMA SoldAmounts ==
    ASSUME IInv, NEW S \in SUBSET Sold
    PROVE  /\ IsFiniteSet(S)
           /\ \A p \in S : Paying[p] \in Nat
           /\ SumOver(Paying, S) \in Nat
           /\ [Next]_vars => SumOver(Paying', S) = SumOver(Paying, S)
<1>1. S \subseteq PaymentIds
  BY DEF Sold
<1>2. IsFiniteSet(S)
  BY <1>1, FiniteAssumption, FS_Subset
<1>3. ASSUME NEW p \in S
      PROVE  order[p].amount \in Nat
  <2>1. PICK s \in Seats : enrollment[s] # NoRow /\ enrollment[s].via = p
    BY DEF Sold
  <2>2. p \in Settled
    BY <1>1, <2>1, ConstantsAssumption DEF IInv, EnrollmentIsEarned
  <2>3. order[p] \in Orders
    BY <1>1, <2>2 DEF IInv, SettledWasPaid, RecordsJustified, TypeOK
  <2> QED
    BY <2>3 DEF Orders
<1>4. \A p \in S : Paying[p] \in Nat
  BY <1>1, <1>3 DEF Paying
<1>5. [Next]_vars => \A p \in S : Paying'[p] = Paying[p]
  BY <1>1, SoldOrder DEF Paying
<1> QED
  BY <1>2, <1>4, <1>5, SumNat, SumAgree

LEMMA BackAmounts ==
    ASSUME IInv, NEW S \in SUBSET reversed
    PROVE  /\ IsFiniteSet(S)
           /\ \A d \in S : PaidBack[d] \in Nat
           /\ SumOver(PaidBack, S) \in Nat
           /\ [Next]_vars => SumOver(PaidBack', S) = SumOver(PaidBack, S)
<1>1. S \subseteq Disbursements
  BY DEF IInv, TypeOK
<1>2. IsFiniteSet(S)
  BY <1>1, FiniteAssumption, FS_Subset
<1>3. ASSUME NEW d \in S
      PROVE  order[disbursed[d]].amount \in Nat
  <2>1. disbursed[d] # NoPayment
    BY DEF IInv, RecordsJustified
  <2>2. disbursed[d] \in PaymentIds /\ collection[disbursed[d]] = "success"
    BY <1>1, <2>1 DEF IInv, TypeOK, SettledWasPaid
  <2>3. order[disbursed[d]] \in Orders
    BY <2>2 DEF IInv, RecordsJustified, TypeOK
  <2> QED
    BY <2>3 DEF Orders
<1>4. \A d \in S : PaidBack[d] \in Nat
  BY <1>1, <1>3 DEF PaidBack
<1>5. [Next]_vars => \A d \in S : PaidBack'[d] = PaidBack[d]
  BY <1>1, ReversedOrder DEF PaidBack
<1> QED
  BY <1>2, <1>4, <1>5, SumNat, SumAgree

LEMMA SalesSame ==
    ASSUME IInv, [Next]_vars, Sold' = Sold
    PROVE  /\ \A c : SoldOf(c)' = SoldOf(c)
           /\ \A k : UsedWith(k)' = UsedWith(k)
           /\ \A u : BoughtBy(u)' = BoughtBy(u)
BY SoldOrder DEF SoldOf, UsedWith, BoughtBy

CourseRevenue ==
    \A c \in Courses : course[c].revenue =
        SumOver(Paying, SoldOf(c)) - SumOver(PaidBack, BackOf(c))
InstructorRevenue ==
    \A i \in Instructors : profile[i].revenue =
        Share * (SumOver(Paying, SoldBy(i)) - SumOver(PaidBack, BackBy(i)))
CouponUse == \A k \in Coupons : usedCount[k] = Cardinality(UsedWith(k))
BuyerTotals ==
    \A u \in Users : /\ analytics[u].courses = Cardinality(BoughtBy(u))
                     /\ analytics[u].spent = SumOver(Paying, BoughtBy(u))

Totals == CourseRevenue /\ InstructorRevenue /\ CouponUse /\ BuyerTotals

LEMMA TotalsSame ==
    ASSUME IInv, [Next]_vars, Totals, Sold' = Sold, UNCHANGED <<reversed, usedCount, analytics>>,
           \A c \in Courses : course'[c].revenue = course[c].revenue,
           \A i \in Instructors : profile'[i].revenue = profile[i].revenue
    PROVE  Totals'
<1>1. /\ \A c : SumOver(Paying', SoldOf(c)) = SumOver(Paying, SoldOf(c))
      /\ \A i : SumOver(Paying', SoldBy(i)) = SumOver(Paying, SoldBy(i))
      /\ \A u : SumOver(Paying', BoughtBy(u)) = SumOver(Paying, BoughtBy(u))
  BY SoldAmounts DEF SoldOf, SoldBy, BoughtBy
<1>2. /\ \A c : SumOver(PaidBack', BackOf(c)) = SumOver(PaidBack, BackOf(c))
      /\ \A i : SumOver(PaidBack', BackBy(i)) = SumOver(PaidBack, BackBy(i))
  BY BackAmounts DEF BackOf, BackBy
<1> QED
  BY <1>1, <1>2, SalesSame, SoldSame, BackSame
     DEF Totals, CourseRevenue, InstructorRevenue, CouponUse, BuyerTotals

LEMMA TotalsFree ==
    ASSUME IInv, [Next]_vars, Totals, NEW w \in Workers, EnrollFreeCommit(w)
    PROVE  Totals'
<1> DEFINE s == job[w].seat
           r == [status |-> "ACTIVE", via |-> Free]
<1>1. s \in Seats /\ s[2] \in Courses /\ r \in Rows
  BY JobFields DEF EnrollFreeCommit, Rows, Seats, IInv
<1>2. CASE enrollment[s] # NoRow
  <2>1. UNCHANGED <<enrollment, course, profile, reversed, usedCount, analytics>>
    BY <1>2 DEF EnrollFreeCommit, UniqueIndexAccepts
  <2>2. Sold' = Sold
    BY <2>1 DEF Sold
  <2> QED
    BY <2>1, <2>2, TotalsSame
<1>3. CASE enrollment[s] = NoRow
  <2>1. /\ enrollment' = [enrollment EXCEPT ![s] = r]
        /\ course' = CourseTotals(s[2], 1, 0)
        /\ UNCHANGED <<profile, reversed, usedCount, analytics>>
    BY <1>3 DEF EnrollFreeCommit, UniqueIndexAccepts
  <2>2. \A x \in Seats : enrollment'[x] = IF x = s THEN r ELSE enrollment[x]
    BY <2>1 DEF IInv, TypeOK
  <2>3. Sold' = Sold
    BY <1>1, <1>3, <2>2, ConstantsAssumption DEF Sold
  <2>4. \A c \in Courses : course'[c].revenue = course[c].revenue
    BY <1>1, <2>1 DEF CourseTotals, IInv, TypeOK
  <2> QED
    BY <2>1, <2>3, <2>4, TotalsSame
<1> QED
  BY <1>2, <1>3

\* One sale more in a set of sales.
LEMMA OneSaleMore ==
    ASSUME IInv, [Next]_vars, NEW S \in SUBSET Sold, NEW p \in PaymentIds \ Sold,
           order'[p].amount \in Nat
    PROVE  /\ SumOver(Paying', S \cup {p}) = SumOver(Paying, S) + order'[p].amount
           /\ Cardinality(S \cup {p}) = Cardinality(S) + 1
<1>1. IsFiniteSet(S) /\ SumOver(Paying', S) = SumOver(Paying, S) /\ p \notin S
  BY SoldAmounts
<1>2. Paying'[p] = order'[p].amount
  BY DEF Paying
<1>3. \A x \in S : Paying'[x] = Paying[x]
  BY SoldOrder DEF Paying, Sold
<1>4. \A x \in S \cup {p} : Paying'[x] \in Int
  BY <1>2, <1>3, SoldAmounts
<1>5. SumOver(Paying', S \cup {p}) = SumOver(Paying', S) + Paying'[p]
  <2> DEFINE f == Paying'
  <2>1. IsFiniteSet(S) /\ p \notin S /\ \A x \in S \cup {p} : f[x] \in Int
    BY <1>1, <1>4
  <2> HIDE DEF f
  <2>2. SumOver(f, S \cup {p}) = SumOver(f, S) + f[p]
    BY <2>1, SumAdd
  <2> QED
    BY <2>2 DEF f
<1> QED
  BY <1>1, <1>2, <1>5, OneMore

LEMMA ShareOfAmount ==
    ASSUME NEW x \in Int, NEW amount \in Int
    PROVE  /\ Share * (x + amount) = Share * x + 1 * amount * Share
           /\ Share * (x - amount) = Share * x + (-1) * amount * Share
<1>1. Share \in Int
  BY ConstantsAssumption
<1> QED
  BY <1>1

LEMMA TotalsGrant ==
    ASSUME IInv, [Next]_vars, Totals, NEW w \in Workers, GrantEnroll(w)
    PROVE  Totals'
<1> DEFINE p == job[w].pid
           s == SeatOf(p)
           r == [status |-> "ACTIVE", via |-> p]
           j == InstructorFor(p)
           amount == order[p].amount
           kk == order[p].coupon
<1> TypeOK
  BY DEF IInv
<1>1. /\ p \in PaymentIds /\ s \in Seats /\ s[1] \in Users /\ s[2] \in Courses
      /\ s[1] = order[p].user /\ s[2] = order[p].course
      /\ r \in Rows /\ j \in Instructors /\ amount \in Nat
  BY JobOrder, OrderFields DEF GrantEnroll, PidStages, IInv, Rows
<1>2. /\ enrollment[s] = NoRow /\ enrollment' = [enrollment EXCEPT ![s] = r]
      /\ course' = CourseTotals(s[2], 1, amount) /\ profile' = ProfileTotals(j, 1, amount)
      /\ usedCount' = [x \in Coupons |-> IF x = kk THEN usedCount[x] + 1 ELSE usedCount[x]]
      /\ analytics' = [analytics EXCEPT ![s[1]] = [courses |-> @.courses + 1,
                                                   spent |-> @.spent + amount]]
      /\ UNCHANGED <<order, reversed>>
  BY DEF GrantEnroll, UniqueIndexAccepts
<1>3. \A x \in Seats : enrollment'[x] = IF x = s THEN r ELSE enrollment[x]
  BY <1>2 DEF TypeOK
<1>4. Sold' = Sold \cup {p}
  <2>1. r # NoRow /\ r.via = p
    BY <1>1, ConstantsAssumption DEF Rows
  <2> HIDE DEF r, s
  <2> QED
    BY <1>1, <1>2, <1>3, <2>1 DEF Sold
<1>5. p \notin Sold
  <2>1. p \notin Settled
    BY <1>2 DEF IInv, SettledIsEnrolled
  <2> QED
    BY <2>1, SoldOrder
<1>6. \A S \in SUBSET Sold :
        /\ SumOver(Paying, S) \in Nat /\ Cardinality(S) \in Nat
        /\ SumOver(Paying', S) = SumOver(Paying, S)
        /\ SumOver(Paying', S \cup {p}) = SumOver(Paying, S) + amount
        /\ Cardinality(S \cup {p}) = Cardinality(S) + 1
  BY <1>1, <1>2, <1>5, SoldAmounts, OneSaleMore, FS_CardinalityType
<1>7. /\ \A c : /\ SumOver(PaidBack, BackOf(c)) \in Nat
                /\ SumOver(PaidBack', BackOf(c)') = SumOver(PaidBack, BackOf(c))
      /\ \A i : /\ SumOver(PaidBack, BackBy(i)) \in Nat
                /\ SumOver(PaidBack', BackBy(i)') = SumOver(PaidBack, BackBy(i))
  <2>1. /\ \A c : BackOf(c) \subseteq reversed
        /\ \A i : BackBy(i) \subseteq reversed
    BY DEF BackOf, BackBy
  <2> QED
    BY <1>2, <2>1, BackAmounts, BackSame
<1>8. /\ \A c : SoldOf(c)' = IF c = s[2] THEN SoldOf(c) \cup {p} ELSE SoldOf(c)
      /\ \A i : SoldBy(i)' = IF i = j THEN SoldBy(i) \cup {p} ELSE SoldBy(i)
      /\ \A k : UsedWith(k)' = IF k = kk THEN UsedWith(k) \cup {p} ELSE UsedWith(k)
      /\ \A u : BoughtBy(u)' = IF u = s[1] THEN BoughtBy(u) \cup {p} ELSE BoughtBy(u)
  <2> HIDE DEF p, s
  <2> QED
    BY <1>1, <1>2, <1>4 DEF SoldOf, SoldBy, UsedWith, BoughtBy, InstructorFor
<1>9. /\ \A c : SoldOf(c) \in SUBSET Sold
      /\ \A i : SoldBy(i) \in SUBSET Sold
      /\ \A k : UsedWith(k) \in SUBSET Sold
      /\ \A u : BoughtBy(u) \in SUBSET Sold
  BY DEF SoldOf, SoldBy, UsedWith, BoughtBy
<1>10. \A c \in Courses : course'[c].revenue =
         course[c].revenue + (IF c = s[2] THEN amount ELSE 0)
  BY <1>1, <1>2 DEF CourseTotals, TypeOK
<1>11. \A i \in Instructors : profile'[i].revenue =
         IF i = j THEN profile[i].revenue + 1 * amount * Share ELSE profile[i].revenue
  BY <1>1, <1>2 DEF ProfileTotals, TypeOK
<1>12. \A u \in Users :
         /\ analytics'[u].courses = analytics[u].courses + (IF u = s[1] THEN 1 ELSE 0)
         /\ analytics'[u].spent = analytics[u].spent + (IF u = s[1] THEN amount ELSE 0)
  BY <1>1, <1>2 DEF TypeOK
<1>13. \A k \in Coupons : usedCount'[k] = usedCount[k] + (IF k = kk THEN 1 ELSE 0)
  BY <1>2 DEF TypeOK
<1> HIDE DEF p, s, r, j, amount, kk
<1>14. ASSUME NEW c \in Courses
       PROVE  course'[c].revenue = SumOver(Paying', SoldOf(c)') - SumOver(PaidBack', BackOf(c)')
  <2> DEFINE S == SoldOf(c)
             b == SumOver(PaidBack, BackOf(c))
  <2>1. /\ SumOver(Paying, S) \in Nat /\ SumOver(Paying', S) = SumOver(Paying, S)
        /\ SumOver(Paying', S \cup {p}) = SumOver(Paying, S) + amount
    BY <1>6, <1>9
  <2>2. b \in Nat /\ SumOver(PaidBack', BackOf(c)') = b
    BY <1>7
  <2>3. S' = IF c = s[2] THEN S \cup {p} ELSE S
    BY <1>8
  <2>4. course[c].revenue = SumOver(Paying, S) - b
    BY DEF Totals, CourseRevenue
  <2>5. course'[c].revenue = course[c].revenue + (IF c = s[2] THEN amount ELSE 0)
    BY <1>10
  <2> HIDE DEF S, b
  <2>6. course'[c].revenue = SumOver(Paying', S') - b
    BY <1>1, <2>1, <2>2, <2>3, <2>4, <2>5
  <2> QED
    BY <2>2, <2>6 DEF S
<1>15. ASSUME NEW i \in Instructors
       PROVE  profile'[i].revenue =
                Share * (SumOver(Paying', SoldBy(i)') - SumOver(PaidBack', BackBy(i)'))
  <2> DEFINE S == SoldBy(i)
             a == SumOver(Paying, S)
             b == SumOver(PaidBack, BackBy(i))
  <2>1. /\ a \in Nat /\ SumOver(Paying', S) = a
        /\ SumOver(Paying', S \cup {p}) = a + amount
    BY <1>6, <1>9
  <2>2. b \in Nat /\ SumOver(PaidBack', BackBy(i)') = b
    BY <1>7
  <2>3. S' = IF i = j THEN S \cup {p} ELSE S
    BY <1>8
  <2>4. profile[i].revenue = Share * (a - b)
    BY DEF Totals, InstructorRevenue
  <2>5. profile'[i].revenue =
          IF i = j THEN profile[i].revenue + 1 * amount * Share ELSE profile[i].revenue
    BY <1>11
  <2> HIDE DEF S, a, b
  <2>6. profile'[i].revenue = Share * (SumOver(Paying', S') - b)
    <3>1. CASE i = j
      <4>1. SumOver(Paying', S') = a + amount
        BY <2>1, <2>3, <3>1
      <4>2. profile'[i].revenue = Share * (a - b) + 1 * amount * Share
        BY <2>4, <2>5, <3>1
      <4>3. Share * ((a - b) + amount) = Share * (a - b) + 1 * amount * Share
        BY <1>1, <2>1, <2>2, ShareOfAmount
      <4>4. (a - b) + amount = (a + amount) - b
        BY <1>1, <2>1, <2>2
      <4> QED
        BY <4>1, <4>2, <4>3, <4>4
    <3>2. CASE i # j
      BY <2>1, <2>3, <2>4, <2>5, <3>2
    <3> QED
      BY <3>1, <3>2
  <2> QED
    BY <2>2, <2>6 DEF S
<1>16. ASSUME NEW k \in Coupons
       PROVE  usedCount'[k] = Cardinality(UsedWith(k)')
  <2> DEFINE S == UsedWith(k)
  <2>1. Cardinality(S) \in Nat /\ Cardinality(S \cup {p}) = Cardinality(S) + 1
    BY <1>6, <1>9
  <2>2. S' = IF k = kk THEN S \cup {p} ELSE S
    BY <1>8
  <2>3. usedCount[k] = Cardinality(S)
    BY DEF Totals, CouponUse
  <2> HIDE DEF S
  <2>4. usedCount'[k] = Cardinality(S')
    BY <1>13, <2>1, <2>2, <2>3
  <2> QED
    BY <2>4 DEF S
<1>17. ASSUME NEW u \in Users
       PROVE  /\ analytics'[u].courses = Cardinality(BoughtBy(u)')
              /\ analytics'[u].spent = SumOver(Paying', BoughtBy(u)')
  <2> DEFINE S == BoughtBy(u)
  <2>1. /\ Cardinality(S) \in Nat /\ Cardinality(S \cup {p}) = Cardinality(S) + 1
        /\ SumOver(Paying, S) \in Nat /\ SumOver(Paying', S) = SumOver(Paying, S)
        /\ SumOver(Paying', S \cup {p}) = SumOver(Paying, S) + amount
    BY <1>6, <1>9
  <2>2. S' = IF u = s[1] THEN S \cup {p} ELSE S
    BY <1>8
  <2>3. analytics[u].courses = Cardinality(S) /\ analytics[u].spent = SumOver(Paying, S)
    BY DEF Totals, BuyerTotals
  <2>4. /\ analytics'[u].courses = analytics[u].courses + (IF u = s[1] THEN 1 ELSE 0)
        /\ analytics'[u].spent = analytics[u].spent + (IF u = s[1] THEN amount ELSE 0)
    BY <1>12
  <2> HIDE DEF S
  <2>5. analytics'[u].courses = Cardinality(S') /\ analytics'[u].spent = SumOver(Paying', S')
    BY <1>1, <2>1, <2>2, <2>3, <2>4
  <2> QED
    BY <2>5 DEF S
<1> QED
  BY <1>14, <1>15, <1>16, <1>17
     DEF Totals, CourseRevenue, InstructorRevenue, CouponUse, BuyerTotals

LEMMA TotalsReverse ==
    ASSUME IInv, [Next]_vars, Totals, NEW w \in Workers, RefundReverse(w)
    PROVE  Totals'
<1> DEFINE p == job[w].pid
           d == job[w].by
           s == SeatOf(p)
           j == InstructorFor(p)
           amount == order[p].amount
<1> TypeOK
  BY DEF IInv
<1>1. /\ p \in PaymentIds /\ s \in Seats /\ s[2] \in Courses /\ s[2] = order[p].course
      /\ j \in Instructors /\ amount \in Nat /\ d \in Disbursements
  BY JobFields, JobOrder, OrderFields DEF RefundReverse, PidStages, IInv
<1>2. disbursed[d] = p /\ d \notin reversed
  BY DEF RefundReverse, IInv, JobsStillJustified, Justified
<1>3. Sold' = Sold
  <2>1. ASSUME NEW x \in Seats
        PROVE  /\ enrollment'[x] # NoRow <=> enrollment[x] # NoRow
               /\ enrollment[x] # NoRow => enrollment'[x].via = enrollment[x].via
    <3>1. enrollment[x] # NoRow =>
            enrollment'[x] # NoRow /\ enrollment'[x].via = enrollment[x].via
      BY Monotone DEF Kept
    <3>2. enrollment[x] = NoRow => enrollment'[x] = NoRow
      BY <1>1 DEF RefundReverse, TypeOK
    <3> QED
      BY <3>1, <3>2
  <2> QED
    BY <2>1 DEF Sold
<1>4. CASE j \notin profiled
  BY <1>3, <1>4, TotalsSame DEF RefundReverse
<1>5. CASE j \in profiled
  <2>1. /\ reversed' = reversed \cup {d} /\ UNCHANGED <<order, disbursed, usedCount, analytics>>
        /\ course' = CourseTotals(s[2], -1, amount)
        /\ profile' = ProfileTotals(j, -1, amount)
    BY <1>5 DEF RefundReverse
  <2>2. PaidBack' = PaidBack /\ Paying' = Paying /\ PaidBack[d] = amount
    BY <1>1, <1>2, <2>1 DEF PaidBack, Paying
  <2>3. \A S \in SUBSET reversed :
          /\ SumOver(PaidBack, S) \in Nat
          /\ SumOver(PaidBack, S \cup {d}) = SumOver(PaidBack, S) + amount
    <3> TAKE S \in SUBSET reversed
    <3>1. /\ IsFiniteSet(S) /\ SumOver(PaidBack, S) \in Nat /\ d \notin S
          /\ \A x \in S \cup {d} : PaidBack[x] \in Int
      BY <1>1, <1>2, <2>2, BackAmounts
    <3> HIDE DEF d, amount
    <3> QED
      BY <2>2, <3>1, SumAdd, ZenonT(60)
  <2>4. /\ \A c : SoldOf(c)' = SoldOf(c)
        /\ \A i : SoldBy(i)' = SoldBy(i)
        /\ \A k : UsedWith(k)' = UsedWith(k)
        /\ \A u : BoughtBy(u)' = BoughtBy(u)
    BY <1>3, SalesSame, SoldSame
  <2>5. /\ \A c : SumOver(Paying, SoldOf(c)) \in Nat
        /\ \A i : SumOver(Paying, SoldBy(i)) \in Nat
    BY SoldAmounts DEF SoldOf, SoldBy
  <2>6. /\ \A c : BackOf(c)' = IF c = s[2] THEN BackOf(c) \cup {d} ELSE BackOf(c)
        /\ \A i : BackBy(i)' = IF i = j THEN BackBy(i) \cup {d} ELSE BackBy(i)
    BY <1>1, <1>2, <2>1 DEF BackOf, BackBy, InstructorFor
  <2>7. (\A c : BackOf(c) \in SUBSET reversed) /\ (\A i : BackBy(i) \in SUBSET reversed)
    BY DEF BackOf, BackBy
  <2>8. \A c \in Courses : course'[c].revenue =
          course[c].revenue - (IF c = s[2] THEN amount ELSE 0)
    BY <1>1, <2>1 DEF CourseTotals, TypeOK
  <2>9. \A i \in Instructors : profile'[i].revenue =
          IF i = j THEN profile[i].revenue + (-1) * amount * Share ELSE profile[i].revenue
    BY <1>1, <2>1 DEF ProfileTotals, TypeOK
  <2> HIDE DEF p, d, s, j, amount
  <2>10. ASSUME NEW c \in Courses
         PROVE  course'[c].revenue = SumOver(Paying', SoldOf(c)') - SumOver(PaidBack', BackOf(c)')
    <3> DEFINE R == BackOf(c)
               a == SumOver(Paying, SoldOf(c))
    <3>1. SumOver(PaidBack, R) \in Nat /\ SumOver(PaidBack, R \cup {d}) = SumOver(PaidBack, R) + amount
      BY <2>3, <2>7
    <3>2. a \in Nat /\ SumOver(Paying', SoldOf(c)') = a
      BY <2>2, <2>4, <2>5
    <3>3. R' = IF c = s[2] THEN R \cup {d} ELSE R
      BY <2>6
    <3>4. course[c].revenue = a - SumOver(PaidBack, R)
      BY DEF Totals, CourseRevenue
    <3> HIDE DEF R, a
    <3>5. course'[c].revenue = a - SumOver(PaidBack', R')
      BY <1>1, <2>2, <2>8, <3>1, <3>2, <3>3, <3>4
    <3> QED
      BY <3>2, <3>5 DEF R
  <2>11. ASSUME NEW i \in Instructors
         PROVE  profile'[i].revenue =
                  Share * (SumOver(Paying', SoldBy(i)') - SumOver(PaidBack', BackBy(i)'))
    <3> DEFINE R == BackBy(i)
               a == SumOver(Paying, SoldBy(i))
               b == SumOver(PaidBack, R)
    <3>1. b \in Nat /\ SumOver(PaidBack, R \cup {d}) = b + amount
      BY <2>3, <2>7
    <3>2. a \in Nat /\ SumOver(Paying', SoldBy(i)') = a
      BY <2>2, <2>4, <2>5
    <3>3. R' = IF i = j THEN R \cup {d} ELSE R
      BY <2>6
    <3>4. profile[i].revenue = Share * (a - b)
      BY DEF Totals, InstructorRevenue
    <3>5. profile'[i].revenue =
            IF i = j THEN profile[i].revenue + (-1) * amount * Share ELSE profile[i].revenue
      BY <2>9
    <3> HIDE DEF R, a, b
    <3>6. profile'[i].revenue = Share * (a - SumOver(PaidBack', R'))
      <4>1. CASE i = j
        <5>1. SumOver(PaidBack', R') = b + amount
          BY <2>2, <3>1, <3>3, <4>1
        <5>2. profile'[i].revenue = Share * (a - b) + (-1) * amount * Share
          BY <3>4, <3>5, <4>1
        <5>3. Share * ((a - b) - amount) = Share * (a - b) + (-1) * amount * Share
          BY <1>1, <3>1, <3>2, ShareOfAmount
        <5>4. (a - b) - amount = a - (b + amount)
          BY <1>1, <3>1, <3>2
        <5> QED
          BY <5>1, <5>2, <5>3, <5>4
      <4>2. CASE i # j
        BY <2>2, <3>3, <3>4, <3>5, <4>2 DEF b
      <4> QED
        BY <4>1, <4>2
    <3> QED
      BY <3>2, <3>6 DEF R
  <2>12. /\ \A k \in Coupons : usedCount'[k] = Cardinality(UsedWith(k)')
         /\ \A u \in Users : /\ analytics'[u].courses = Cardinality(BoughtBy(u)')
                              /\ analytics'[u].spent = SumOver(Paying', BoughtBy(u)')
    BY <2>1, <2>2, <2>4 DEF Totals, CouponUse, BuyerTotals
  <2> QED
    BY <2>10, <2>11, <2>12
       DEF Totals, CourseRevenue, InstructorRevenue, CouponUse, BuyerTotals
<1> QED
  BY <1>4, <1>5

LEMMA TotalsStep == IInv /\ Totals /\ [Next]_vars => Totals'
<1> SUFFICES ASSUME IInv, Totals, [Next]_vars PROVE Totals'
  OBVIOUS
<1>1. CASE UNCHANGED <<enrollment, reversed, totals>>
  <2>1. Sold' = Sold
    BY <1>1 DEF Sold
  <2> QED
    BY <1>1, <2>1, TotalsSame
<1>2. \/ UNCHANGED <<enrollment, reversed, totals>>
      \/ \E w \in Workers : EnrollFreeCommit(w) \/ GrantEnroll(w) \/ RefundReverse(w)
  BY WhatChanges DEF IntentRecord, FinalizeMarkFailed, GrantSettle, IntentCollect,
     RefundDisburse, ProviderSettles
<1> QED
  BY <1>1, <1>2, TotalsFree, TotalsGrant, TotalsReverse

LEMMA TotalsInit == Init => Totals
<1> SUFFICES ASSUME Init PROVE Totals
  OBVIOUS
<1>1. /\ \A c : SoldOf(c) = {} /\ BackOf(c) = {}
      /\ \A i : SoldBy(i) = {} /\ BackBy(i) = {}
      /\ \A k : UsedWith(k) = {}
      /\ \A u : BoughtBy(u) = {}
  BY DEF Init, SoldOf, SoldBy, UsedWith, BoughtBy, BackOf, BackBy, Sold
<1>2. Cardinality({}) = 0 /\ \A f : SumOver(f, {}) = 0
  BY FS_EmptySet, SumEmpty
<1>3. /\ \A c \in Courses : course[c].revenue = 0
      /\ \A i \in Instructors : profile[i].revenue = 0
      /\ \A k \in Coupons : usedCount[k] = 0
      /\ \A u \in Users : analytics[u].courses = 0 /\ analytics[u].spent = 0
  BY DEF Init
<1>4. Share * (0 - 0) = 0
  BY ConstantsAssumption
<1>5. CourseRevenue
  BY <1>1, <1>2, <1>3 DEF CourseRevenue
<1>6. InstructorRevenue
  BY <1>1, <1>2, <1>3, <1>4 DEF InstructorRevenue
<1>7. CouponUse
  BY <1>1, <1>2, <1>3 DEF CouponUse
<1>8. BuyerTotals
  BY <1>1, <1>2, <1>3 DEF BuyerTotals
<1> QED
  BY <1>5, <1>6, <1>7, <1>8 DEF Totals

\* What the totals are for: the sums of the model.
LEMMA TotalsAddUp == IInv /\ Totals => TotalsReconcile
<1> SUFFICES ASSUME IInv, Totals PROVE TotalsReconcile
  OBVIOUS
<1>1. /\ \A c : SoldOf(c) \subseteq PaymentIds /\ BackOf(c) \subseteq Disbursements
      /\ \A i : SoldBy(i) \subseteq PaymentIds /\ BackBy(i) \subseteq Disbursements
      /\ \A u : BoughtBy(u) \subseteq PaymentIds
  BY DEF IInv, TypeOK, Sold, SoldOf, BackOf, SoldBy, BackBy, BoughtBy
<1>2. RevenueReconciles
  <2>1. ASSUME NEW c \in Courses
        PROVE  course[c].revenue =
                 MapThenSumSet(LAMBDA p : order[p].amount, SoldOf(c))
                 - MapThenSumSet(LAMBDA d : order[disbursed[d]].amount, BackOf(c))
    BY <1>1, AmountsAdd, RefundsAdd, Zenon DEF Totals, CourseRevenue
  <2>2. ASSUME NEW i \in Instructors
        PROVE  profile[i].revenue = Share *
                 (MapThenSumSet(LAMBDA p : order[p].amount, SoldBy(i))
                  - MapThenSumSet(LAMBDA d : order[disbursed[d]].amount, BackBy(i)))
    BY <1>1, AmountsAdd, RefundsAdd, Zenon DEF Totals, InstructorRevenue
  <2> QED
    BY <2>1, <2>2, Zenon DEF RevenueReconciles, SoldOf, SoldBy, BackOf, BackBy
<1>3. BuyerTotalsReconcile
  <2>1. ASSUME NEW u \in Users
        PROVE  analytics[u] = [courses |-> Cardinality(BoughtBy(u)),
                   spent |-> MapThenSumSet(LAMBDA p : order[p].amount, BoughtBy(u))]
    <3>1. analytics[u] \in [courses : Nat, spent : Nat]
      BY DEF IInv, TypeOK
    <3>2. /\ analytics[u].courses = Cardinality(BoughtBy(u))
          /\ analytics[u].spent = SumOver(Paying, BoughtBy(u))
      BY DEF Totals, BuyerTotals
    <3>3. SumOver(Paying, BoughtBy(u)) = MapThenSumSet(LAMBDA p : order[p].amount, BoughtBy(u))
      BY <1>1, AmountsAdd, Zenon
    <3>4. analytics[u] = [courses |-> Cardinality(BoughtBy(u)),
                          spent |-> SumOver(Paying, BoughtBy(u))]
      BY <3>1, <3>2
    <3> QED
      BY <3>3, <3>4, Zenon
  <2> QED
    BY <2>1, Zenon DEF BuyerTotalsReconcile, BoughtBy, Totals, CouponUse, UsedWith
<1> QED
  BY <1>2, <1>3 DEF TotalsReconcile

\* Course.totalRevenue, InstructorProfile.totalRevenue, Coupon.usedCount and
\* UserAnalytics are what the enrolments sold and the refunds recorded add up to,
\* for any prices, share and number of requests at one time.
THEOREM MoneyReconciles == Spec => []TotalsReconcile
BY Invariance, TotalsInit, TotalsStep, TotalsAddUp, PTL DEF Spec
=============================================================================
