------------------------------- MODULE Payouts -------------------------------
(***************************************************************************)
(* Payouts of the instructors' earnings                                    *)
(* (src/modules/payouts/payouts.service.ts), against the revenue that      *)
(* sales and refunds move meanwhile (modules/payments).                    *)
(*                                                                         *)
(* requestPayout is a job of a worker, one action per await.  The provider *)
(* is external: it accepts or refuses a disbursement.                      *)
(***************************************************************************)
EXTENDS Integers, FiniteSets, FiniteSetsExt

CONSTANTS
    Instructors, Phones,
    Amounts,            \* what may be asked for, after @Min and rounding
    Shares,             \* what a sale may earn the instructor
    Disbursements,      \* disbursements the provider can make (a bound)
    Workers,            \* requests in flight at once (a bound)
    MaxSales,           \* sales and refunds of an instructor (a bound)
    MaxFaults,          \* crashes and lost provider answers (a bound)
    NoPhone, Unused

ASSUME FiniteAssumption == IsFiniteSet(Disbursements) /\ IsFiniteSet(Workers)

ASSUME ConstantsAssumption ==
    /\ Amounts \subseteq Nat \ {0}
    /\ Shares \subseteq Nat
    /\ MaxSales \in Nat
    /\ MaxFaults \in Nat
    /\ NoPhone \notin Phones
    /\ Unused \notin [instructor : Instructors, phone : Phones, amount : Nat]

VARIABLES
    revenue,        \* InstructorProfile.totalRevenue
    phone,          \* InstructorProfile.payoutPhone
    payout,         \* the Payout rows, all created as 'paid'
    disbursement,   \* at the provider
    job,            \* the request each worker is executing
    faults,
    sales           \* history: each instructor's sales and what they earned

vars == <<revenue, phone, payout, disbursement, job, faults, sales>>

-----------------------------------------------------------------------------
Payments == [instructor : Instructors, phone : Phones, amount : Nat]

\* stripePayoutId holds the provider's id.
Rows == [id : Disbursements, instructor : Instructors, amount : Nat]

Idle == [at |-> "idle"]

Jobs ==
    {Idle}
    \cup [at : {"aggregate"}, instructor : Instructors, phone : Phones,
          amount : Nat, revenue : Int]
    \cup [at : {"disburse"}, instructor : Instructors, phone : Phones, amount : Nat]
    \cup [at : {"record"}, instructor : Instructors, amount : Nat, id : Disbursements]

Total(rows) == MapThenSumSet(LAMBDA r : r.amount, rows)

\* Fault: only rows still 'pending' count, and there are none.
OnlyPending(i) == 0

\* The sum over 'pending' and 'paid' rows of this instructor.
AlreadyPaid(i) == Total({r \in payout : r.instructor = i})

Init ==
    /\ revenue = [i \in Instructors |-> 0]
    /\ phone = [i \in Instructors |-> NoPhone]
    /\ payout = {}
    /\ disbursement = [d \in Disbursements |-> Unused]
    /\ job = [w \in Workers |-> Idle]
    /\ faults = 0
    /\ sales = [i \in Instructors |-> [count |-> 0, earned |-> 0]]

At(w, stage) == job[w].at = stage
Continue(w, j) == job' = [job EXCEPT ![w] = j]
Finish(w) == job' = [job EXCEPT ![w] = Idle]
Fault == faults < MaxFaults /\ faults' = faults + 1

-----------------------------------------------------------------------------
(* requestPayout *)

\* Fault: without the check of the number.
RequestUnconnected(w, i, amount) ==
    /\ job[w] = Idle
    /\ Continue(w, [at |-> "aggregate", instructor |-> i, phone |-> phone[i],
                    amount |-> amount, revenue |-> revenue[i]])
    /\ UNCHANGED <<revenue, phone, payout, disbursement, faults, sales>>

\* The profile is read once: its revenue and its number are used after awaits.
RequestPayout(w, i, amount) ==
    /\ job[w] = Idle
    /\ phone[i] # NoPhone
    /\ Continue(w, [at |-> "aggregate", instructor |-> i, phone |-> phone[i],
                    amount |-> amount, revenue |-> revenue[i]])
    /\ UNCHANGED <<revenue, phone, payout, disbursement, faults, sales>>

CheckBalance(w) ==
    /\ At(w, "aggregate")
    /\ LET j == job[w] IN
         IF j.amount > j.revenue - AlreadyPaid(j.instructor)
         THEN Finish(w)
         ELSE Continue(w, [at |-> "disburse", instructor |-> j.instructor,
                           phone |-> j.phone, amount |-> j.amount])
    /\ UNCHANGED <<revenue, phone, payout, disbursement, faults, sales>>

Accept(w, d) ==
    /\ disbursement[d] = Unused
    /\ disbursement' = [disbursement EXCEPT ![d] =
            [instructor |-> job[w].instructor, phone |-> job[w].phone,
             amount |-> job[w].amount]]

\* Fault: a refusal is logged and the payout recorded all the same.
DisburseRecordingRefusals(w) ==
    /\ At(w, "disburse")
    /\ \E d \in Disbursements :
         /\ disbursement[d] = Unused
         /\ Accept(w, d) \/ UNCHANGED disbursement
         /\ Continue(w, [at |-> "record", instructor |-> job[w].instructor,
                         amount |-> job[w].amount, id |-> d])
    /\ UNCHANGED <<revenue, phone, payout, faults, sales>>

\* Fault: the payout is over once the provider has accepted it.
DisburseUnrecorded(w) ==
    /\ At(w, "disburse")
    /\ \E d \in Disbursements : Accept(w, d)
    /\ Finish(w)
    /\ UNCHANGED <<revenue, phone, payout, faults, sales>>

\* The provider refuses, or accepts under a new id.
Disburse(w) ==
    /\ At(w, "disburse")
    /\ \/ Finish(w) /\ UNCHANGED disbursement
       \/ \E d \in Disbursements :
            /\ Accept(w, d)
            /\ Continue(w, [at |-> "record", instructor |-> job[w].instructor,
                            amount |-> job[w].amount, id |-> d])
    /\ UNCHANGED <<revenue, phone, payout, faults, sales>>

\* Accepted, but the answer is lost: "Payout failed".
LoseAnswer(w) ==
    /\ At(w, "disburse")
    /\ Fault
    /\ \E d \in Disbursements : Accept(w, d)
    /\ Finish(w)
    /\ UNCHANGED <<revenue, phone, payout, sales>>

RecordPayout(w) ==
    /\ At(w, "record")
    /\ payout' = payout \cup
          {[id |-> job[w].id, instructor |-> job[w].instructor, amount |-> job[w].amount]}
    /\ Finish(w)
    /\ UNCHANGED <<revenue, phone, disbursement, faults, sales>>

Crash(w) ==
    /\ job[w] # Idle
    /\ Fault
    /\ Finish(w)
    /\ UNCHANGED <<revenue, phone, payout, disbursement, sales>>

-----------------------------------------------------------------------------
(* What happens meanwhile *)

SavePayoutPhone(i, n) ==
    /\ phone' = [phone EXCEPT ![i] = n]
    /\ UNCHANGED <<revenue, payout, disbursement, job, faults, sales>>

\* grantEnrollment books the instructor's share.
Sell(i, share) ==
    /\ sales[i].count < MaxSales
    /\ sales' = [sales EXCEPT ![i] = [count |-> @.count + 1, earned |-> @.earned + share]]
    /\ revenue' = [revenue EXCEPT ![i] = @ + share]
    /\ UNCHANGED <<phone, payout, disbursement, job, faults>>

\* refundPayment takes it back, whether it was paid out or not.
Refund(i, share) ==
    /\ sales[i].count < MaxSales
    /\ share <= sales[i].earned
    /\ sales' = [sales EXCEPT ![i].count = @ + 1]
    /\ revenue' = [revenue EXCEPT ![i] = @ - share]
    /\ UNCHANGED <<phone, payout, disbursement, job, faults>>

Next ==
    \/ \E w \in Workers :
         \/ \E i \in Instructors, amount \in Amounts : RequestPayout(w, i, amount)
         \/ CheckBalance(w) \/ Disburse(w) \/ RecordPayout(w)
         \/ LoseAnswer(w) \/ Crash(w)
    \/ \E i \in Instructors :
         \/ \E n \in Phones : SavePayoutPhone(i, n)
         \/ \E share \in Shares : Sell(i, share) \/ Refund(i, share)

Spec == Init /\ [][Next]_vars

-----------------------------------------------------------------------------
(* Properties *)

TypeOK ==
    /\ revenue \in [Instructors -> Int]
    /\ phone \in [Instructors -> Phones \cup {NoPhone}]
    /\ payout \subseteq Rows
    /\ disbursement \in [Disbursements -> Payments \cup {Unused}]
    /\ job \in [Workers -> Jobs]
    /\ faults \in 0..MaxFaults
    /\ sales \in [Instructors -> [count : 0..MaxSales, earned : Nat]]

Made == {d \in Disbursements : disbursement[d] # Unused}
Recorded == {r.id : r \in payout}
Recording == {w \in Workers : At(w, "record")}
Lost == Made \ (Recorded \cup {job[w].id : w \in Recording})

\* Every Payout row stands for a disbursement of its own, to its instructor and
\* of its amount, and so will every row about to be written.
RowsAreDisbursed ==
    /\ \A r \in payout :
         /\ r.id \in Made
         /\ disbursement[r.id].instructor = r.instructor
         /\ disbursement[r.id].amount = r.amount
    /\ \A r, q \in payout : r.id = q.id => r = q
    /\ \A w \in Recording :
         /\ job[w].id \in Made \ Recorded
         /\ disbursement[job[w].id].instructor = job[w].instructor
         /\ disbursement[job[w].id].amount = job[w].amount
    /\ \A w, v \in Recording : job[w].id = job[v].id => w = v

\* Money that left without a row left in a fault, one disbursement for each.
OnlyFaultsLose == Cardinality(Lost) <= faults

\* The rows of Payout and the money that left are the same, but for faults.
RowsMatchDisbursements == RowsAreDisbursed /\ OnlyFaultsLose

PaidOut(i) ==
    MapThenSumSet(LAMBDA d : disbursement[d].amount,
                  {d \in Made : disbursement[d].instructor = i})

\* The balance is checked long before it is charged, yet the overdraft has a
\* limit: what an instructor ever earned, once for every request that can be
\* in flight and once for every fault.
OverdraftIsBounded ==
    \A i \in Instructors :
        PaidOut(i) <= (Cardinality(Workers) + faults) * sales[i].earned
=============================================================================
