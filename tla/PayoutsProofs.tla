---------------------------- MODULE PayoutsProofs ----------------------------
(***************************************************************************)
(* Proofs about Payouts, for any number of instructors, requests in flight *)
(* and disbursements; and about Reports, for any users, courses, prices and*)
(* calendar.                                                               *)
(***************************************************************************)
EXTENDS Payouts, Reports, FiniteSetTheorems, SumTheorems, TLAPS

USE DEF At, Continue, Finish, Fault, Idle

IInv == TypeOK /\ RowsAreDisbursed /\ OnlyFaultsLose

LEMMA JobFields ==
    ASSUME TypeOK, NEW w \in Workers
    PROVE  /\ job[w] \in Jobs
           /\ At(w, "aggregate") => /\ job[w].instructor \in Instructors
                                    /\ job[w].phone \in Phones
                                    /\ job[w].amount \in Nat
           /\ At(w, "disburse") => /\ job[w].instructor \in Instructors
                                   /\ job[w].phone \in Phones
                                   /\ job[w].amount \in Nat
           /\ At(w, "record") => /\ job[w].instructor \in Instructors
                                 /\ job[w].amount \in Nat
                                 /\ job[w].id \in Disbursements
<1>1. job[w] \in Jobs
  BY DEF TypeOK
<1>2. CASE job[w] = Idle
  BY <1>1, <1>2
<1>3. CASE job[w] \in [at : {"aggregate"}, instructor : Instructors, phone : Phones,
                       amount : Nat, revenue : Int]
  BY <1>1, <1>3
<1>4. CASE job[w] \in [at : {"disburse"}, instructor : Instructors, phone : Phones, amount : Nat]
  BY <1>1, <1>4
<1>5. CASE job[w] \in [at : {"record"}, instructor : Instructors, amount : Nat, id : Disbursements]
  BY <1>1, <1>5
<1> QED
  BY <1>1, <1>2, <1>3, <1>4, <1>5 DEF Jobs

LEMMA PaymentFields ==
    ASSUME NEW i \in Instructors, NEW n \in Phones, NEW a \in Nat
    PROVE  /\ [instructor |-> i, phone |-> n, amount |-> a] \in Payments
           /\ [instructor |-> i, phone |-> n, amount |-> a] # Unused
  BY ConstantsAssumption DEF Payments

-----------------------------------------------------------------------------
(* Types *)

LEMMA TypeStep ==
    ASSUME TypeOK, Next
    PROVE  TypeOK'
<1> USE DEF TypeOK
<1>1. ASSUME NEW w \in Workers, NEW i \in Instructors, NEW a \in Amounts, RequestPayout(w, i, a)
      PROVE  TypeOK'
  <2>1. /\ phone[i] \in Phones /\ revenue[i] \in Int /\ a \in Nat
    BY <1>1, ConstantsAssumption DEF RequestPayout
  <2>2. job' \in [Workers -> Jobs]
    BY <1>1, <2>1 DEF RequestPayout, Jobs
  <2> QED
    BY <1>1, <2>2 DEF RequestPayout
<1>2. ASSUME NEW w \in Workers, CheckBalance(w)
      PROVE  TypeOK'
  <2>1. job' \in [Workers -> Jobs]
    <3>1. \/ job' = [job EXCEPT ![w] = Idle]
          \/ job' = [job EXCEPT ![w] = [at |-> "disburse", instructor |-> job[w].instructor,
                                        phone |-> job[w].phone, amount |-> job[w].amount]]
      BY <1>2 DEF CheckBalance
    <3>2. At(w, "aggregate")
      BY <1>2 DEF CheckBalance
    <3> QED
      BY <3>1, <3>2, JobFields DEF Jobs
  <2> QED
    BY <1>2, <2>1 DEF CheckBalance
<1>3. ASSUME NEW w \in Workers, At(w, "disburse"), NEW d \in Disbursements, Accept(w, d)
      PROVE  disbursement' \in [Disbursements -> Payments \cup {Unused}]
  BY <1>3, JobFields, PaymentFields DEF Accept
<1>4. ASSUME NEW w \in Workers, Disburse(w)
      PROVE  TypeOK'
  <2>1. disbursement' \in [Disbursements -> Payments \cup {Unused}]
    BY <1>3, <1>4 DEF Disburse
  <2>2. job' \in [Workers -> Jobs]
    BY <1>4, JobFields DEF Disburse, Jobs
  <2> QED
    BY <1>4, <2>1, <2>2 DEF Disburse
<1>5. ASSUME NEW w \in Workers, LoseAnswer(w)
      PROVE  TypeOK'
  <2>1. disbursement' \in [Disbursements -> Payments \cup {Unused}]
    BY <1>3, <1>5 DEF LoseAnswer
  <2> QED
    BY <1>5, <2>1, ConstantsAssumption DEF LoseAnswer, Jobs
<1>6. ASSUME NEW w \in Workers, RecordPayout(w)
      PROVE  TypeOK'
  BY <1>6, JobFields DEF RecordPayout, Jobs, Rows
<1>7. ASSUME NEW w \in Workers, Crash(w)
      PROVE  TypeOK'
  BY <1>7, ConstantsAssumption DEF Crash, Jobs
<1>8. ASSUME NEW i \in Instructors, NEW n \in Phones, SavePayoutPhone(i, n)
      PROVE  TypeOK'
  BY <1>8 DEF SavePayoutPhone
<1>9. ASSUME NEW i \in Instructors, NEW share \in Shares, Sell(i, share) \/ Refund(i, share)
      PROVE  TypeOK'
  <2>1. share \in Nat /\ MaxSales \in Nat
    BY ConstantsAssumption
  <2>2. sales' \in [Instructors -> [count : 0..MaxSales, earned : Nat]]
    <3>1. sales[i].count \in 0..MaxSales /\ sales[i].earned \in Nat
      OBVIOUS
    <3>2. sales' = [sales EXCEPT ![i] = sales'[i]]
      BY <1>9 DEF Sell, Refund
    <3>3. sales'[i] \in [count : 0..MaxSales, earned : Nat]
      BY <1>9, <2>1, <3>1 DEF Sell, Refund
    <3> QED
      BY <3>2, <3>3
  <2>3. revenue' \in [Instructors -> Int]
    BY <1>9, <2>1 DEF Sell, Refund
  <2> QED
    BY <1>9, <2>2, <2>3 DEF Sell, Refund
<1> QED
  BY <1>1, <1>2, <1>4, <1>5, <1>6, <1>7, <1>8, <1>9 DEF Next

-----------------------------------------------------------------------------
(* Rows and disbursements *)

\* A disbursement stays as it was made.
LEMMA DisbursementsStay ==
    ASSUME TypeOK, Next, NEW d \in Made
    PROVE  d \in Made' /\ disbursement'[d] = disbursement[d]
<1>1. disbursement[d] \in Payments /\ disbursement[d] # Unused /\ d \in Disbursements
  BY DEF Made, TypeOK
<1>2. CASE disbursement'[d] = disbursement[d]
  BY <1>1, <1>2 DEF Made
<1>3. ASSUME NEW w \in Workers, NEW e \in Disbursements, Accept(w, e)
      PROVE  disbursement'[d] = disbursement[d]
  BY <1>1, <1>3 DEF Accept, TypeOK
<1>4. \/ UNCHANGED disbursement
      \/ \E w \in Workers, e \in Disbursements : Accept(w, e)
  BY DEF Next, RequestPayout, CheckBalance, Disburse, RecordPayout, LoseAnswer, Crash,
     SavePayoutPhone, Sell, Refund
<1> QED
  BY <1>1, <1>2, <1>3, <1>4 DEF Made

\* What becomes of the rows: one is recorded, or a request accepted by the
\* provider turns to recording, or those who record go on waiting.
LEMMA RowSteps ==
    ASSUME TypeOK, Next
    PROVE  \/ \E w \in Workers : RecordPayout(w)
           \/ /\ UNCHANGED payout
              /\ \/ \E w \in Workers, d \in Disbursements :
                      /\ At(w, "disburse") /\ Accept(w, d)
                      /\ Continue(w, [at |-> "record", instructor |-> job[w].instructor,
                                      amount |-> job[w].amount, id |-> d])
                 \/ \A v \in Workers : At(v, "record")' => job'[v] = job[v]
<1>1. ASSUME NEW w \in Workers, NEW i \in Instructors, NEW a \in Amounts, RequestPayout(w, i, a)
      PROVE  /\ UNCHANGED payout
             /\ \A v \in Workers : At(v, "record")' => job'[v] = job[v]
  BY <1>1 DEF RequestPayout, TypeOK
<1>2. ASSUME NEW w \in Workers, CheckBalance(w) \/ LoseAnswer(w) \/ Crash(w)
      PROVE  /\ UNCHANGED payout
             /\ \A v \in Workers : At(v, "record")' => job'[v] = job[v]
  BY <1>2 DEF CheckBalance, LoseAnswer, Crash, TypeOK
<1>3. ASSUME NEW w \in Workers, Disburse(w), Finish(w)
      PROVE  /\ UNCHANGED payout
             /\ \A v \in Workers : At(v, "record")' => job'[v] = job[v]
  BY <1>3 DEF Disburse, TypeOK
<1>4. ASSUME UNCHANGED <<job, payout>>
      PROVE  /\ UNCHANGED payout
             /\ \A v \in Workers : At(v, "record")' => job'[v] = job[v]
  BY <1>4
<1>5. \/ UNCHANGED <<job, payout>>
      \/ \E w \in Workers, i \in Instructors, a \in Amounts : RequestPayout(w, i, a)
      \/ \E w \in Workers : CheckBalance(w) \/ Disburse(w) \/ LoseAnswer(w) \/ Crash(w)
      \/ \E w \in Workers : RecordPayout(w)
  BY DEF Next, SavePayoutPhone, Sell, Refund
<1>6. ASSUME NEW w \in Workers, Disburse(w)
      PROVE  \/ Finish(w)
             \/ /\ UNCHANGED payout
                /\ At(w, "disburse")
                /\ \E d \in Disbursements :
                     /\ Accept(w, d)
                     /\ Continue(w, [at |-> "record", instructor |-> job[w].instructor,
                                     amount |-> job[w].amount, id |-> d])
  BY <1>6 DEF Disburse
<1> QED
  BY <1>1, <1>2, <1>3, <1>4, <1>5, <1>6

LEMMA RowsStep ==
    ASSUME TypeOK, RowsAreDisbursed, Next
    PROVE  RowsAreDisbursed'
<1>1. TypeOK'
  BY TypeStep
<1>2. ASSUME NEW w \in Workers, RecordPayout(w)
      PROVE  RowsAreDisbursed'
  <2> DEFINE row == [id |-> job[w].id, instructor |-> job[w].instructor, amount |-> job[w].amount]
  <2>1. /\ payout' = payout \cup {row} /\ w \in Recording /\ disbursement' = disbursement
        /\ job' = [job EXCEPT ![w] = Idle]
    BY <1>2 DEF RecordPayout, Recording
  <2>2. /\ row.id = job[w].id /\ row.instructor = job[w].instructor
        /\ row.amount = job[w].amount
    OBVIOUS
  <2>3. /\ row.id \in Made \ Recorded
        /\ disbursement[row.id].instructor = row.instructor
        /\ disbursement[row.id].amount = row.amount
    BY <2>1, <2>2 DEF RowsAreDisbursed
  <2>4. Made' = Made
    BY <2>1 DEF Made
  <2>5. /\ Recording' \subseteq Recording /\ w \notin Recording'
        /\ \A v \in Recording' : job'[v] = job[v]
    BY <2>1 DEF Recording, TypeOK
  <2>6. \A v \in Recording' : job[v].id # row.id
    BY <2>1, <2>2, <2>5 DEF RowsAreDisbursed
  <2> HIDE DEF row
  <2>7. Recorded' = Recorded \cup {row.id}
    BY <2>1 DEF Recorded
  <2>8. ASSUME NEW r \in payout'
        PROVE  /\ r.id \in Made'
               /\ disbursement'[r.id].instructor = r.instructor
               /\ disbursement'[r.id].amount = r.amount
    BY <2>1, <2>3, <2>4 DEF RowsAreDisbursed
  <2>9. ASSUME NEW r \in payout', NEW q \in payout', r.id = q.id
        PROVE  r = q
    BY <2>1, <2>3, <2>9 DEF RowsAreDisbursed, Recorded
  <2>10. ASSUME NEW v \in Recording'
         PROVE  /\ job'[v].id \in Made' \ Recorded'
                /\ disbursement'[job'[v].id].instructor = job'[v].instructor
                /\ disbursement'[job'[v].id].amount = job'[v].amount
    BY <2>1, <2>4, <2>5, <2>6, <2>7 DEF RowsAreDisbursed
  <2>11. ASSUME NEW v \in Recording', NEW u \in Recording', job'[v].id = job'[u].id
         PROVE  v = u
    BY <2>5, <2>11 DEF RowsAreDisbursed
  <2> QED
    BY <2>8, <2>9, <2>10, <2>11 DEF RowsAreDisbursed
<1>3. ASSUME UNCHANGED payout
      PROVE  /\ Recorded' = Recorded
             /\ \A r \in payout' : /\ r.id \in Made'
                                   /\ disbursement'[r.id].instructor = r.instructor
                                   /\ disbursement'[r.id].amount = r.amount
             /\ \A r, q \in payout' : r.id = q.id => r = q
  BY <1>3, DisbursementsStay DEF RowsAreDisbursed, Recorded
<1>4. ASSUME UNCHANGED payout, NEW v \in Recording, job'[v] = job[v]
      PROVE  /\ job'[v].id \in Made' \ Recorded'
             /\ disbursement'[job'[v].id].instructor = job'[v].instructor
             /\ disbursement'[job'[v].id].amount = job'[v].amount
  BY <1>3, <1>4, DisbursementsStay DEF RowsAreDisbursed
<1>5. ASSUME UNCHANGED payout, \A v \in Workers : At(v, "record")' => job'[v] = job[v]
      PROVE  RowsAreDisbursed'
  <2>1. \A v \in Recording' : v \in Recording /\ job'[v] = job[v]
    BY <1>5 DEF Recording
  <2>2. \A v, u \in Recording' : job'[v].id = job'[u].id => v = u
    BY <2>1 DEF RowsAreDisbursed
  <2> QED
    BY <1>3, <1>4, <1>5, <2>1, <2>2 DEF RowsAreDisbursed
<1>6. ASSUME NEW w \in Workers, NEW d \in Disbursements, UNCHANGED payout,
             At(w, "disburse"), Accept(w, d),
             job' = [job EXCEPT ![w] = [at |-> "record", instructor |-> job[w].instructor,
                                        amount |-> job[w].amount, id |-> d]]
      PROVE  RowsAreDisbursed'
  <2>1. /\ job'[w] = [at |-> "record", instructor |-> job[w].instructor,
                      amount |-> job[w].amount, id |-> d]
        /\ \A v \in Workers : v # w => job'[v] = job[v]
    BY <1>6 DEF TypeOK
  <2>2. /\ d \in Made' /\ d \notin Made
        /\ disbursement'[d].instructor = job[w].instructor
        /\ disbursement'[d].amount = job[w].amount
    <3>1. disbursement'[d] = [instructor |-> job[w].instructor, phone |-> job[w].phone,
                              amount |-> job[w].amount]
      BY <1>6 DEF Accept, TypeOK
    <3>2. disbursement'[d] # Unused
      BY <1>6, <3>1, JobFields, PaymentFields
    <3>3. disbursement[d] = Unused
      BY <1>6 DEF Accept
    <3> QED
      BY <3>1, <3>2, <3>3 DEF Made
  <2>3. d \notin Recorded'
    BY <1>3, <1>6, <2>2 DEF RowsAreDisbursed, Recorded
  <2>4. \A v \in Recording' : v = w \/ (v \in Recording /\ job'[v] = job[v] /\ job[v].id # d)
    BY <2>1, <2>2 DEF Recording, RowsAreDisbursed
  <2>5. ASSUME NEW v \in Recording'
        PROVE  /\ job'[v].id \in Made' \ Recorded'
               /\ disbursement'[job'[v].id].instructor = job'[v].instructor
               /\ disbursement'[job'[v].id].amount = job'[v].amount
    BY <1>4, <1>6, <2>1, <2>2, <2>3, <2>4
  <2>6. ASSUME NEW v \in Recording', NEW u \in Recording', job'[v].id = job'[u].id
        PROVE  v = u
    BY <2>1, <2>4, <2>6 DEF RowsAreDisbursed
  <2> QED
    BY <1>3, <1>6, <2>5, <2>6 DEF RowsAreDisbursed
<1> QED
  BY <1>2, <1>5, <1>6, RowSteps

-----------------------------------------------------------------------------
(* Losses *)

LEMMA LostFinite ==
    /\ IsFiniteSet(Lost)
    /\ Cardinality(Lost) \in Nat
<1>1. Lost \subseteq Disbursements
  BY DEF Lost, Made
<1> QED
  BY <1>1, FiniteAssumption, FS_Subset, FS_CardinalityType

LEMMA LossesStep ==
    ASSUME IInv, Next
    PROVE  OnlyFaultsLose'
<1>1. TypeOK /\ RowsAreDisbursed /\ OnlyFaultsLose /\ faults \in Nat
  BY ConstantsAssumption DEF IInv, TypeOK
<1>2. ASSUME Lost' \subseteq Lost, faults' \in Nat, faults <= faults'
      PROVE  OnlyFaultsLose'
  <2>1. Cardinality(Lost') <= Cardinality(Lost) /\ Cardinality(Lost') \in Nat
    BY <1>2, LostFinite, FS_Subset, FS_CardinalityType
  <2> QED
    BY <1>1, <1>2, <2>1, LostFinite DEF OnlyFaultsLose
<1>3. ASSUME NEW d, Lost' \subseteq Lost \cup {d}, faults' = faults + 1
      PROVE  OnlyFaultsLose'
  <2>1. /\ IsFiniteSet(Lost \cup {d})
        /\ Cardinality(Lost \cup {d}) \in Nat
        /\ Cardinality(Lost \cup {d}) <= Cardinality(Lost) + 1
    BY LostFinite, FS_AddElement, FS_CardinalityType
  <2>2. Cardinality(Lost') <= Cardinality(Lost \cup {d}) /\ Cardinality(Lost') \in Nat
    BY <1>3, <2>1, FS_Subset, FS_CardinalityType
  <2> QED
    BY <1>1, <1>3, <2>1, <2>2, LostFinite DEF OnlyFaultsLose
<1>4. ASSUME NEW w \in Workers, RecordPayout(w)
      PROVE  OnlyFaultsLose'
  <2>1. /\ job' = [job EXCEPT ![w] = Idle] /\ disbursement' = disbursement /\ faults' = faults
        /\ \A r \in payout : r \in payout'
        /\ [id |-> job[w].id, instructor |-> job[w].instructor, amount |-> job[w].amount] \in payout'
    BY <1>4 DEF RecordPayout
  <2>2. Made' = Made /\ Recorded \cup {job[w].id} \subseteq Recorded'
    BY <2>1 DEF Made, Recorded
  <2>3. \A v \in Recording : v = w \/ (v \in Recording' /\ job'[v] = job[v])
    BY <2>1 DEF Recording, TypeOK
  <2>4. Lost' \subseteq Lost
    BY <2>2, <2>3 DEF Lost
  <2> QED
    BY <1>1, <1>2, <2>1, <2>4
<1>5. ASSUME NEW w \in Workers, job'[w] # job[w], NEW j, job' = [job EXCEPT ![w] = j],
             UNCHANGED <<payout, disbursement>>
      PROVE  Lost' \subseteq Lost \cup {d \in {job[w].id} : At(w, "record")}
  <2>1. Made' = Made /\ Recorded' = Recorded
    BY <1>5 DEF Made, Recorded
  <2>2. \A v \in Recording : v = w \/ (v \in Recording' /\ job'[v] = job[v])
    BY <1>1, <1>5 DEF Recording, TypeOK
  <2>3. w \in Recording => At(w, "record")
    BY DEF Recording
  <2> QED
    BY <2>1, <2>2, <2>3 DEF Lost
<1>6. ASSUME NEW w \in Workers, NEW d \in Disbursements, At(w, "disburse"), Accept(w, d),
             NEW j, job' = [job EXCEPT ![w] = j], UNCHANGED payout
      PROVE  /\ Lost' \subseteq Lost \cup {d}
             /\ j.at = "record" /\ j.id = d => Lost' \subseteq Lost
  <2>1. Recorded' = Recorded /\ Made' \subseteq Made \cup {d}
    BY <1>1, <1>6 DEF Recorded, Made, Accept, TypeOK
  <2>2. \A v \in Recording : v \in Recording' /\ job'[v] = job[v]
    BY <1>1, <1>6 DEF Recording, TypeOK
  <2>3. Lost' \subseteq Lost \cup {d}
    BY <2>1, <2>2 DEF Lost
  <2>4. ASSUME j.at = "record", j.id = d
        PROVE  w \in Recording' /\ job'[w].id = d
    BY <1>1, <1>6, <2>4 DEF Recording, TypeOK
  <2>5. ASSUME j.at = "record", j.id = d
        PROVE  d \notin Lost'
    BY <2>4, <2>5 DEF Lost
  <2> QED
    BY <2>3, <2>5
<1>7. ASSUME NEW w \in Workers, Disburse(w)
      PROVE  OnlyFaultsLose'
  <2>1. faults' = faults /\ payout' = payout /\ At(w, "disburse")
    BY <1>7 DEF Disburse
  <2>2. CASE Finish(w) /\ UNCHANGED disbursement
    <3>1. job'[w] # job[w]
      BY <1>1, <2>1, <2>2 DEF TypeOK
    <3>2. Lost' \subseteq Lost
      BY <1>5, <2>1, <2>2, <3>1
    <3> QED
      BY <1>1, <1>2, <2>1, <3>2
  <2>3. CASE \E d \in Disbursements :
               /\ Accept(w, d)
               /\ job' = [job EXCEPT ![w] = [at |-> "record", instructor |-> job[w].instructor,
                                             amount |-> job[w].amount, id |-> d]]
    <3>1. PICK d \in Disbursements :
               /\ Accept(w, d)
               /\ job' = [job EXCEPT ![w] = [at |-> "record", instructor |-> job[w].instructor,
                                             amount |-> job[w].amount, id |-> d]]
      BY <2>3
    <3> DEFINE j == [at |-> "record", instructor |-> job[w].instructor,
                     amount |-> job[w].amount, id |-> d]
    <3>2. job' = [job EXCEPT ![w] = j] /\ j.at = "record" /\ j.id = d
      BY <3>1
    <3> HIDE DEF j
    <3>3. Lost' \subseteq Lost
      BY <1>6, <2>1, <3>1, <3>2
    <3> QED
      BY <1>1, <1>2, <2>1, <3>3
  <2> QED
    BY <1>7, <2>2, <2>3 DEF Disburse
<1>8. ASSUME NEW w \in Workers, LoseAnswer(w)
      PROVE  OnlyFaultsLose'
  <2>1. PICK d \in Disbursements : Accept(w, d)
    BY <1>8 DEF LoseAnswer
  <2>2. /\ job' = [job EXCEPT ![w] = Idle] /\ payout' = payout
        /\ faults' = faults + 1 /\ At(w, "disburse")
    BY <1>8 DEF LoseAnswer
  <2> QED
    BY <1>3, <1>6, <2>1, <2>2
<1>9. ASSUME NEW w \in Workers, Crash(w)
      PROVE  OnlyFaultsLose'
  <2>1. /\ job' = [job EXCEPT ![w] = Idle] /\ UNCHANGED <<payout, disbursement>>
        /\ faults' = faults + 1 /\ job[w] # Idle
    BY <1>9 DEF Crash
  <2>2. job'[w] # job[w]
    BY <1>1, <2>1 DEF TypeOK
  <2>3. Lost' \subseteq Lost \cup {job[w].id}
    BY <1>5, <2>1, <2>2
  <2> QED
    BY <1>3, <2>1, <2>3
<1>10. ASSUME NEW w \in Workers,
              \/ CheckBalance(w)
              \/ \E i \in Instructors, a \in Amounts : RequestPayout(w, i, a)
       PROVE  OnlyFaultsLose'
  <2>1. /\ \E j : job' = [job EXCEPT ![w] = j]
        /\ UNCHANGED <<payout, disbursement, faults>>
        /\ ~At(w, "record")
    BY <1>10 DEF CheckBalance, RequestPayout
  <2>2. CASE job'[w] # job[w]
    <3>1. Lost' \subseteq Lost
      BY <1>5, <2>1, <2>2
    <3> QED
      BY <1>1, <1>2, <2>1, <3>1
  <2>3. CASE job'[w] = job[w]
    <3>1. job' = job
      BY <1>1, <2>1, <2>3 DEF TypeOK
    <3>2. Lost' = Lost
      BY <2>1, <3>1 DEF Lost, Made, Recorded, Recording
    <3> QED
      BY <1>1, <1>2, <2>1, <3>2
  <2> QED
    BY <2>2, <2>3
<1>11. ASSUME NEW i \in Instructors,
              \/ \E n \in Phones : SavePayoutPhone(i, n)
              \/ \E share \in Shares : Sell(i, share) \/ Refund(i, share)
       PROVE  OnlyFaultsLose'
  <2>1. UNCHANGED <<job, payout, disbursement, faults>>
    BY <1>11 DEF SavePayoutPhone, Sell, Refund
  <2>2. Lost' = Lost
    BY <2>1 DEF Lost, Made, Recorded, Recording
  <2> QED
    BY <1>1, <1>2, <2>1, <2>2
<1> QED
  BY <1>4, <1>7, <1>8, <1>9, <1>10, <1>11 DEF Next

-----------------------------------------------------------------------------
(* The theorems *)

LEMMA IInvInit == Init => IInv
<1> SUFFICES ASSUME Init PROVE IInv
  OBVIOUS
<1>1. TypeOK
  BY ConstantsAssumption DEF Init, TypeOK, Jobs
<1>2. RowsAreDisbursed
  BY DEF Init, RowsAreDisbursed, Recording
<1>3. Lost = {}
  BY DEF Init, Lost, Made
<1>4. OnlyFaultsLose
  BY <1>3, FS_EmptySet DEF Init, OnlyFaultsLose
<1> QED
  BY <1>1, <1>2, <1>4 DEF IInv

LEMMA IInvStep == IInv /\ [Next]_vars => IInv'
<1> SUFFICES ASSUME IInv, [Next]_vars PROVE IInv'
  OBVIOUS
<1>1. CASE Next
  BY <1>1, TypeStep, RowsStep, LossesStep DEF IInv
<1>2. CASE UNCHANGED vars
  BY <1>2 DEF vars, IInv, TypeOK, RowsAreDisbursed, OnlyFaultsLose, Lost, Made, Recorded,
     Recording
<1> QED
  BY <1>1, <1>2

LEMMA PayoutInvariance == Spec => []IInv
  BY IInvInit, IInvStep, PTL DEF Spec

\* Every reachable state is well typed.
THEOREM PayoutTypes == Spec => []TypeOK
<1>1. IInv => TypeOK
  BY DEF IInv
<1> QED
  BY <1>1, PayoutInvariance, PTL

\* A Payout row is written for one disbursement the provider accepted, of the
\* same instructor and amount, and no disbursement is written twice, however
\* many requests are in flight.
THEOREM RowsMatch == Spec => []RowsAreDisbursed
<1>1. IInv => RowsAreDisbursed
  BY DEF IInv
<1> QED
  BY <1>1, PayoutInvariance, PTL

\* Money leaves without a Payout row at most once for every request that died
\* or lost the provider's answer.
THEOREM LossesAreFaults == Spec => []OnlyFaultsLose
<1>1. IInv => OnlyFaultsLose
  BY DEF IInv
<1> QED
  BY <1>1, PayoutInvariance, PTL

\* The two together: the table of payouts is what the provider disbursed, but
\* for one row at most per fault.
THEOREM RowsMatchMoney == Spec => []RowsMatchDisbursements
<1>1. IInv => RowsMatchDisbursements
  BY DEF IInv, RowsMatchDisbursements
<1> QED
  BY <1>1, PayoutInvariance, PTL

-----------------------------------------------------------------------------
(* The limit of the overdraft *)

Cost == [d \in Disbursements |-> disbursement[d].amount]
Due == [w \in Workers |-> job[w].amount]

Granted(w) == job[w].at \in {"disburse", "record"}

\* Requests of instructor i whose balance was checked, and what was booked for
\* those that are over.
Owing(i) == {w \in Workers : Granted(w) /\ job[w].instructor = i}
Booked(i) == {d \in Recorded : disbursement[d].instructor = i}

\* No single amount exceeds what the instructor ever earned.
WithinCredit ==
    /\ \A i \in Instructors : revenue[i] <= sales[i].earned
    /\ \A w \in Workers : At(w, "aggregate") => job[w].revenue <= sales[job[w].instructor].earned
    /\ \A w \in Workers : Granted(w) => job[w].amount <= sales[job[w].instructor].earned
    /\ \A d \in Made : disbursement[d].amount <= sales[disbursement[d].instructor].earned

\* What is booked and what is owed never exceed it once for every worker.
WithinCharge ==
    \A i \in Instructors :
        SumOver(Cost, Booked(i)) + SumOver(Due, Owing(i)) <= Cardinality(Workers) * sales[i].earned

LEMMA EarnedGrows ==
    ASSUME TypeOK, Next, NEW i \in Instructors
    PROVE  sales[i].earned \in Nat /\ sales'[i].earned \in Nat /\ sales[i].earned <= sales'[i].earned
<1>1. sales[i] \in [count : 0..MaxSales, earned : Nat]
  BY DEF TypeOK
<1>2. ASSUME NEW j \in Instructors, NEW share \in Shares, Sell(j, share)
      PROVE  sales'[i].earned \in Nat /\ sales[i].earned <= sales'[i].earned
  BY <1>1, <1>2, ConstantsAssumption DEF Sell, TypeOK
<1>3. ASSUME NEW j \in Instructors, NEW share \in Shares, Refund(j, share)
      PROVE  sales'[i].earned = sales[i].earned
  BY <1>1, <1>3 DEF Refund, TypeOK
<1>4. \/ UNCHANGED sales
      \/ \E j \in Instructors, share \in Shares : Sell(j, share) \/ Refund(j, share)
  BY DEF Next, RequestPayout, CheckBalance, Disburse, RecordPayout, LoseAnswer, Crash,
     SavePayoutPhone
<1> QED
  BY <1>1, <1>2, <1>3, <1>4

LEMMA GrantedFields ==
    ASSUME TypeOK, NEW w \in Workers, Granted(w)
    PROVE  job[w].instructor \in Instructors /\ job[w].amount \in Nat
BY JobFields DEF Granted

LEMMA MadeFields ==
    ASSUME TypeOK, NEW d \in Made
    PROVE  /\ d \in Disbursements
           /\ disbursement[d].instructor \in Instructors /\ disbursement[d].amount \in Nat
BY DEF TypeOK, Made, Payments

\* One request moves, or none does.
LEMMA RevenueStep ==
    ASSUME TypeOK, WithinCredit, Next, NEW i \in Instructors
    PROVE  revenue'[i] <= sales'[i].earned
<1>1. revenue[i] \in Int /\ revenue[i] <= sales[i].earned /\ sales[i].earned \in Nat
  BY DEF TypeOK, WithinCredit
<1>2. ASSUME NEW j \in Instructors, NEW share \in Shares, Sell(j, share) \/ Refund(j, share)
      PROVE  revenue'[i] <= sales'[i].earned
  <2>1. share \in Nat
    BY ConstantsAssumption
  <2>2. CASE i = j
    BY <1>1, <1>2, <2>1, <2>2 DEF Sell, Refund, TypeOK
  <2>3. CASE i # j
    BY <1>1, <1>2, <2>3 DEF Sell, Refund, TypeOK
  <2> QED
    BY <2>2, <2>3
<1>3. \/ UNCHANGED <<revenue, sales>>
      \/ \E j \in Instructors, share \in Shares : Sell(j, share) \/ Refund(j, share)
  BY DEF Next, RequestPayout, CheckBalance, Disburse, RecordPayout, LoseAnswer, Crash,
     SavePayoutPhone
<1> QED
  BY <1>1, <1>2, <1>3

\* A request was under way before, or has just read the profile; it was granted
\* before, or its balance has just been checked.
LEMMA Begun ==
    ASSUME TypeOK, Next, NEW w \in Workers, At(w, "aggregate")'
    PROVE  \/ job'[w] = job[w]
           \/ \E i \in Instructors : job'[w].instructor = i /\ job'[w].revenue = revenue[i]
<1>1. ASSUME NEW v \in Workers, NEW i \in Instructors, NEW a \in Amounts, RequestPayout(v, i, a)
      PROVE  \/ job'[w] = job[w]
             \/ job'[w].instructor = i /\ job'[w].revenue = revenue[i]
  BY <1>1 DEF RequestPayout, TypeOK
<1>2. ASSUME NEW v \in Workers, \/ CheckBalance(v) \/ Disburse(v) \/ LoseAnswer(v)
                                \/ RecordPayout(v) \/ Crash(v)
      PROVE  job'[w] = job[w]
  BY <1>2 DEF CheckBalance, Disburse, LoseAnswer, RecordPayout, Crash, TypeOK
<1>3. \/ UNCHANGED job
      \/ \E v \in Workers, i \in Instructors, a \in Amounts : RequestPayout(v, i, a)
      \/ \E v \in Workers : \/ CheckBalance(v) \/ Disburse(v) \/ LoseAnswer(v)
                            \/ RecordPayout(v) \/ Crash(v)
  BY DEF Next, SavePayoutPhone, Sell, Refund
<1> QED
  BY <1>1, <1>2, <1>3

Checked(w) ==
    /\ At(w, "aggregate")
    /\ ~ (job[w].amount > job[w].revenue - AlreadyPaid(job[w].instructor))
    /\ \A v \in Workers : v # w => job'[v] = job[v]
    /\ UNCHANGED <<payout, disbursement, sales>>

LEMMA GrantedBefore ==
    ASSUME TypeOK, Next, NEW w \in Workers, Granted(w)'
    PROVE  /\ job'[w].instructor = job[w].instructor /\ job'[w].amount = job[w].amount
           /\ Granted(w) \/ Checked(w)
<1>1. ASSUME NEW v \in Workers, NEW i \in Instructors, NEW a \in Amounts, RequestPayout(v, i, a)
      PROVE  job'[w] = job[w]
  BY <1>1 DEF RequestPayout, TypeOK, Granted
<1>2. ASSUME NEW v \in Workers, LoseAnswer(v) \/ RecordPayout(v) \/ Crash(v)
      PROVE  job'[w] = job[w]
  BY <1>2 DEF LoseAnswer, RecordPayout, Crash, TypeOK, Granted
<1>3. ASSUME NEW v \in Workers, CheckBalance(v), v # w
      PROVE  job'[w] = job[w]
  BY <1>3 DEF CheckBalance, TypeOK
<1>4. ASSUME CheckBalance(w)
      PROVE  /\ job'[w].instructor = job[w].instructor /\ job'[w].amount = job[w].amount
             /\ Checked(w)
  BY <1>4 DEF CheckBalance, TypeOK, Granted, Checked
<1>5. ASSUME NEW v \in Workers, Disburse(v)
      PROVE  /\ job'[w].instructor = job[w].instructor /\ job'[w].amount = job[w].amount
             /\ Granted(w)
  BY <1>5 DEF Disburse, TypeOK, Granted
<1>6. \/ UNCHANGED job
      \/ \E v \in Workers, i \in Instructors, a \in Amounts : RequestPayout(v, i, a)
      \/ \E v \in Workers : \/ CheckBalance(v) \/ Disburse(v) \/ LoseAnswer(v)
                            \/ RecordPayout(v) \/ Crash(v)
  BY DEF Next, SavePayoutPhone, Sell, Refund
<1>7. CASE job'[w] = job[w]
  BY <1>7 DEF Granted
<1> QED
  BY <1>1, <1>2, <1>3, <1>4, <1>5, <1>6, <1>7

LEMMA MadeSteps ==
    ASSUME TypeOK, Next, NEW d \in Made', d \notin Made
    PROVE  \E w \in Workers :
             /\ At(w, "disburse")
             /\ disbursement'[d].instructor = job[w].instructor
             /\ disbursement'[d].amount = job[w].amount
<1>1. d \in Disbursements /\ disbursement[d] = Unused /\ disbursement'[d] # Unused
  BY DEF Made
<1>2. ASSUME NEW w \in Workers, NEW e \in Disbursements, Accept(w, e)
      PROVE  /\ disbursement'[d].instructor = job[w].instructor
             /\ disbursement'[d].amount = job[w].amount
  BY <1>1, <1>2 DEF Accept, TypeOK
<1>3. \/ UNCHANGED disbursement
      \/ \E w \in Workers, e \in Disbursements : At(w, "disburse") /\ Accept(w, e)
  BY DEF Next, RequestPayout, CheckBalance, Disburse, RecordPayout, LoseAnswer, Crash,
     SavePayoutPhone, Sell, Refund
<1> QED
  BY <1>1, <1>2, <1>3

\* The sums of the code and of the invariant.
LEMMA CostsAdd ==
    ASSUME NEW S \in SUBSET Disbursements
    PROVE  MapThenSumSet(LAMBDA d : disbursement[d].amount, S) = SumOver(Cost, S)
<1> DEFINE Adds(g) == g = [s \in SUBSET S |->
               IF s = {} THEN 0
               ELSE disbursement[CHOOSE x \in s : TRUE].amount + g[s \ {CHOOSE x \in s : TRUE}]]
           h == CHOOSE g : Adds(g)
<1>1. IsFiniteSet(S)
  BY FiniteAssumption, FS_Subset
<1>2. MapThenSumSet(LAMBDA d : disbursement[d].amount, S) = h[S]
  BY DEF MapThenSumSet, MapThenFoldSet
<1>3. ASSUME NEW g
      PROVE  IsPartialSum(g, Cost, S) <=> Adds(g)
  <2>1. \A s \in SUBSET S : s # {} => Cost[First(s)] = disbursement[CHOOSE x \in s : TRUE].amount
    BY FirstIsMember DEF First, Cost
  <2> QED
    BY <2>1 DEF IsPartialSum, First
<1>4. \E g : Adds(g)
  <2> HIDE DEF Adds
  <2> QED
    BY <1>1, <1>3, PartialSumExists
<1> HIDE DEF Adds
<1>5. IsPartialSum(h, Cost, S)
  BY <1>3, <1>4
<1> QED
  BY <1>1, <1>2, <1>5, SumIs

LEMMA RowsAdd ==
    ASSUME NEW S, IsFiniteSet(S)
    PROVE  Total(S) = SumOver([r \in S |-> r.amount], S)
<1> DEFINE f == [r \in S |-> r.amount]
           Adds(g) == g = [s \in SUBSET S |->
               IF s = {} THEN 0
               ELSE (CHOOSE x \in s : TRUE).amount + g[s \ {CHOOSE x \in s : TRUE}]]
           h == CHOOSE g : Adds(g)
<1>1. Total(S) = h[S]
  BY DEF Total, MapThenSumSet, MapThenFoldSet
<1>2. ASSUME NEW g
      PROVE  IsPartialSum(g, f, S) <=> Adds(g)
  <2>1. \A s \in SUBSET S : s # {} => f[First(s)] = (CHOOSE x \in s : TRUE).amount
    BY FirstIsMember DEF First
  <2> HIDE DEF f
  <2> QED
    BY <2>1 DEF IsPartialSum, First
<1>3. \E g : Adds(g)
  <2> HIDE DEF Adds, f
  <2> QED
    BY <1>2, PartialSumExists
<1> HIDE DEF Adds, f
<1>4. IsPartialSum(h, f, S)
  BY <1>2, <1>3
<1>5. Total(S) = SumOver(f, S)
  BY <1>1, <1>4, SumIs
<1> QED
  BY <1>5 DEF f

\* The query of the 'paid' rows finds what was booked.
LEMMA AlreadyPaidIsBooked ==
    ASSUME TypeOK, RowsAreDisbursed, NEW i \in Instructors
    PROVE  /\ AlreadyPaid(i) = SumOver(Cost, Booked(i))
           /\ SumOver(Cost, Booked(i)) \in Nat
<1> DEFINE R == {r \in payout : r.instructor = i}
           f == [r \in R |-> r.amount]
           m == [r \in R |-> r.id]
<1>1. \A r \in R : /\ r.id \in Made /\ r.id \in Disbursements /\ r.amount \in Nat
                   /\ disbursement[r.id].instructor = i
                   /\ disbursement[r.id].amount = r.amount
  BY DEF RowsAreDisbursed, TypeOK, Rows
<1>2. \A r, q \in R : m[r] = m[q] => r = q
  BY DEF RowsAreDisbursed
<1>3. IsFiniteSet(R)
  <2>1. m \in Injection(R, Disbursements)
    BY <1>1, <1>2 DEF Injection, IsInjective
  <2> HIDE DEF m
  <2> QED
    BY <2>1, FiniteAssumption, FS_Injection
<1>4. {m[r] : r \in R} = Booked(i)
  <2>1. ASSUME NEW r \in R
        PROVE  m[r] \in Booked(i)
    BY <1>1 DEF Booked, Recorded
  <2>2. ASSUME NEW d \in Booked(i)
        PROVE  \E r \in R : m[r] = d
    <3>1. PICK r \in payout : r.id = d
      BY DEF Booked, Recorded
    <3>2. r \in R
      BY <3>1 DEF Booked, RowsAreDisbursed
    <3> QED
      BY <3>1, <3>2
  <2> HIDE DEF m, R
  <2> QED
    BY <2>1, <2>2
<1>5. \A r \in R : f[r] \in Nat /\ f[r] = Cost[m[r]]
  BY <1>1 DEF Cost
<1>6. AlreadyPaid(i) = SumOver(f, R)
  BY <1>3, RowsAdd DEF AlreadyPaid
<1> HIDE DEF R, f, m
<1>7. SumOver(f, R) = SumOver(Cost, {m[r] : r \in R})
  BY <1>2, <1>3, <1>5, SumRename
<1>8. SumOver(f, R) \in Nat
  BY <1>3, <1>5, SumNat
<1> QED
  BY <1>4, <1>6, <1>7, <1>8

LEMMA CreditStep ==
    ASSUME TypeOK, RowsAreDisbursed, WithinCredit, Next
    PROVE  WithinCredit'
<1>1. \A i \in Instructors : revenue'[i] <= sales'[i].earned
  BY RevenueStep
<1>2. ASSUME NEW w \in Workers, At(w, "aggregate")'
      PROVE  job'[w].revenue <= sales'[job'[w].instructor].earned
  <2>1. CASE job'[w] = job[w]
    <3>1. At(w, "aggregate")
      BY <1>2, <2>1
    <3>2. job[w].instructor \in Instructors /\ job[w].revenue \in Int
      BY <3>1 DEF TypeOK, Jobs
    <3>3. job[w].revenue <= sales[job[w].instructor].earned
      BY <3>1 DEF WithinCredit
    <3> QED
      BY <2>1, <3>2, <3>3, EarnedGrows
  <2>2. ASSUME NEW i \in Instructors, job'[w].instructor = i, job'[w].revenue = revenue[i]
        PROVE  job'[w].revenue <= sales'[job'[w].instructor].earned
    <3>1. revenue[i] \in Int /\ revenue[i] <= sales[i].earned
      BY DEF TypeOK, WithinCredit
    <3> QED
      BY <2>2, <3>1, EarnedGrows
  <2> QED
    BY <1>2, <2>1, <2>2, Begun
<1>3. ASSUME NEW w \in Workers, Granted(w)'
      PROVE  job'[w].amount <= sales'[job'[w].instructor].earned
  <2>1. job'[w].instructor = job[w].instructor /\ job'[w].amount = job[w].amount
    BY <1>3, GrantedBefore
  <2>2. CASE Granted(w)
    <3>1. /\ job[w].instructor \in Instructors /\ job[w].amount \in Nat
          /\ job[w].amount <= sales[job[w].instructor].earned
      BY <2>2, GrantedFields DEF WithinCredit
    <3> QED
      BY <2>1, <3>1, EarnedGrows
  <2>3. CASE Checked(w)
    <3>1. job[w].instructor \in Instructors /\ job[w].revenue \in Int /\ job[w].amount \in Nat
      BY <2>3 DEF TypeOK, Jobs, Checked
    <3>2. AlreadyPaid(job[w].instructor) \in Nat
      BY <3>1, AlreadyPaidIsBooked
    <3>3. job[w].revenue <= sales[job[w].instructor].earned
      BY <2>3 DEF WithinCredit, Checked
    <3> QED
      BY <2>1, <2>3, <3>1, <3>2, <3>3, EarnedGrows DEF Checked
  <2> QED
    BY <1>3, <2>2, <2>3, GrantedBefore
<1>4. ASSUME NEW d \in Made'
      PROVE  disbursement'[d].amount <= sales'[disbursement'[d].instructor].earned
  <2>1. CASE d \in Made
    <3>1. /\ disbursement'[d] = disbursement[d] /\ disbursement[d].amount \in Nat
          /\ disbursement[d].instructor \in Instructors
          /\ disbursement[d].amount <= sales[disbursement[d].instructor].earned
      BY <2>1, DisbursementsStay, MadeFields DEF WithinCredit
    <3>2. disbursement[d].amount <= sales'[disbursement[d].instructor].earned
      BY <3>1, EarnedGrows
    <3> QED
      BY <3>1, <3>2
  <2>2. CASE d \notin Made
    <3>1. PICK w \in Workers : /\ At(w, "disburse")
                               /\ disbursement'[d].instructor = job[w].instructor
                               /\ disbursement'[d].amount = job[w].amount
      BY <2>2, MadeSteps
    <3>2. /\ job[w].instructor \in Instructors /\ job[w].amount \in Nat
          /\ job[w].amount <= sales[job[w].instructor].earned
      BY <3>1, GrantedFields DEF WithinCredit, Granted
    <3>3. job[w].amount <= sales'[job[w].instructor].earned
      BY <3>2, EarnedGrows
    <3> QED
      BY <3>1, <3>3
  <2> QED
    BY <2>1, <2>2
<1> QED
  BY <1>1, <1>2, <1>3, <1>4 DEF WithinCredit

LEMMA OwingFinite ==
    ASSUME TypeOK, NEW i \in Instructors, NEW S \in SUBSET Owing(i)
    PROVE  IsFiniteSet(S) /\ \A w \in S : Due[w] \in Nat
<1>1. S \in SUBSET Workers /\ \A w \in S : Granted(w)
  BY DEF Owing
<1> QED
  BY <1>1, FiniteAssumption, FS_Subset, GrantedFields DEF Due

LEMMA BookedFinite ==
    ASSUME TypeOK, RowsAreDisbursed, NEW i \in Instructors
    PROVE  /\ IsFiniteSet(Booked(i)) /\ \A d \in Booked(i) : d \in Made /\ Cost[d] \in Nat
<1>1. Booked(i) \in SUBSET Disbursements /\ \A d \in Booked(i) : d \in Made
  BY MadeFields DEF Booked, Recorded, RowsAreDisbursed
<1> QED
  BY <1>1, FiniteAssumption, FS_Subset, MadeFields DEF Cost

\* The requests that go on owe what they owed.
LEMMA OwingSum ==
    ASSUME TypeOK, Next, NEW i \in Instructors, NEW S \in SUBSET Owing(i),
           NEW T \in SUBSET S, T \subseteq Owing(i)'
    PROVE  /\ SumOver(Due', T) = SumOver(Due, T)
           /\ SumOver(Due, T) \in Nat /\ SumOver(Due, S) \in Nat
           /\ SumOver(Due, T) <= SumOver(Due, S)
<1> DEFINE f == Due'
<1>1. \A w \in T : f[w] = Due[w]
  BY GrantedBefore DEF Owing, Due
<1>2. /\ IsFiniteSet(S) /\ IsFiniteSet(T)
      /\ \A w \in S : Due[w] \in Nat
  BY OwingFinite
<1> HIDE DEF f
<1>3. SumOver(f, T) = SumOver(Due, T)
  BY <1>1, <1>2, SumAgree
<1>4. SumOver(Due, T) \in Nat /\ SumOver(Due, S) \in Nat
  BY <1>2, SumNat
<1>5. SumOver(Due, T) <= SumOver(Due, S)
  BY <1>2, SumSubset
<1> QED
  BY <1>3, <1>4, <1>5 DEF f

\* What is booked stays so.
LEMMA BookedSum ==
    ASSUME TypeOK, RowsAreDisbursed, Next, NEW i \in Instructors
    PROVE  /\ SumOver(Cost', Booked(i)) = SumOver(Cost, Booked(i))
           /\ UNCHANGED payout => Booked(i)' = Booked(i)
<1> DEFINE f == Cost'
<1>1. \A d \in Booked(i) : d \in Made /\ disbursement'[d] = disbursement[d]
  BY BookedFinite, DisbursementsStay
<1>2. \A d \in Booked(i) : f[d] = Cost[d]
  BY <1>1, MadeFields DEF Cost
<1> HIDE DEF f
<1>3. SumOver(f, Booked(i)) = SumOver(Cost, Booked(i))
  BY <1>2, BookedFinite, SumAgree
<1>4. ASSUME UNCHANGED payout
      PROVE  Booked(i)' = Booked(i)
  <2>1. Recorded' = Recorded
    BY <1>4 DEF Recorded
  <2>2. \A d \in Recorded : disbursement'[d] = disbursement[d]
    BY DisbursementsStay DEF Recorded, RowsAreDisbursed
  <2> QED
    BY <2>1, <2>2 DEF Booked
<1> QED
  BY <1>3, <1>4 DEF f

\* Whose request is granted now, if anyone's, and whose is booked.
LEMMA OwingStep ==
    ASSUME TypeOK, Next, NEW i \in Instructors
    PROVE  \/ /\ Owing(i)' \subseteq Owing(i)
              /\ \/ UNCHANGED payout
                 \/ \E w \in Workers : RecordPayout(w)
           \/ \E w \in Workers : /\ Checked(w) /\ job[w].instructor = i
                                 /\ Owing(i)' \subseteq Owing(i) \cup {w}
<1>1. \A w \in Owing(i)' : w \in Owing(i) \/ (Checked(w) /\ job[w].instructor = i)
  BY GrantedBefore DEF Owing
<1>2. CASE \E w \in Workers : Checked(w) /\ job[w].instructor = i
  <2>1. PICK w \in Workers : Checked(w) /\ job[w].instructor = i
    BY <1>2
  <2>2. \A v \in Workers : v # w => job'[v] = job[v]
    BY <2>1 DEF Checked
  <2>3. \A v \in Owing(i)' : v = w \/ v \in Owing(i)
    BY <2>2 DEF Owing, Granted
  <2> QED
    BY <2>1, <2>3
<1>3. CASE ~ \E w \in Workers : Checked(w) /\ job[w].instructor = i
  <2>1. Owing(i)' \subseteq Owing(i)
    BY <1>1, <1>3 DEF Owing
  <2> QED
    BY <2>1, RowSteps
<1> QED
  BY <1>2, <1>3

\* A request whose balance has just been checked: it and what was booked fit in
\* the revenue it read, and every other request in one such amount.
LEMMA ChargeChecked ==
    ASSUME TypeOK, RowsAreDisbursed, WithinCredit, Next,
           NEW i \in Instructors, NEW w \in Workers, Checked(w), job[w].instructor = i,
           Owing(i)' \subseteq Owing(i) \cup {w}
    PROVE  SumOver(Cost', Booked(i)') + SumOver(Due', Owing(i)')
             <= Cardinality(Workers) * sales[i].earned
<1> DEFINE f == Due'
           S == Owing(i)' \ {w}
           e == sales[i].earned
           n == Cardinality(Workers)
<1>1. e \in Nat /\ n \in Nat \ {0}
  BY EarnedGrows, FiniteAssumption, FS_CardinalityType, FS_EmptySet
<1>2. S \in SUBSET Owing(i) /\ S \subseteq Owing(i)' /\ w \notin S
  OBVIOUS
<1>3. /\ job[w].amount \in Nat /\ job[w].revenue \in Int
      /\ job[w].amount + SumOver(Cost, Booked(i)) <= e
  <2>1. job[w].revenue \in Int /\ job[w].amount \in Nat
    BY DEF TypeOK, Jobs, Checked
  <2>2. AlreadyPaid(i) = SumOver(Cost, Booked(i)) /\ SumOver(Cost, Booked(i)) \in Nat
    BY AlreadyPaidIsBooked
  <2>3. job[w].revenue <= e /\ ~ (job[w].amount > job[w].revenue - AlreadyPaid(i))
    BY DEF WithinCredit, Checked
  <2> QED
    BY <1>1, <2>1, <2>2, <2>3
<1>4. SumOver(Due, S) \in Nat /\ SumOver(Due, S) <= (n - 1) * e
  <2>1. IsFiniteSet(S) /\ \A v \in S : Due[v] \in Nat
    BY <1>2, OwingFinite
  <2>2. \A v \in S : Due[v] <= e
    BY <1>2 DEF WithinCredit, Owing, Due
  <2>3. SumOver(Due, S) \in Nat /\ SumOver(Due, S) <= Cardinality(S) * e
    <3> HIDE DEF S, e
    <3> QED
      BY <1>1, <2>1, <2>2, SumNat, SumBound
  <2>4. Cardinality(S) <= n - 1 /\ Cardinality(S) \in Nat
    <3>1. S \in SUBSET (Workers \ {w})
      BY DEF Owing
    <3>2. IsFiniteSet(Workers \ {w}) /\ Cardinality(Workers \ {w}) = n - 1
      BY FiniteAssumption, FS_RemoveElement
    <3> QED
      BY <3>1, <3>2, FS_Subset, FS_CardinalityType
  <2>5. Cardinality(S) * e <= (n - 1) * e
    <3> DEFINE c == Cardinality(S)
    <3> HIDE DEF S, e, n, c
    <3>1. c \in Nat /\ n - 1 \in Nat /\ c <= n - 1
      BY <1>1, <2>4 DEF c
    <3>2. ASSUME NEW a \in Nat, NEW b \in Nat, a <= b
          PROVE  a * e <= b * e
      <4>1. PICK k \in Nat : b = a + k
        BY <3>2
      <4>2. b * e = a * e + k * e /\ k * e \in Nat /\ a * e \in Nat
        BY <1>1, <4>1
      <4> QED
        BY <4>2
    <3> QED
      BY <3>1, <3>2 DEF c
  <2>6. Cardinality(S) * e \in Nat /\ (n - 1) * e \in Nat
    BY <1>1, <2>4
  <2> QED
    BY <2>3, <2>5, <2>6
<1>5. f[w] = job[w].amount \/ w \notin Owing(i)'
  BY GrantedBefore DEF Owing, Due
<1>6. SumOver(f, S) = SumOver(Due, S)
  BY <1>2, OwingSum
<1>7. SumOver(f, Owing(i)') <= SumOver(Due, S) + job[w].amount /\ SumOver(f, Owing(i)') \in Nat
  <2>1. CASE w \notin Owing(i)'
    <3>1. Owing(i)' = S
      BY <2>1
    <3>2. SumOver(f, Owing(i)') = SumOver(Due, S)
      BY <1>6, <3>1, Zenon
    <3> HIDE DEF f, S
    <3> QED
      BY <1>3, <1>4, <3>2
  <2>2. CASE w \in Owing(i)'
    <3>1. Owing(i)' = S \cup {w}
      BY <2>2
    <3>2. IsFiniteSet(S) /\ \A v \in S \cup {w} : f[v] \in Int
      <4>1. IsFiniteSet(S) /\ \A v \in S : Due[v] \in Nat
        BY <1>2, OwingFinite
      <4>2. \A v \in S : f[v] = Due[v]
        BY <1>2, GrantedBefore DEF Owing, Due
      <4>3. f[w] \in Int
        BY <1>3, <1>5, <2>2
      <4> HIDE DEF f, S
      <4> QED
        BY <4>1, <4>2, <4>3
    <3>3. SumOver(f, S \cup {w}) = SumOver(f, S) + f[w]
      <4> HIDE DEF f, S
      <4> QED
        BY <1>2, <3>2, SumAdd
    <3>4. SumOver(f, Owing(i)') = SumOver(f, S) + f[w]
      BY <3>1, <3>3, Zenon
    <3>5. f[w] = job[w].amount
      BY <1>5, <2>2
    <3> HIDE DEF f, S
    <3> QED
      BY <1>3, <1>4, <1>6, <3>4, <3>5
  <2> QED
    BY <2>1, <2>2
<1>8. /\ SumOver(Cost', Booked(i)') = SumOver(Cost, Booked(i)) /\ SumOver(Cost, Booked(i)) \in Nat
  <2>1. Booked(i)' = Booked(i)
    BY BookedSum DEF Checked
  <2>2. SumOver(Cost', Booked(i)) = SumOver(Cost, Booked(i))
    BY BookedSum
  <2> QED
    BY <2>1, <2>2, AlreadyPaidIsBooked, Zenon
<1>9. n * e = (n - 1) * e + e /\ (n - 1) * e \in Nat
  BY <1>1
<1> DEFINE x == SumOver(f, Owing(i)')
           y == SumOver(Cost, Booked(i))
           z == SumOver(Due, S)
<1>10. y + x <= n * e
  <2> HIDE DEF x, y, z, f, S, e
  <2>1. x <= z + job[w].amount /\ x \in Nat
    BY <1>7 DEF x, z
  <2>2. z \in Nat /\ z <= (n - 1) * e
    BY <1>4 DEF z
  <2>3. y \in Nat /\ job[w].amount + y <= e /\ job[w].amount \in Nat
    BY <1>3, <1>8 DEF y
  <2> QED
    BY <1>1, <1>9, <2>1, <2>2, <2>3
<1> QED
  BY <1>8, <1>10

\* A payout that is booked is owed no longer.
LEMMA ChargeRecorded ==
    ASSUME TypeOK, RowsAreDisbursed, Next, NEW i \in Instructors,
           NEW w \in Workers, RecordPayout(w), Owing(i)' \subseteq Owing(i)
    PROVE  SumOver(Cost', Booked(i)') + SumOver(Due', Owing(i)')
             <= SumOver(Cost, Booked(i)) + SumOver(Due, Owing(i))
<1> DEFINE f == Due'
           c == Cost'
           d == job[w].id
<1>1. /\ At(w, "record") /\ w \in Recording /\ w \notin Owing(i)'
      /\ disbursement' = disbursement /\ Recorded' = Recorded \cup {d}
  <2>1. At(w, "record") /\ w \in Recording /\ disbursement' = disbursement
    BY DEF RecordPayout, Recording
  <2>2. job'[w].at = "idle"
    BY DEF RecordPayout, TypeOK
  <2>3. w \notin Owing(i)'
    BY <2>2 DEF Owing, Granted
  <2>4. Recorded' = Recorded \cup {d}
    <3> DEFINE row == [id |-> d, instructor |-> job[w].instructor, amount |-> job[w].amount]
    <3>1. payout' = payout \cup {row} /\ row.id = d
      BY DEF RecordPayout
    <3> HIDE DEF row, d
    <3> QED
      BY <3>1 DEF Recorded
  <2> QED
    BY <2>1, <2>3, <2>4
<1>2. /\ d \in Made \ Recorded /\ d \in Disbursements
      /\ disbursement[d].instructor = job[w].instructor /\ disbursement[d].amount = job[w].amount
  BY <1>1, MadeFields DEF RowsAreDisbursed
<1>3. c = Cost
  BY <1>1 DEF Cost
<1>4. CASE job[w].instructor # i
  <2>1. Booked(i)' = Booked(i)
    BY <1>1, <1>2, <1>4 DEF Booked
  <2>2. SumOver(c, Booked(i)') = SumOver(Cost, Booked(i)) /\ SumOver(Cost, Booked(i)) \in Nat
    <3>1. SumOver(Cost, Booked(i)) \in Nat
      BY AlreadyPaidIsBooked
    <3>2. SumOver(c, Booked(i)') = SumOver(Cost, Booked(i))
      BY <1>3, <2>1, Zenon
    <3> HIDE DEF c
    <3> QED
      BY <3>1, <3>2
  <2> DEFINE S == Owing(i)
             T == Owing(i)'
  <2>3. SumOver(f, T) = SumOver(Due, T) /\ SumOver(Due, T) \in Nat
        /\ SumOver(Due, S) \in Nat /\ SumOver(Due, T) <= SumOver(Due, S)
    BY OwingSum
  <2>4. SumOver(c, Booked(i)') + SumOver(f, T) <= SumOver(Cost, Booked(i)) + SumOver(Due, S)
    <3> HIDE DEF S, T, f, c
    <3> QED
      BY <2>2, <2>3
  <2> QED
    BY <2>4
<1>5. CASE job[w].instructor = i
  <2> DEFINE S == Owing(i) \ {w}
             T == Owing(i)'
  <2>1. Booked(i)' = Booked(i) \cup {d} /\ d \notin Booked(i)
    BY <1>1, <1>2, <1>5 DEF Booked
  <2>2. SumOver(Cost, Booked(i) \cup {d}) = SumOver(Cost, Booked(i)) + Cost[d]
    <3>1. Cost[d] \in Nat
      BY <1>2, MadeFields DEF Cost
    <3>2. IsFiniteSet(Booked(i)) /\ \A x \in Booked(i) \cup {d} : Cost[x] \in Int
      BY <3>1, BookedFinite
    <3> QED
      BY <2>1, <3>2, SumAdd
  <2>3. SumOver(c, Booked(i)') = SumOver(Cost, Booked(i)) + Cost[d] /\ Cost[d] = job[w].amount
    <3>1. Cost[d] = job[w].amount
      BY <1>2 DEF Cost
    <3> QED
      BY <1>3, <2>1, <2>2, <3>1, Zenon
  <2>4. w \in Owing(i) /\ T \in SUBSET S /\ S \in SUBSET Owing(i)
    BY <1>1, <1>5 DEF Owing, Granted
  <2>5. SumOver(f, T) = SumOver(Due, T) /\ SumOver(Due, T) \in Nat
        /\ SumOver(Due, S) \in Nat /\ SumOver(Due, T) <= SumOver(Due, S)
    BY <2>4, OwingSum
  <2>6. SumOver(Due, Owing(i)) = SumOver(Due, S) + Due[w] /\ Due[w] = job[w].amount
    <3>1. IsFiniteSet(Owing(i)) /\ \A v \in Owing(i) : Due[v] \in Int
      BY OwingFinite
    <3>2. SumOver(Due, Owing(i)) = SumOver(Due, Owing(i) \ {w}) + Due[w]
      BY <2>4, <3>1, SumRemove
    <3> QED
      BY <3>2 DEF Due
  <2>7. SumOver(Cost, Booked(i)) \in Nat /\ job[w].amount \in Nat
    BY <1>1, AlreadyPaidIsBooked, JobFields
  <2>8. SumOver(c, Booked(i)') + SumOver(f, T) <= SumOver(Cost, Booked(i)) + SumOver(Due, Owing(i))
    <3> HIDE DEF S, T, f, c, d
    <3> QED
      BY <2>3, <2>5, <2>6, <2>7
  <2> QED
    BY <2>8
<1> QED
  BY <1>4, <1>5

LEMMA ChargeIsNatural ==
    TypeOK /\ RowsAreDisbursed
        => \A j \in Instructors : SumOver(Cost, Booked(j)) + SumOver(Due, Owing(j)) \in Nat
<1> SUFFICES ASSUME TypeOK, RowsAreDisbursed, NEW j \in Instructors
             PROVE  SumOver(Cost, Booked(j)) + SumOver(Due, Owing(j)) \in Nat
  OBVIOUS
<1>1. SumOver(Cost, Booked(j)) \in Nat
  BY AlreadyPaidIsBooked
<1>2. SumOver(Due, Owing(j)) \in Nat
  BY OwingFinite, SumNat
<1> QED
  BY <1>1, <1>2

LEMMA ChargeStep ==
    ASSUME TypeOK, RowsAreDisbursed, WithinCredit, WithinCharge, Next
    PROVE  WithinCharge'
<1> SUFFICES ASSUME NEW i \in Instructors
             PROVE  SumOver(Cost', Booked(i)') + SumOver(Due', Owing(i)')
                      <= Cardinality(Workers) * sales'[i].earned
  BY DEF WithinCharge
<1> DEFINE x == SumOver(Cost', Booked(i)') + SumOver(Due', Owing(i)')
           y == SumOver(Cost, Booked(i)) + SumOver(Due, Owing(i))
           n == Cardinality(Workers)
           e == sales[i].earned
           E == sales'[i].earned
<1>1. e \in Nat /\ E \in Nat /\ e <= E /\ n \in Nat /\ y \in Nat
  BY ChargeIsNatural, EarnedGrows, FiniteAssumption, FS_CardinalityType
<1>2. n * e \in Nat /\ n * E \in Nat /\ n * e <= n * E
  <2> HIDE DEF n, e, E
  <2>1. PICK k \in Nat : E = e + k
    BY <1>1
  <2>2. n * E = n * e + n * k /\ n * k \in Nat /\ n * e \in Nat
    BY <1>1, <2>1
  <2> QED
    BY <1>1, <2>2
<1>3. y <= n * e
  BY DEF WithinCharge
<1>4. x \in Int
  <2>1. TypeOK' /\ RowsAreDisbursed'
    BY TypeStep, RowsStep
  <2>2. (TypeOK /\ RowsAreDisbursed
           => \A j \in Instructors : SumOver(Cost, Booked(j)) + SumOver(Due, Owing(j)) \in Nat)'
    BY ChargeIsNatural, PTL
  <2> QED
    BY <2>1, <2>2
<1>5. x <= y \/ x <= n * e
  <2>1. CASE Owing(i)' \subseteq Owing(i) /\ UNCHANGED payout
    <3> DEFINE S == Owing(i)
               T == Owing(i)'
               f == Due'
    <3>1. SumOver(Cost', Booked(i)') = SumOver(Cost, Booked(i))
      BY <2>1, BookedSum, Zenon
    <3>2. /\ SumOver(f, T) = SumOver(Due, T) /\ SumOver(Due, T) \in Nat
          /\ SumOver(Due, S) \in Nat /\ SumOver(Due, T) <= SumOver(Due, S)
      BY <2>1, OwingSum
    <3>3. SumOver(Cost, Booked(i)) \in Nat
      BY AlreadyPaidIsBooked
    <3>4. SumOver(Cost, Booked(i)) + SumOver(f, T) <= SumOver(Cost, Booked(i)) + SumOver(Due, S)
      <4> HIDE DEF S, T, f
      <4> QED
        BY <3>2, <3>3
    <3> QED
      BY <3>1, <3>4
  <2>2. CASE Owing(i)' \subseteq Owing(i) /\ \E w \in Workers : RecordPayout(w)
    BY <2>2, ChargeRecorded
  <2>3. CASE \E w \in Workers : /\ Checked(w) /\ job[w].instructor = i
                                /\ Owing(i)' \subseteq Owing(i) \cup {w}
    BY <2>3, ChargeChecked
  <2> QED
    BY <2>1, <2>2, <2>3, OwingStep
<1> QED
  <2> HIDE DEF x, y
  <2>1. x <= n * E
    <3> DEFINE a == n * e
               b == n * E
    <3>1. a \in Nat /\ b \in Nat /\ a <= b /\ y <= a /\ (x <= y \/ x <= a)
      BY <1>2, <1>3, <1>5
    <3> HIDE DEF a, b
    <3>2. x <= b
      BY <1>1, <1>4, <3>1
    <3> QED
      BY <3>2 DEF b
  <2> QED
    BY <2>1 DEF x

LEMMA OverdraftInit == Init => WithinCredit /\ WithinCharge
<1> SUFFICES ASSUME Init
             PROVE  WithinCredit /\ WithinCharge
  OBVIOUS
<1>1. WithinCredit
  BY DEF Init, WithinCredit, Made, Granted
<1>2. ASSUME NEW i \in Instructors
      PROVE  SumOver(Cost, Booked(i)) + SumOver(Due, Owing(i)) <= Cardinality(Workers) * sales[i].earned
  <2>1. Booked(i) = {} /\ Owing(i) = {} /\ sales[i].earned = 0
    BY <1>2 DEF Init, Booked, Recorded, Owing, Granted
  <2>2. SumOver(Cost, Booked(i)) = 0 /\ SumOver(Due, Owing(i)) = 0
    BY <2>1, SumEmpty
  <2>3. Cardinality(Workers) \in Nat
    BY FiniteAssumption, FS_CardinalityType
  <2> QED
    BY <2>1, <2>2, <2>3
<1> QED
  BY <1>1, <1>2 DEF WithinCharge

\* The money an instructor was sent: what is booked, what is about to be, and
\* what a fault lost the row of.
LEMMA PaidOutParts ==
    ASSUME TypeOK, RowsAreDisbursed, NEW i \in Instructors
    PROVE  LET R == {w \in Recording : job[w].instructor = i}
               L == {d \in Lost : disbursement[d].instructor = i}
           IN  /\ R \subseteq Owing(i) /\ L \subseteq Lost /\ L \subseteq Disbursements
               /\ PaidOut(i) = SumOver(Cost, Booked(i)) + SumOver(Due, R) + SumOver(Cost, L)
               /\ \A d \in L : Cost[d] \in Nat
               /\ SumOver(Due, R) \in Nat /\ SumOver(Cost, L) \in Nat
<1> DEFINE R == {w \in Recording : job[w].instructor = i}
           L == {d \in Lost : disbursement[d].instructor = i}
           m == [w \in R |-> job[w].id]
           P == {d \in Made : disbursement[d].instructor = i}
           Q == {m[w] : w \in R}
           B == Booked(i)
<1>1. R \in SUBSET Owing(i)
  BY DEF Owing, Granted, Recording
<1>2. IsFiniteSet(R) /\ \A w \in R : Due[w] \in Nat
  BY <1>1, OwingFinite
<1>3. \A w \in R : /\ m[w] \in Made \ Recorded /\ m[w] \in Disbursements
                   /\ disbursement[m[w]].instructor = i /\ Cost[m[w]] = Due[w]
  BY MadeFields DEF RowsAreDisbursed, Cost, Due, Recording
<1>4. \A v, w \in R : m[v] = m[w] => v = w
  BY DEF RowsAreDisbursed
<1>5. P = (B \cup Q) \cup L
  <2>1. Q \subseteq P
    BY <1>3
  <2>2. B \subseteq P /\ L \subseteq P
    BY BookedFinite DEF Booked, Lost
  <2>3. ASSUME NEW d \in P
        PROVE  d \in (B \cup Q) \cup L
    <3>1. CASE \E w \in Recording : job[w].id = d
      <4>1. PICK w \in Recording : job[w].id = d
        BY <3>1
      <4>2. w \in R
        BY <4>1 DEF RowsAreDisbursed
      <4> QED
        BY <4>1, <4>2
    <3>2. CASE ~ \E w \in Recording : job[w].id = d
      BY <3>2 DEF Booked, Lost
    <3> QED
      BY <3>1, <3>2
  <2> HIDE DEF P, Q, L, B
  <2> QED
    BY <2>1, <2>2, <2>3
<1>6. B \cap Q = {} /\ (B \cup Q) \cap L = {}
  <2>1. \A d \in Q : d \notin Recorded /\ d \notin Lost
    BY <1>3 DEF Lost
  <2>2. \A d \in B : d \in Recorded /\ d \notin Lost
    BY DEF Booked, Lost
  <2> HIDE DEF Q, B
  <2> QED
    BY <2>1, <2>2
<1>7. P \in SUBSET Disbursements /\ \A d \in P : Cost[d] \in Nat
  BY MadeFields DEF Cost
<1>8. IsFiniteSet(B) /\ IsFiniteSet(Q) /\ IsFiniteSet(L) /\ IsFiniteSet(B \cup Q)
  <2>1. B \in SUBSET P /\ Q \in SUBSET P /\ L \in SUBSET P /\ B \cup Q \in SUBSET P
    BY <1>5
  <2>2. IsFiniteSet(P)
    BY <1>7, FiniteAssumption, FS_Subset
  <2> HIDE DEF P, Q, L, B
  <2> QED
    BY <2>1, <2>2, FS_Subset
<1>9. PaidOut(i) = SumOver(Cost, P)
  BY <1>7, CostsAdd DEF PaidOut
<1>10. SumOver(Due, R) = SumOver(Cost, Q)
  <2> HIDE DEF R, m
  <2> QED
    BY <1>2, <1>3, <1>4, SumRename
<1>11. SumOver(Cost, P) = SumOver(Cost, B) + SumOver(Cost, Q) + SumOver(Cost, L)
  <2> HIDE DEF P, Q, L, B
  <2>1. \A d \in (B \cup Q) \cup L : Cost[d] \in Int
    BY <1>5, <1>7
  <2>2. SumOver(Cost, (B \cup Q) \cup L) = SumOver(Cost, B \cup Q) + SumOver(Cost, L)
    BY <1>6, <1>8, <2>1, SumUnion
  <2>3. SumOver(Cost, B \cup Q) = SumOver(Cost, B) + SumOver(Cost, Q)
    BY <1>6, <1>8, <2>1, SumUnion
  <2> QED
    BY <1>5, <2>2, <2>3
<1>12. \A d \in L : d \in Disbursements /\ Cost[d] \in Nat
  BY <1>5, <1>7
<1>13. SumOver(Cost, L) \in Nat /\ SumOver(Due, R) \in Nat
  <2> HIDE DEF L, R
  <2> QED
    BY <1>2, <1>8, <1>12, SumNat
<1> QED
  BY <1>1, <1>9, <1>10, <1>11, <1>12, <1>13

LEMMA OverdraftFollows ==
    ASSUME IInv, WithinCredit, WithinCharge
    PROVE  OverdraftIsBounded
<1> SUFFICES ASSUME NEW i \in Instructors
             PROVE  PaidOut(i) <= (Cardinality(Workers) + faults) * sales[i].earned
  BY DEF OverdraftIsBounded
<1> DEFINE R == {w \in Recording : job[w].instructor = i}
           L == {d \in Lost : disbursement[d].instructor = i}
           e == sales[i].earned
           n == Cardinality(Workers)
<1>0. TypeOK /\ RowsAreDisbursed
  BY DEF IInv
<1>1. /\ R \in SUBSET Owing(i) /\ L \subseteq Lost /\ L \subseteq Disbursements
      /\ PaidOut(i) = SumOver(Cost, Booked(i)) + SumOver(Due, R) + SumOver(Cost, L)
      /\ \A d \in L : Cost[d] \in Nat
      /\ SumOver(Due, R) \in Nat /\ SumOver(Cost, L) \in Nat
  BY <1>0, PaidOutParts
<1>2. e \in Nat /\ n \in Nat /\ faults \in Nat
  <2>1. sales[i] \in [count : 0..MaxSales, earned : Nat] /\ faults \in 0..MaxFaults
    BY <1>0 DEF TypeOK
  <2> QED
    BY <2>1, ConstantsAssumption, FiniteAssumption, FS_CardinalityType
<1>3. SumOver(Due, R) <= SumOver(Due, Owing(i)) /\ SumOver(Due, Owing(i)) \in Nat
  <2>1. IsFiniteSet(Owing(i)) /\ \A w \in Owing(i) : Due[w] \in Nat
    BY <1>0, OwingFinite
  <2> HIDE DEF R
  <2> QED
    BY <1>1, <2>1, SumSubset, SumNat
<1>4. SumOver(Cost, L) <= faults * e
  <2>1. IsFiniteSet(L) /\ Cardinality(L) \in Nat /\ Cardinality(L) <= faults
    <3>1. IsFiniteSet(Lost)
      BY <1>0, LostFinite
    <3>2. Cardinality(Lost) <= faults
      BY DEF IInv, OnlyFaultsLose
    <3>3. IsFiniteSet(L) /\ Cardinality(L) <= Cardinality(Lost)
      BY <1>1, <3>1, FS_Subset
    <3> HIDE DEF L
    <3> QED
      BY <1>2, <3>1, <3>2, <3>3, FS_CardinalityType
  <2>2. \A d \in L : Cost[d] <= e
    <3>1. \A d \in L : d \in Made /\ disbursement[d].instructor = i
      BY DEF Lost
    <3> QED
      BY <1>1, <3>1 DEF WithinCredit, Cost
  <2>3. SumOver(Cost, L) <= Cardinality(L) * e
    <3> HIDE DEF L, e
    <3> QED
      BY <1>1, <1>2, <2>1, <2>2, SumBound
  <2> DEFINE c == Cardinality(L)
             s == SumOver(Cost, L)
  <2>4. s \in Nat /\ c \in Nat /\ c <= faults /\ s <= c * e
    BY <1>1, <2>1, <2>3
  <2> HIDE DEF L, e, c, s
  <2>5. PICK k \in Nat : faults = c + k
    BY <1>2, <2>4
  <2>6. faults * e = c * e + k * e /\ k * e \in Nat /\ c * e \in Nat
    BY <1>2, <2>4, <2>5
  <2>7. s <= faults * e
    BY <2>4, <2>6
  <2> QED
    BY <2>7 DEF s
<1>5. SumOver(Cost, Booked(i)) + SumOver(Due, Owing(i)) <= n * e
  BY DEF WithinCharge
<1>6. SumOver(Cost, Booked(i)) \in Nat
  BY <1>0, AlreadyPaidIsBooked
<1>7. (n + faults) * e = n * e + faults * e /\ n * e \in Nat /\ faults * e \in Nat
  <2> HIDE DEF n, e
  <2> QED
    BY <1>2
<1> HIDE DEF R, L, n, e
<1>8. PaidOut(i) <= (n + faults) * e
  BY <1>1, <1>3, <1>4, <1>5, <1>6, <1>7
<1> QED
  BY <1>8 DEF n, e

LEMMA OverdraftInvariance == Spec => [](IInv /\ WithinCredit /\ WithinCharge)
<1>1. Init => IInv /\ WithinCredit /\ WithinCharge
  BY IInvInit, OverdraftInit
<1>2. IInv /\ WithinCredit /\ WithinCharge /\ [Next]_vars => (IInv /\ WithinCredit /\ WithinCharge)'
  <2> SUFFICES ASSUME IInv, WithinCredit, WithinCharge, [Next]_vars
               PROVE  IInv' /\ WithinCredit' /\ WithinCharge'
    OBVIOUS
  <2>1. CASE Next
    BY <2>1, IInvStep, CreditStep, ChargeStep DEF IInv
  <2>2. CASE UNCHANGED vars
    <3>1. IInv'
      BY IInvStep
    <3>2. WithinCredit'
      BY <2>2 DEF vars, WithinCredit, Granted, Made
    <3>3. WithinCharge'
      <4>1. Cost' = Cost /\ Due' = Due
        BY <2>2 DEF vars, Cost, Due
      <4>2. \A i \in Instructors : Booked(i)' = Booked(i) /\ Owing(i)' = Owing(i)
        BY <2>2 DEF vars, Booked, Owing, Recorded, Granted
      <4> QED
        BY <2>2, <4>1, <4>2 DEF vars, WithinCharge
    <3> QED
      BY <3>1, <3>2, <3>3
  <2> QED
    BY <2>1, <2>2
<1> QED
  BY <1>1, <1>2, PTL DEF Spec

\* The balance of an instructor is checked long before it is charged, by every
\* request for itself (requestPayout), yet what was paid out stays within what
\* was ever earned, once for each request that can be in flight and once for
\* each fault.
THEOREM OverdraftBounded == Spec => []OverdraftIsBounded
<1>1. IInv /\ WithinCredit /\ WithinCharge => OverdraftIsBounded
  BY OverdraftFollows
<1> QED
  BY <1>1, OverdraftInvariance, PTL

-----------------------------------------------------------------------------
(***************************************************************************)
(* Reports                                                                 *)
(***************************************************************************)

(* Rows *)

LEMMA RowsAreFinite ==
    /\ IsFiniteSet(Learners \X Offered)
    /\ Cardinality(Learners \X Offered) = Cardinality(Learners) * Cardinality(Offered)
    /\ Cardinality(Learners) * Cardinality(Offered) \in Nat
<1>1. IsFiniteSet(Learners) /\ IsFiniteSet(Offered)
  BY ReportsAssumption
<1>2. Cardinality(Learners) \in Nat /\ Cardinality(Offered) \in Nat
  BY <1>1, FS_CardinalityType
<1> QED
  BY <1>1, <1>2, FS_Product

LEMMA CountedRows ==
    ASSUME NEW R \in SUBSET (Learners \X Offered)
    PROVE  IsFiniteSet(R) /\ Cardinality(R) \in Nat /\ Cardinality(R) \in Counted
<1>1. IsFiniteSet(R) /\ Cardinality(R) <= Cardinality(Learners \X Offered)
  BY RowsAreFinite, FS_Subset
<1> QED
  BY <1>1, RowsAreFinite, FS_CardinalityType DEF Counted

LEMMA CompletedAreSelected ==
    ASSUME NEW s
    PROVE  /\ Selected(s) \in SUBSET (Learners \X Offered)
           /\ Completed(s) \in SUBSET Selected(s)
BY DEF Selected, Completed, Enrolled

LEMMA CompletionsAreFewer ==
    ASSUME NEW s
    PROVE  /\ Cardinality(Selected(s)) \in Counted /\ Cardinality(Selected(s)) \in Nat
           /\ Cardinality(Completed(s)) \in Counted /\ Cardinality(Completed(s)) \in Nat
           /\ Cardinality(Completed(s)) <= Cardinality(Selected(s))
BY CompletedAreSelected, CountedRows, FS_Subset

LEMMA SeatFields ==
    ASSUME ReportsTypeOK, NEW x \in Enrolled
    PROVE  x \in Learners \X Offered /\ seat[x] \in Seats
BY DEF ReportsTypeOK, Enrolled

LEMMA CalendarDays == Calendar \subseteq Nat \ {0} /\ FirstDay \in Calendar
BY ReportsAssumption DEF Calendar

-----------------------------------------------------------------------------
(* The counts of a page *)

\* The count that was read is still right, unless the page knows better.
CountsStand ==
    page # NoPage /\ ~page.disturbed =>
        /\ page.enrolled # Unread /\ page.completed = Unread =>
               page.enrolled = Cardinality(Selected(page.subject))
        /\ page.completed # Unread /\ page.enrolled = Unread =>
               page.completed = Cardinality(Completed(page.subject))
        /\ page.enrolled # Unread /\ page.completed # Unread =>
               page.completed <= page.enrolled

ReportsInv == ReportsTypeOK /\ CountsStand

PageRows == [subject : Subjects, enrolled : Counted \cup {Unread},
             completed : Counted \cup {Unread}, disturbed : BOOLEAN]

LEMMA PageFields ==
    ASSUME ReportsTypeOK, page # NoPage
    PROVE  page \in PageRows
BY DEF ReportsTypeOK, PageRows

\* A step that leaves alone what the pages select leaves their counts right.
LEMMA CountsRest ==
    ASSUME ReportsInv, page' = page,
           \A s \in Subjects : Selected(s)' = Selected(s) /\ Completed(s)' = Completed(s)
    PROVE  CountsStand'
<1>1. CASE page = NoPage
  BY <1>1 DEF CountsStand
<1>2. CASE page # NoPage
  <2>1. page.subject \in Subjects
    BY <1>2, PageFields DEF PageRows, ReportsInv
  <2>2. CountsStand
    BY DEF ReportsInv
  <2>3. Selected(page.subject)' = Selected(page.subject)
        /\ Completed(page.subject)' = Completed(page.subject)
    BY <2>1
  <2> QED
    BY <2>2, <2>3 DEF CountsStand
<1> QED
  BY <1>1, <1>2

\* One that may change it says so.
LEMMA CountsDisturbed ==
    ASSUME ReportsInv, Disturbing
    PROVE  CountsStand' /\ page' \in {NoPage} \cup PageRows
<1>1. CASE page # NoPage /\ HalfRead
  <2>1. page' = [page EXCEPT !.disturbed = TRUE]
    BY <1>1 DEF Disturbing
  <2>2. page \in PageRows
    BY <1>1, PageFields DEF ReportsInv
  <2> QED
    BY <2>1, <2>2 DEF CountsStand, PageRows
<1>2. CASE ~(page # NoPage /\ HalfRead)
  <2>1. page' = page
    BY <1>2 DEF Disturbing, HalfRead
  <2>2. page' # NoPage => (page'.enrolled = Unread) = (page'.completed = Unread)
    BY <1>2, <2>1 DEF HalfRead
  <2>3. page' \in {NoPage} \cup PageRows
    BY <2>1, PageFields DEF ReportsInv
  <2> QED
    BY <2>1, <2>2, <2>3 DEF CountsStand, ReportsInv
<1> QED
  BY <1>1, <1>2

LEMMA SelectedRest ==
    ASSUME \A x \in Learners \X Offered :
               /\ seat'[x] = NoRow <=> seat[x] = NoRow
               /\ seat[x] # NoRow => /\ seat'[x].since = seat[x].since
                                     /\ seat'[x].completedAt = seat[x].completedAt
    PROVE  \A s \in Subjects : Selected(s)' = Selected(s) /\ Completed(s)' = Completed(s)
<1>1. Enrolled' = Enrolled
  BY DEF Enrolled
<1>2. ASSUME NEW s \in Subjects
      PROVE  Selected(s)' = Selected(s)
  BY <1>1 DEF Selected, Enrolled
<1> QED
  BY <1>1, <1>2 DEF Completed, Selected, Enrolled

-----------------------------------------------------------------------------
(* The actions *)

LEMMA SeatOpened ==
    ASSUME ReportsTypeOK, NEW x \in Learners \X Offered, seat' = [seat EXCEPT ![x] = NewSeat]
    PROVE  seat' \in [Learners \X Offered -> Seats \cup {NoRow}]
<1>1. NewSeat \in Seats
  BY DEF ReportsTypeOK, NewSeat, Seats
<1> QED
  BY <1>1 DEF ReportsTypeOK

LEMMA ReportsInvariance == ReportsSpec => []ReportsInv
<1>1. ReportsInit => ReportsInv
  BY CalendarDays DEF ReportsInit, ReportsInv, ReportsTypeOK, CountsStand
<1>2. ASSUME ReportsInv, [ReportsNext]_reportVars
      PROVE  ReportsInv'
  <2>0. ReportsTypeOK /\ CountsStand
    BY <1>2 DEF ReportsInv
  <2>1. ASSUME NEW x \in Learners \X Offered, CreatePayment(x)
        PROVE  ReportsInv'
    <3>1. [since |-> today, amount |-> shelf[x[2]].price, teacher |-> TeacherOf[x[2]],
           status |-> "PENDING"] \in Receipts
      <4>1. x[2] \in Offered /\ shelf[x[2]] \in [price : Prices, shown : BOOLEAN]
        BY <2>0 DEF ReportsTypeOK
      <4>2. TeacherOf[x[2]] \in Range(TeacherOf)
        BY <4>1, ReportsAssumption
      <4> QED
        BY <2>0, <4>1, <4>2 DEF ReportsTypeOK, Receipts
    <3>2. receipt' \in [Learners \X Offered -> Receipts \cup {NoRow}]
      BY <2>0, <2>1, <3>1 DEF CreatePayment, ReportsTypeOK
    <3>3. UNCHANGED <<today, shelf, lessons, seat, page>>
      BY <2>1 DEF CreatePayment
    <3> QED
      BY <1>2, <2>0, <3>2, <3>3, SelectedRest, CountsRest DEF ReportsTypeOK, ReportsInv
  <2>2. ASSUME NEW x \in Learners \X Offered, GrantEnrollment(x)
        PROVE  ReportsInv'
    <3>1. receipt[x] \in Receipts
      BY <2>0, <2>2 DEF GrantEnrollment, ReportsTypeOK
    <3>2. [receipt[x] EXCEPT !.status = "COMPLETED"] \in Receipts
      BY <3>1 DEF Receipts
    <3>3. receipt' \in [Learners \X Offered -> Receipts \cup {NoRow}]
      BY <2>0, <2>2, <3>2 DEF GrantEnrollment, ReportsTypeOK
    <3>4. UNCHANGED <<today, shelf, lessons>>
      BY <2>2 DEF GrantEnrollment
    <3>5. CASE x \in Enrolled
      <4>1. UNCHANGED <<seat, page>>
        BY <2>2, <3>5 DEF GrantEnrollment
      <4> QED
        BY <1>2, <2>0, <3>3, <3>4, <4>1, SelectedRest, CountsRest DEF ReportsTypeOK, ReportsInv
    <3>6. CASE x \notin Enrolled
      <4>1. seat' = [seat EXCEPT ![x] = NewSeat] /\ Disturbing
        BY <2>2, <3>6 DEF GrantEnrollment
      <4>2. seat' \in [Learners \X Offered -> Seats \cup {NoRow}]
        BY <2>0, <4>1, SeatOpened
      <4> QED
        BY <1>2, <2>0, <3>3, <3>4, <4>1, <4>2, CountsDisturbed DEF ReportsTypeOK, ReportsInv, PageRows
    <3> QED
      BY <3>5, <3>6
  <2>3. ASSUME NEW x \in Learners \X Offered, EnrollFree(x)
        PROVE  ReportsInv'
    <3>1. seat' = [seat EXCEPT ![x] = NewSeat] /\ Disturbing
          /\ UNCHANGED <<today, shelf, lessons, receipt>>
      BY <2>3 DEF EnrollFree
    <3>2. seat' \in [Learners \X Offered -> Seats \cup {NoRow}]
      BY <2>0, <3>1, SeatOpened
    <3> QED
      BY <1>2, <2>0, <3>1, <3>2, CountsDisturbed DEF ReportsTypeOK, ReportsInv, PageRows
  <2>4. ASSUME NEW x \in Learners \X Offered, RefundReceipt(x)
        PROVE  ReportsInv'
    <3>1. receipt[x] \in Receipts
      BY <2>0, <2>4 DEF RefundReceipt, ReportsTypeOK
    <3>2. [receipt[x] EXCEPT !.status = "REFUNDED"] \in Receipts
      BY <3>1 DEF Receipts
    <3>3. receipt' \in [Learners \X Offered -> Receipts \cup {NoRow}]
      BY <2>0, <2>4, <3>2 DEF RefundReceipt, ReportsTypeOK
    <3>4. UNCHANGED <<today, shelf, lessons, seat, page>>
      BY <2>4 DEF RefundReceipt
    <3> QED
      BY <1>2, <2>0, <3>3, <3>4, SelectedRest, CountsRest DEF ReportsTypeOK, ReportsInv
  <2>5. ASSUME NEW x \in Learners \X Offered, NEW completed \in BOOLEAN,
               ReportProgress(x, completed)
        PROVE  ReportsInv'
    <3>1. seat[x] \in Seats
      BY <2>0, <2>5, SeatFields DEF ReportProgress
    <3> DEFINE lesson == IF completed \/ seat[x].lesson = "finished" THEN "finished" ELSE "begun"
               at == IF completed /\ seat[x].completedAt = Never THEN today
                     ELSE seat[x].completedAt
    <3>2. [[seat[x] EXCEPT !.lesson = lesson] EXCEPT !.completedAt = at] \in Seats
      BY <2>0, <3>1 DEF Seats, ReportsTypeOK
    <3>3. seat' \in [Learners \X Offered -> Seats \cup {NoRow}]
      BY <2>0, <2>5, <3>1, <3>2 DEF ReportProgress, ReportsTypeOK
    <3>4. Disturbing /\ UNCHANGED <<today, shelf, lessons, receipt>>
      BY <2>5 DEF ReportProgress
    <3> QED
      BY <1>2, <2>0, <3>3, <3>4, CountsDisturbed DEF ReportsTypeOK, ReportsInv, PageRows
  <2>6. ASSUME NEW c \in Offered, RemoveLesson(c)
        PROVE  ReportsInv'
    <3>1. ASSUME NEW x \in Enrolled
          PROVE  [seat[x] EXCEPT !.lesson = "unseen"] \in Seats
      BY <2>0, SeatFields DEF Seats
    <3>2. /\ seat' = [x \in Learners \X Offered |->
                IF x \in Enrolled /\ x[2] = c THEN [seat[x] EXCEPT !.lesson = "unseen"]
                ELSE seat[x]]
          /\ lessons' = lessons \ {c} /\ UNCHANGED <<today, shelf, receipt, page>>
      BY <2>6 DEF RemoveLesson
    <3>3. seat' \in [Learners \X Offered -> Seats \cup {NoRow}]
      BY <2>0, <3>1, <3>2 DEF ReportsTypeOK
    <3>4. \A s \in Subjects : Selected(s)' = Selected(s) /\ Completed(s)' = Completed(s)
      <4>1. ASSUME NEW x \in Learners \X Offered
            PROVE  /\ seat'[x] = NoRow <=> seat[x] = NoRow
                   /\ seat[x] # NoRow => /\ seat'[x].since = seat[x].since
                                         /\ seat'[x].completedAt = seat[x].completedAt
        <5>1. CASE x \in Enrolled
          <6>1. seat[x] \in Seats
            BY <2>0, <5>1, SeatFields
          <6>2. seat'[x] = IF x[2] = c THEN [seat[x] EXCEPT !.lesson = "unseen"] ELSE seat[x]
            BY <3>2, <5>1
          <6>3. seat'[x] \in Seats
            BY <3>1, <5>1, <6>1, <6>2
          <6> QED
            BY <6>1, <6>2, <6>3, ReportsRowsAssumption DEF Seats
        <5>2. CASE x \notin Enrolled
          BY <3>2, <5>2 DEF Enrolled
        <5> QED
          BY <5>1, <5>2
      <4> QED
        BY <4>1, SelectedRest
    <3> QED
      BY <1>2, <2>0, <3>2, <3>3, <3>4, CountsRest DEF ReportsTypeOK, ReportsInv
  <2>7. ASSUME NEW c \in Offered, NEW price \in Prices, NEW shown \in BOOLEAN,
               ChangeCourse(c, price, shown)
        PROVE  ReportsInv'
    <3>1. shelf' \in [Offered -> [price : Prices, shown : BOOLEAN]]
      BY <2>0, <2>7 DEF ChangeCourse, ReportsTypeOK
    <3>2. UNCHANGED <<today, lessons, seat, receipt, page>>
      BY <2>7 DEF ChangeCourse
    <3> QED
      BY <1>2, <2>0, <3>1, <3>2, SelectedRest, CountsRest DEF ReportsTypeOK, ReportsInv
  <2>8. CASE NextDay
    <3>1. today' \in Calendar /\ UNCHANGED <<shelf, lessons, seat, receipt, page>>
      BY <2>0, <2>8, ReportsAssumption DEF NextDay, ReportsTypeOK, Calendar
    <3> QED
      BY <1>2, <2>0, <3>1, SelectedRest, CountsRest DEF ReportsTypeOK, ReportsInv
  <2>9. ASSUME NEW s \in Subjects, AskPage(s)
        PROVE  ReportsInv'
    BY <2>0, <2>9 DEF AskPage, ReportsTypeOK, CountsStand, ReportsInv
  <2>10. CASE CountEnrollments
    <3> DEFINE n == Cardinality(Selected(page.subject))
    <3>1. /\ page # NoPage /\ page.enrolled = Unread /\ page' = [page EXCEPT !.enrolled = n]
          /\ UNCHANGED <<today, shelf, lessons, seat, receipt>>
      BY <2>10 DEF CountEnrollments
    <3>2. page \in PageRows
      BY <2>0, <3>1, PageFields
    <3>3. n \in Counted /\ Cardinality(Completed(page.subject)) <= n
      BY CompletionsAreFewer
    <3>4. n # Unread
      BY CompletionsAreFewer DEF Unread
    <3>5. page'.subject = page.subject /\ page'.enrolled = n /\ page'.completed = page.completed
          /\ page'.disturbed = page.disturbed /\ page' \in PageRows
      BY <3>1, <3>2, <3>3 DEF PageRows
    <3>6. Cardinality(Selected(page.subject))' = n
      BY <3>1, <3>5 DEF Selected, Enrolled
    <3> HIDE DEF n
    <3>7. ~page.disturbed /\ page.completed # Unread => page.completed <= n
      BY <2>0, <3>1, <3>3 DEF CountsStand
    <3>8. CountsStand'
      BY <3>1, <3>4, <3>5, <3>6, <3>7 DEF CountsStand
    <3> QED
      BY <2>0, <3>1, <3>5, <3>8 DEF ReportsTypeOK, ReportsInv, PageRows
  <2>11. CASE CountCompletions
    <3> DEFINE n == Cardinality(Completed(page.subject))
    <3>1. /\ page # NoPage /\ page.completed = Unread /\ page' = [page EXCEPT !.completed = n]
          /\ UNCHANGED <<today, shelf, lessons, seat, receipt>>
      BY <2>11 DEF CountCompletions
    <3>2. page \in PageRows
      BY <2>0, <3>1, PageFields
    <3>3. n \in Counted /\ n <= Cardinality(Selected(page.subject))
      BY CompletionsAreFewer
    <3>4. n # Unread
      BY CompletionsAreFewer DEF Unread
    <3>5. page'.subject = page.subject /\ page'.completed = n /\ page'.enrolled = page.enrolled
          /\ page'.disturbed = page.disturbed /\ page' \in PageRows
      BY <3>1, <3>2, <3>3 DEF PageRows
    <3>6. Cardinality(Completed(page.subject))' = n
      BY <3>1, <3>5 DEF Completed, Selected, Enrolled
    <3> HIDE DEF n
    <3>7. ~page.disturbed /\ page.enrolled # Unread => n <= page.enrolled
      BY <2>0, <3>1, <3>3 DEF CountsStand
    <3>8. CountsStand'
      BY <3>1, <3>4, <3>5, <3>6, <3>7 DEF CountsStand
    <3> QED
      BY <2>0, <3>1, <3>5, <3>8 DEF ReportsTypeOK, ReportsInv, PageRows
  <2>12. CASE UNCHANGED reportVars
    BY <1>2, <2>0, <2>12, SelectedRest, CountsRest DEF reportVars, ReportsTypeOK, ReportsInv
  <2> QED
    BY <1>2, <2>1, <2>2, <2>3, <2>4, <2>5, <2>6, <2>7, <2>8, <2>9, <2>10, <2>11, <2>12
    DEF ReportsNext
<1> QED
  BY <1>1, <1>2, PTL DEF ReportsSpec

-----------------------------------------------------------------------------
(* Rates *)

LEMMA RoundedIsPart ==
    ASSUME NEW part \in Nat, NEW whole \in Nat, NEW parts \in Nat, part <= whole
    PROVE  Rounded(part, whole, parts) <= parts
<1>1. CASE whole = 0
  BY <1>1 DEF Rounded
<1>2. CASE whole # 0
  <2> DEFINE a == 2 * parts * part + whole
             b == 2 * whole
             q == a \div b
  <2>1. a \in Nat /\ b \in Nat \ {0}
    BY <1>2
  <2>2. a < b * (parts + 1)
    <3>1. PICK d \in Nat : whole = part + d
      <4>1. whole - part \in Nat /\ whole = part + (whole - part)
        OBVIOUS
      <4> QED
        BY <4>1
    <3>2. parts * whole = parts * part + parts * d /\ parts * d \in Nat /\ parts * part \in Nat
      BY <3>1
    <3>3. b * (parts + 1) = 2 * (parts * whole) + 2 * whole
      OBVIOUS
    <3>4. a = 2 * (parts * part) + whole
      OBVIOUS
    <3> HIDE DEF a, b
    <3> QED
      BY <1>2, <3>2, <3>3, <3>4
  <2> HIDE DEF a, b
  <2>3. q \in Nat /\ b * q <= a
    BY <2>1
  <2>4. b * q < b * (parts + 1)
    BY <2>1, <2>2, <2>3
  <2>5. q < parts + 1
    <3> HIDE DEF q
    <3>1. ASSUME parts + 1 <= q
          PROVE  b * (parts + 1) <= b * q
      BY <2>1, <2>3, <3>1
    <3> QED
      BY <2>1, <2>3, <2>4, <3>1
  <2> QED
    BY <1>2, <2>3, <2>5 DEF Rounded, a, b
<1> QED
  BY <1>1, <1>2

LEMMA RateOfSubset ==
    ASSUME NEW R \in SUBSET (Learners \X Offered), NEW Q \in SUBSET R, NEW parts \in Nat
    PROVE  Rounded(Cardinality(Q), Cardinality(R), parts) <= parts
<1>1. IsFiniteSet(R) /\ Cardinality(R) \in Nat /\ Cardinality(Q) \in Nat
  BY CountedRows
<1>2. Cardinality(Q) <= Cardinality(R)
  BY <1>1, FS_Subset
<1> QED
  BY <1>1, <1>2, RoundedIsPart

LEMMA RatesHold ==
    ASSUME ReportsInv
    PROVE  RatesAreRates
<1>1. ASSUME page # NoPage, Unread \notin {page.enrolled, page.completed}
      PROVE  page.disturbed \/ Rate(page.completed, page.enrolled) <= 10000
  <2>1. page \in PageRows
    BY <1>1, PageFields DEF ReportsInv
  <2>2. page.enrolled \in Nat /\ page.completed \in Nat
    BY <1>1, <2>1, RowsAreFinite DEF PageRows, Counted
  <2>3. page.disturbed \/ page.completed <= page.enrolled
    BY <1>1 DEF ReportsInv, CountsStand
  <2> QED
    BY <2>2, <2>3, RoundedIsPart DEF Rate
<1>2. ASSUME NEW i
      PROVE  InstructorStats(i).completionRate <= 10000
  <2> DEFINE shown == {c \in {c \in Offered : TeacherOf[c] = i} : shelf[c].shown}
             rows == {x \in Enrolled : x[2] \in shown}
             completed == {x \in rows : seat[x].completedAt # Never}
  <2>1. InstructorStats(i).completionRate = Rate(Cardinality(completed), Cardinality(rows))
    BY DEF InstructorStats, StatsOf
  <2>2. rows \in SUBSET (Learners \X Offered) /\ completed \in SUBSET rows
    BY DEF Enrolled
  <2> HIDE DEF rows, completed
  <2> QED
    BY <2>1, <2>2, RateOfSubset DEF Rate
<1>3. ASSUME NEW i, NEW days
      PROVE  InstructorCompletion(i, days) <= 10000
  <2> DEFINE rows == InstructorEnrollments(i, days)
             completed == {x \in rows : seat[x].completedAt # Never}
  <2>1. InstructorCompletion(i, days) = Rate(Cardinality(completed), Cardinality(rows))
    BY DEF InstructorCompletion
  <2>2. rows \in SUBSET (Learners \X Offered) /\ completed \in SUBSET rows
    BY CompletedAreSelected DEF InstructorEnrollments
  <2> HIDE DEF rows, completed
  <2> QED
    BY <2>1, <2>2, RateOfSubset DEF Rate
<1>4. ASSUME NEW c
      PROVE  LessonEngagement(c).rate <= 100
  <2> DEFINE views == {x \in Enrolled : x[2] = c /\ seat[x].lesson # "unseen"}
             completions == {x \in views : seat[x].lesson = "finished"}
  <2>1. LessonEngagement(c).rate = Rounded(Cardinality(completions), Cardinality(views), 100)
    BY DEF LessonEngagement
  <2>2. views \in SUBSET (Learners \X Offered) /\ completions \in SUBSET views
    BY DEF Enrolled
  <2> HIDE DEF views, completions
  <2> QED
    BY <2>1, <2>2, RateOfSubset
<1>5. ASSUME NEW x
      PROVE  StudentPercentage(x) <= 10000
  <2> DEFINE total == Cardinality({x[2]} \cap lessons)
             done == IF seat[x].lesson = "finished" THEN 1 ELSE 0
  <2>1. total = 0 \/ total = 1
    <3>1. {x[2]} \cap lessons = {} \/ {x[2]} \cap lessons = {x[2]}
      OBVIOUS
    <3> QED
      BY <3>1, FS_EmptySet, FS_Singleton
  <2>2. done \in Nat /\ done <= 1
    OBVIOUS
  <2>3. StudentPercentage(x) = Rounded(done, total, 10000)
    BY DEF StudentPercentage, Rate
  <2> HIDE DEF done, total
  <2>4. CASE total = 0
    BY <2>3, <2>4 DEF Rounded
  <2>5. CASE total = 1
    BY <2>2, <2>3, <2>5, RoundedIsPart
  <2> QED
    BY <2>1, <2>4, <2>5
<1> QED
  BY <1>1, <1>2, <1>3, <1>4, <1>5 DEF RatesAreRates

-----------------------------------------------------------------------------
(* Sums *)

LEMMA SumFunctionIs ==
    ASSUME NEW S, IsFiniteSet(S), NEW f, DOMAIN f = S
    PROVE  SumFunction(f) = SumOver(f, S)
<1> DEFINE Adds(g) == g = [s \in SUBSET S |->
               IF s = {} THEN 0
               ELSE f[CHOOSE x \in s : TRUE] + g[s \ {CHOOSE x \in s : TRUE}]]
           h == CHOOSE g : Adds(g)
<1>1. SumFunction(f) = h[S]
  BY DEF SumFunction, SumFunctionOnSet, FoldFunctionOnSet, MapThenFoldSet
<1>2. ASSUME NEW g
      PROVE  IsPartialSum(g, f, S) <=> Adds(g)
  BY DEF IsPartialSum, First
<1>3. \E g : Adds(g)
  <2> HIDE DEF Adds
  <2> QED
    BY <1>2, PartialSumExists
<1> HIDE DEF Adds
<1>4. IsPartialSum(h, f, S)
  BY <1>2, <1>3
<1> QED
  BY <1>1, <1>4, SumIs

LEMMA RangeIsFinite ==
    ASSUME NEW f, IsFiniteSet(DOMAIN f), f \in [DOMAIN f -> Range(f)]
    PROVE  IsFiniteSet(Range(f))
<1>1. f \in Surjection(DOMAIN f, Range(f))
  BY DEF Surjection, Range
<1> QED
  BY <1>1, FS_Surjection

LEMMA TeachersAreFinite ==
    /\ IsFiniteSet(Range(TeacherOf)) /\ IsFiniteSet(Range(CategoryOf))
    /\ \A c \in Offered : TeacherOf[c] \in Range(TeacherOf) /\ CategoryOf[c] \in Range(CategoryOf)
BY ReportsAssumption, RangeIsFinite

\* Counts of the parts, by a key, add up to the count of all.
LEMMA CountsAddUp ==
    ASSUME NEW S, IsFiniteSet(S), NEW K, IsFiniteSet(K), NEW key, \A x \in S : key[x] \in K,
           NEW h, h = [k \in K |-> Cardinality({x \in S : key[x] = k})]
    PROVE  SumFunction(h) = Cardinality(S)
<1>1. DOMAIN h = K
  OBVIOUS
<1>2. SumFunction(h) = SumOver(h, K)
  BY <1>1, SumFunctionIs
<1> QED
  BY <1>2, CardinalityPartition

\* Amounts of the parts, by a key, add up to the amount of all.
LEMMA AmountsAddUp ==
    ASSUME NEW S, IsFiniteSet(S), NEW K, IsFiniteSet(K), NEW key, \A x \in S : key[x] \in K,
           NEW f, \A x \in S : f[x] \in Int,
           NEW h, h = [k \in K |-> SumOver(f, {x \in S : key[x] = k})]
    PROVE  SumFunction(h) = SumOver(f, S)
<1>1. DOMAIN h = K
  OBVIOUS
<1>2. SumFunction(h) = SumOver(h, K)
  BY <1>1, SumFunctionIs
<1> QED
  BY <1>2, SumPartition

\* A function may be added over some of its arguments.
LEMMA SumOfSome ==
    ASSUME NEW S, IsFiniteSet(S), NEW f, NEW g, g = [x \in S |-> f[x]]
    PROVE  SumFunction(g) = SumOver(f, S)
<1>1. DOMAIN g = S /\ \A x \in S : g[x] = f[x]
  OBVIOUS
<1>2. SumFunction(g) = SumOver(g, S)
  BY <1>1, SumFunctionIs
<1> QED
  BY <1>1, <1>2, SumAgree

\* What a paid row is worth, and a seat at today's price.
Worth == [x \in Learners \X Offered |-> receipt[x].amount]
Priced == [x \in Learners \X Offered |-> shelf[x[2]].price]

TeacherOfRow == [x \in Learners \X Offered |-> TeacherOf[x[2]]]
CategoryOfRow == [x \in Learners \X Offered |-> CategoryOf[x[2]]]
CourseOfRow == [x \in Learners \X Offered |-> x[2]]
LearnerOfRow == [x \in Learners \X Offered |-> x[1]]

LEMMA AmountIs ==
    ASSUME NEW R \in SUBSET (Learners \X Offered)
    PROVE  AmountOf(R) = SumOver(Worth, R)
<1> DEFINE g == [x \in R |-> receipt[x].amount]
<1>1. g = [x \in R |-> Worth[x]]
  BY DEF Worth
<1>2. AmountOf(R) = SumFunction(g)
  BY DEF AmountOf
<1> HIDE DEF g
<1> QED
  BY <1>1, <1>2, CountedRows, SumOfSome

LEMMA RevenueAgrees ==
    ASSUME ReportsTypeOK, NEW days
    PROVE  SumFunction([i \in Range(TeacherOf) |-> InstructorRevenue(i, days)])
               = AmountOf(Paid(days))
<1> DEFINE S == Paid(days)
           K == Range(TeacherOf)
           key == [x \in S |-> receipt[x].teacher]
           h == [i \in K |-> InstructorRevenue(i, days)]
           part(i) == {x \in S : key[x] = i}
<1>1. S \in SUBSET (Learners \X Offered)
  BY DEF Paid
<1>2. ASSUME NEW x \in S
      PROVE  Worth[x] \in Int /\ key[x] \in K
  <2>1. x \in Learners \X Offered /\ receipt[x] \in Receipts
    BY DEF Paid, ReportsTypeOK
  <2>2. receipt[x].amount \in Nat
    BY <2>1, ReportsAssumption DEF Receipts
  <2> QED
    BY <2>1, <2>2 DEF Worth, Receipts
<1>3. ASSUME NEW i \in K
      PROVE  InstructorRevenue(i, days) = SumOver(Worth, part(i))
  <2>1. part(i) = {x \in S : receipt[x].teacher = i}
    OBVIOUS
  <2>2. part(i) \in SUBSET (Learners \X Offered)
    BY <1>1
  <2>3. InstructorRevenue(i, days) = AmountOf(part(i))
    BY <2>1 DEF InstructorRevenue
  <2> HIDE DEF part
  <2> QED
    BY <2>2, <2>3, AmountIs
<1>4. h = [i \in K |-> SumOver(Worth, part(i))]
  BY <1>3
<1>5. IsFiniteSet(S) /\ IsFiniteSet(K)
  BY <1>1, CountedRows, TeachersAreFinite
<1>6. \A x \in S : key[x] \in K
  BY <1>2
<1>7. \A x \in S : Worth[x] \in Int
  BY <1>2
<1>8. h = [i \in K |-> SumOver(Worth, {x \in S : key[x] = i})]
  BY <1>4
<1> HIDE DEF S, K, key, h, part
<1>9. SumFunction(h) = SumOver(Worth, S)
  BY <1>5, <1>6, <1>7, <1>8, AmountsAddUp
<1> QED
  BY <1>1, <1>9, AmountIs DEF S, K, h

\* Of rows, those of each teacher add up to all.
LEMMA TeachersRows ==
    ASSUME NEW S \in SUBSET (Learners \X Offered)
    PROVE  SumFunction([i \in Range(TeacherOf) |-> Cardinality({x \in S : TeacherOf[x[2]] = i})])
               = Cardinality(S)
<1> DEFINE K == Range(TeacherOf)
           h == [i \in K |-> Cardinality({x \in S : TeacherOf[x[2]] = i})]
<1>1. \A x \in S : TeacherOfRow[x] = TeacherOf[x[2]] /\ TeacherOfRow[x] \in K
  BY TeachersAreFinite DEF TeacherOfRow
<1>2. \A i : {x \in S : TeacherOf[x[2]] = i} = {x \in S : TeacherOfRow[x] = i}
  BY <1>1
<1>3. h = [i \in K |-> Cardinality({x \in S : TeacherOfRow[x] = i})]
  BY <1>2
<1>4. IsFiniteSet(S) /\ IsFiniteSet(K)
  BY CountedRows, TeachersAreFinite
<1> HIDE DEF K, h
<1>5. SumFunction(h) = Cardinality(S)
  BY <1>1, <1>3, <1>4, CountsAddUp
<1> QED
  BY <1>5 DEF K, h

\* Those of each course of a set add up to all of them.
LEMMA CoursesRows ==
    ASSUME NEW S \in SUBSET (Learners \X Offered), NEW K \in SUBSET Offered,
           \A x \in S : x[2] \in K
    PROVE  SumFunction([c \in K |-> Cardinality({x \in S : x[2] = c})]) = Cardinality(S)
<1> DEFINE h == [c \in K |-> Cardinality({x \in S : x[2] = c})]
<1>1. \A x \in S : CourseOfRow[x] = x[2] /\ CourseOfRow[x] \in K
  BY DEF CourseOfRow
<1>2. \A c : {x \in S : x[2] = c} = {x \in S : CourseOfRow[x] = c}
  BY <1>1
<1>3. h = [c \in K |-> Cardinality({x \in S : CourseOfRow[x] = c})]
  BY <1>2
<1>4. IsFiniteSet(S) /\ IsFiniteSet(K)
  BY CountedRows, FS_Subset, ReportsAssumption
<1> HIDE DEF h
<1>5. SumFunction(h) = Cardinality(S)
  BY <1>1, <1>3, <1>4, CountsAddUp
<1> QED
  BY <1>5 DEF h

LEMMA LearnersRows ==
    ASSUME NEW S \in SUBSET (Learners \X Offered)
    PROVE  SumFunction([u \in Learners |-> Cardinality({x \in S : x[1] = u})]) = Cardinality(S)
<1> DEFINE h == [u \in Learners |-> Cardinality({x \in S : x[1] = u})]
<1>1. \A x \in S : LearnerOfRow[x] = x[1] /\ LearnerOfRow[x] \in Learners
  BY DEF LearnerOfRow
<1>2. \A u : {x \in S : x[1] = u} = {x \in S : LearnerOfRow[x] = u}
  BY <1>1
<1>3. h = [u \in Learners |-> Cardinality({x \in S : LearnerOfRow[x] = u})]
  BY <1>2
<1>4. IsFiniteSet(S) /\ IsFiniteSet(Learners)
  BY CountedRows, ReportsAssumption
<1> HIDE DEF h
<1>5. SumFunction(h) = Cardinality(S)
  BY <1>1, <1>3, <1>4, CountsAddUp
<1> QED
  BY <1>5 DEF h

LEMMA TrendsAgree ==
    ASSUME NEW days, NEW interval
    PROVE  LET t == Trends(days, interval) IN
           SumFunction([k \in DOMAIN t |-> t[k].count])
               = Cardinality(Selected([page |-> "overview", period |-> days]))
<1> DEFINE S == Selected([page |-> "overview", period |-> days])
           key == [x \in S |-> BucketOf(interval, seat[x].since)]
           K == {BucketOf(interval, seat[x].since) : x \in S}
           t == Trends(days, interval)
           part(k) == {x \in S : BucketOf(interval, seat[x].since) = k}
           h == [k \in DOMAIN t |-> t[k].count]
<1>1. DOMAIN t = K /\ \A k \in K : t[k].count = Cardinality(part(k))
  <2> HIDE DEF S
  <2>1. t = [k \in K |-> [count |-> Cardinality(part(k)),
                         revenue |-> SumFunction([x \in part(k) |-> shelf[x[2]].price])]]
    BY DEF Trends, S
  <2> HIDE DEF t
  <2> QED
    BY <2>1
<1>2. h = [k \in K |-> Cardinality({x \in S : key[x] = k})]
  <2>1. \A k : part(k) = {x \in S : key[x] = k}
    OBVIOUS
  <2> HIDE DEF t, S
  <2>2. \A k \in K : t[k].count = Cardinality({x \in S : key[x] = k})
    BY <1>1, <2>1
  <2> HIDE DEF K, key, part
  <2> QED
    BY <1>1, <2>2
<1>3. IsFiniteSet(S)
  BY CompletedAreSelected, CountedRows
<1>4. IsFiniteSet(K)
  <2> HIDE DEF S
  <2>1. DOMAIN key = S /\ Range(key) = K /\ key \in [DOMAIN key -> Range(key)]
    BY DEF Range
  <2> HIDE DEF key, K
  <2> QED
    BY <1>3, <2>1, RangeIsFinite
<1>5. \A x \in S : key[x] \in K
  OBVIOUS
<1> HIDE DEF S, key, K, h, part
<1>6. SumFunction(h) = Cardinality(S)
  BY <1>2, <1>3, <1>4, <1>5, CountsAddUp
<1> QED
  BY <1>6 DEF h, S

\* Those of each category's courses add up to the courses.
LEMMA CategoriesCourses ==
    SumFunction([k \in Range(CategoryOf) |-> CategoryAnalytics(k).courses])
        = SystemStats.courses
<1> DEFINE S == {c \in Offered : shelf[c].shown}
           K == Range(CategoryOf)
           h == [k \in K |-> CategoryAnalytics(k).courses]
<1>1. \A k : CategoryAnalytics(k).courses = Cardinality({c \in S : CategoryOf[c] = k})
  <2>1. \A k : {c \in {d \in Offered : CategoryOf[d] = k} : shelf[c].shown}
                   = {c \in S : CategoryOf[c] = k}
    OBVIOUS
  <2> QED
    BY <2>1 DEF CategoryAnalytics, StatsOf
<1>2. h = [k \in K |-> Cardinality({c \in S : CategoryOf[c] = k})]
  BY <1>1
<1>3. IsFiniteSet(S) /\ IsFiniteSet(K) /\ \A c \in S : CategoryOf[c] \in K
  BY TeachersAreFinite, ReportsAssumption, FS_Subset
<1>4. SystemStats.courses = Cardinality(S)
  BY DEF SystemStats
<1> HIDE DEF S, K, h
<1>5. SumFunction(h) = Cardinality(S)
  BY <1>2, <1>3, CountsAddUp
<1> QED
  BY <1>4, <1>5 DEF K, h

\* Seats of published courses.
ShownRows == {x \in Enrolled : shelf[x[2]].shown}

LEMMA ShownAreRows ==
    ASSUME ReportsTypeOK
    PROVE  /\ ShownRows \in SUBSET (Learners \X Offered) /\ IsFiniteSet(ShownRows)
           /\ \A x \in ShownRows : Priced[x] \in Int
<1>1. ShownRows \in SUBSET (Learners \X Offered)
  BY DEF ShownRows, Enrolled
<1>2. ASSUME NEW x \in Learners \X Offered
      PROVE  Priced[x] \in Int
  <2>1. x[2] \in Offered
    OBVIOUS
  <2>2. shelf[x[2]] \in [price : Prices, shown : BOOLEAN]
    BY <2>1 DEF ReportsTypeOK
  <2>3. Prices \subseteq Nat
    BY ReportsAssumption
  <2>4. shelf[x[2]].price \in Prices
    BY <2>2
  <2>5. Priced[x] = shelf[x[2]].price
    BY DEF Priced
  <2>6. Priced[x] \in Nat
    BY <2>3, <2>4, <2>5, Zenon
  <2> QED
    BY <2>6
<1> QED
  BY <1>1, <1>2, CountedRows

\* What a set of courses earned is the worth of their seats.
LEMMA StatsRevenue ==
    ASSUME NEW C \in SUBSET Offered
    PROVE  StatsOf(C).revenue = SumOver(Priced, {x \in ShownRows : x[2] \in C})
<1> DEFINE R == {x \in ShownRows : x[2] \in C}
           rows == {x \in Enrolled : x[2] \in {c \in C : shelf[c].shown}}
           g == [x \in rows |-> shelf[x[2]].price]
<1>1. StatsOf(C).revenue = SumFunction(g)
  BY DEF StatsOf
<1>2. rows = R /\ R \in SUBSET (Learners \X Offered)
  BY DEF ShownRows, Enrolled
<1>3. g = [x \in R |-> Priced[x]]
  BY <1>2 DEF Priced
<1> HIDE DEF R, rows, g
<1>4. SumFunction(g) = SumOver(Priced, R)
  BY <1>2, <1>3, CountedRows, SumOfSome
<1> QED
  BY <1>1, <1>4 DEF R

\* So the categories earned what the instructors did.
LEMMA CategoriesRevenue ==
    ASSUME ReportsTypeOK
    PROVE  SumFunction([k \in Range(CategoryOf) |-> CategoryAnalytics(k).revenue])
               = SumOver(Priced, ShownRows)
<1> DEFINE K == Range(CategoryOf)
           h == [k \in K |-> CategoryAnalytics(k).revenue]
<1>1. \A k : CategoryAnalytics(k).revenue
                 = SumOver(Priced, {x \in ShownRows : CategoryOfRow[x] = k})
  <2> TAKE k
  <2> DEFINE C == {c \in Offered : CategoryOf[c] = k}
  <2>1. CategoryAnalytics(k).revenue = StatsOf(C).revenue
    BY DEF CategoryAnalytics
  <2>2. {x \in ShownRows : x[2] \in C} = {x \in ShownRows : CategoryOfRow[x] = k}
    BY ShownAreRows DEF CategoryOfRow
  <2> QED
    BY <2>1, <2>2, StatsRevenue
<1>2. h = [k \in K |-> SumOver(Priced, {x \in ShownRows : CategoryOfRow[x] = k})]
  BY <1>1
<1>3. IsFiniteSet(K) /\ \A x \in ShownRows : CategoryOfRow[x] \in K
  BY TeachersAreFinite, ShownAreRows DEF CategoryOfRow
<1> HIDE DEF K, h
<1>4. SumFunction(h) = SumOver(Priced, ShownRows)
  BY <1>2, <1>3, ShownAreRows, AmountsAddUp
<1> QED
  BY <1>4 DEF K, h

\* What some instructors earned is the rest of what the others' courses did not.
LEMMA TeachersRevenue ==
    ASSUME ReportsTypeOK, NEW top \in SUBSET Range(TeacherOf)
    PROVE  SumOver(Priced, ShownRows)
               = SumFunction([i \in top |-> InstructorStats(i).revenue])
                     + StatsOf({c \in Offered : TeacherOf[c] \notin top}).revenue
<1> DEFINE h == [i \in top |-> InstructorStats(i).revenue]
           S == {x \in ShownRows : TeacherOfRow[x] \in top}
           R == {x \in ShownRows : TeacherOfRow[x] \notin top}
           L == {c \in Offered : TeacherOf[c] \notin top}
<1>1. \A i \in top : InstructorStats(i).revenue
                       = SumOver(Priced, {x \in S : TeacherOfRow[x] = i})
  <2> TAKE i \in top
  <2> DEFINE C == {c \in Offered : TeacherOf[c] = i}
  <2>1. InstructorStats(i).revenue = StatsOf(C).revenue
    BY DEF InstructorStats
  <2>2. {x \in ShownRows : x[2] \in C} = {x \in S : TeacherOfRow[x] = i}
    BY ShownAreRows DEF TeacherOfRow
  <2> QED
    BY <2>1, <2>2, StatsRevenue
<1>2. h = [i \in top |-> SumOver(Priced, {x \in S : TeacherOfRow[x] = i})]
  BY <1>1
<1>3. /\ IsFiniteSet(top) /\ IsFiniteSet(S) /\ IsFiniteSet(R)
      /\ \A x \in S : TeacherOfRow[x] \in top
      /\ \A x \in S \cup R : Priced[x] \in Int
      /\ S \cap R = {} /\ S \cup R = ShownRows
  BY TeachersAreFinite, ShownAreRows, FS_Subset
<1>4. StatsOf(L).revenue = SumOver(Priced, R)
  <2>1. {x \in ShownRows : x[2] \in L} = R
    BY ShownAreRows DEF TeacherOfRow
  <2> QED
    BY <2>1, StatsRevenue
<1> HIDE DEF h, S, R, L
<1>5. SumFunction(h) = SumOver(Priced, S)
  BY <1>2, <1>3, AmountsAddUp
<1>6. SumOver(Priced, ShownRows) = SumOver(Priced, S) + SumOver(Priced, R)
  BY <1>3, SumUnion
<1> QED
  BY <1>4, <1>5, <1>6 DEF h, L

LEMMA PeriodRows ==
    ASSUME NEW days
    PROVE  /\ Selected([page |-> "overview", period |-> days])
                  = {x \in Enrolled : seat[x].since \in days}
           /\ Selected([page |-> "overview", period |-> days]) \in SUBSET (Learners \X Offered)
BY DEF Selected, Enrolled

LEMMA PerformanceAgrees ==
    ASSUME NEW i, NEW days
    PROVE  LET perCourse == CoursePerformance(i, days)
               shown == {x \in InstructorEnrollments(i, days) : shelf[x[2]].shown}
           IN \A top \in TopCourses(i, days) :
                  SumFunction([c \in top |-> perCourse[c].enrollments])
                      = Cardinality(shown) - Cardinality({x \in shown : x[2] \notin top})
<1> DEFINE R == InstructorEnrollments(i, days)
           S == {x \in R : shelf[x[2]].shown}
           K == {c \in Offered : TeacherOf[c] = i /\ shelf[c].shown}
           p == CoursePerformance(i, days)
<1>1. S \in SUBSET (Learners \X Offered)
  BY PeriodRows DEF InstructorEnrollments
<1>2. DOMAIN p = K /\ \A c \in K : p[c].enrollments = Cardinality({x \in R : x[2] = c})
  <2> HIDE DEF R
  <2>1. p = [c \in K |-> [enrollments |-> Cardinality({x \in R : x[2] = c}),
                         revenue |-> shelf[c].price * Cardinality({x \in R : x[2] = c})]]
    BY DEF CoursePerformance, R
  <2> HIDE DEF p
  <2> QED
    BY <2>1
<1> SUFFICES ASSUME NEW top \in TopCourses(i, days)
             PROVE  SumFunction([c \in top |-> p[c].enrollments])
                        = Cardinality(S) - Cardinality({x \in S : x[2] \notin top})
  OBVIOUS
<1>3. top \subseteq K
  <2>1. top \in SUBSET DOMAIN p
    BY DEF TopCourses, Best
  <2> HIDE DEF p, K
  <2> QED
    BY <1>2, <2>1
<1> DEFINE T == {x \in S : x[2] \in top}
           L == {x \in S : x[2] \notin top}
           h == [c \in top |-> p[c].enrollments]
<1>4. \A c \in top : {x \in R : x[2] = c} = {x \in T : x[2] = c}
  <2>1. \A c \in top : shelf[c].shown
    BY <1>3
  <2> HIDE DEF R, K, p
  <2> QED
    BY <2>1
<1>5. h = [c \in top |-> Cardinality({x \in T : x[2] = c})]
  <2>1. \A c \in top : p[c].enrollments = Cardinality({x \in T : x[2] = c})
    <3> HIDE DEF p, K, T, R
    <3> QED
      BY <1>2, <1>3, <1>4
  <2> HIDE DEF p, T
  <2> QED
    BY <2>1
<1>6. /\ T \in SUBSET (Learners \X Offered) /\ top \in SUBSET Offered
      /\ \A x \in T : x[2] \in top
  BY <1>1, <1>3
<1>7. /\ IsFiniteSet(T) /\ IsFiniteSet(L) /\ T \cap L = {} /\ T \cup L = S
      /\ Cardinality(T) \in Nat /\ Cardinality(L) \in Nat
  BY <1>1, CountedRows
<1> HIDE DEF R, S, K, p, h, T, L
<1>8. SumFunction(h) = Cardinality(T)
  BY <1>5, <1>6, CoursesRows
<1>9. Cardinality(S) = Cardinality(T) + Cardinality(L)
  <2>1. Cardinality(T \cup L) = Cardinality(T) + Cardinality(L) - Cardinality(T \cap L)
    BY <1>7, FS_Union
  <2>2. Cardinality(T \cap L) = 0
    BY <1>7, FS_EmptySet
  <2>3. Cardinality(T \cup L) = Cardinality(S)
    BY <1>7, Zenon
  <2>4. Cardinality(S) = Cardinality(T) + Cardinality(L) - 0
    BY <2>1, <2>2, <2>3, Zenon
  <2> QED
    BY <1>7, <2>4
<1> QED
  BY <1>7, <1>8, <1>9 DEF h, L

LEMMA InstructorsRows ==
    ASSUME NEW days
    PROVE  SumFunction([i \in Range(TeacherOf) |-> Cardinality(InstructorEnrollments(i, days))])
               = Cardinality(Selected([page |-> "overview", period |-> days]))
<1> DEFINE S == Selected([page |-> "overview", period |-> days])
<1>1. \A i : InstructorEnrollments(i, days) = {x \in S : TeacherOf[x[2]] = i}
  BY DEF InstructorEnrollments
<1>2. S \in SUBSET (Learners \X Offered)
  BY PeriodRows
<1> HIDE DEF S
<1>3. SumFunction([i \in Range(TeacherOf) |-> Cardinality({x \in S : TeacherOf[x[2]] = i})])
          = Cardinality(S)
  BY <1>2, TeachersRows
<1> QED
  BY <1>1, <1>3 DEF S

\* Every seat is of the calendar.
LEMMA AllRows ==
    ASSUME ReportsTypeOK
    PROVE  SystemStats.enrollments
               = Cardinality(Selected([page |-> "overview", period |-> Always]))
<1>1. \A x \in Enrolled : seat[x].since \in Always
  BY SeatFields DEF Seats, Always
<1>2. Selected([page |-> "overview", period |-> Always]) = Enrolled
  BY <1>1, PeriodRows
<1> QED
  BY <1>2 DEF SystemStats

LEMMA SubjectsRows ==
    SumFunction([c \in Offered |-> Cardinality(Selected([page |-> "course", course |-> c]))])
        = SumFunction([u \in Learners |->
              Cardinality(Selected([page |-> "student", learner |-> u]))])
<1>1. Enrolled \in SUBSET (Learners \X Offered) /\ \A x \in Enrolled : x[2] \in Offered
  BY DEF Enrolled
<1>2. \A c : Selected([page |-> "course", course |-> c]) = {x \in Enrolled : x[2] = c}
  BY DEF Selected
<1>3. \A u : Selected([page |-> "student", learner |-> u]) = {x \in Enrolled : x[1] = u}
  BY DEF Selected
<1>4. SumFunction([c \in Offered |-> Cardinality({x \in Enrolled : x[2] = c})])
          = Cardinality(Enrolled)
  BY <1>1, CoursesRows
<1>5. SumFunction([u \in Learners |-> Cardinality({x \in Enrolled : x[1] = u})])
          = Cardinality(Enrolled)
  BY <1>1, LearnersRows
<1> QED
  BY <1>2, <1>3, <1>4, <1>5

LEMMA PagesHold ==
    ASSUME ReportsTypeOK
    PROVE  PagesAgree
<1>1. \A days \in Periods, i \in Range(TeacherOf) :
        LET perCourse == CoursePerformance(i, days)
            shown == {x \in InstructorEnrollments(i, days) : shelf[x[2]].shown}
        IN \A top \in TopCourses(i, days) :
               SumFunction([c \in top |-> perCourse[c].enrollments])
                   = Cardinality(shown) - Cardinality({x \in shown : x[2] \notin top})
  BY PerformanceAgrees
<1>2. \A days \in Periods, interval \in {"day", "week", "month"} :
        LET t == Trends(days, interval) IN
        SumFunction([k \in DOMAIN t |-> t[k].count])
            = Cardinality(Selected([page |-> "overview", period |-> days]))
  BY TrendsAgree
<1>3. \A days \in Periods :
        SumFunction([i \in Range(TeacherOf) |-> InstructorRevenue(i, days)])
            = AmountOf(Paid(days))
  BY RevenueAgrees
<1>4. \A days \in Periods :
        SumFunction([i \in Range(TeacherOf) |-> Cardinality(InstructorEnrollments(i, days))])
            = Cardinality(Selected([page |-> "overview", period |-> days]))
  BY InstructorsRows
<1>5. \A instructors \in SUBSET Range(TeacherOf) :
      \A limit \in (0 - Cardinality(instructors))..Cardinality(instructors) :
      \A top \in TopInstructors(instructors, limit) :
          SumFunction([k \in Range(CategoryOf) |-> CategoryAnalytics(k).revenue])
              = SumFunction([i \in top |-> InstructorStats(i).revenue])
                    + StatsOf({c \in Offered : TeacherOf[c] \notin top}).revenue
  <2> SUFFICES ASSUME NEW instructors \in SUBSET Range(TeacherOf), NEW limit,
                      NEW top \in TopInstructors(instructors, limit)
               PROVE  SumFunction([k \in Range(CategoryOf) |-> CategoryAnalytics(k).revenue])
                          = SumFunction([i \in top |-> InstructorStats(i).revenue])
                                + StatsOf({c \in Offered : TeacherOf[c] \notin top}).revenue
    OBVIOUS
  <2>1. top \in SUBSET Range(TeacherOf)
    BY DEF TopInstructors, Best
  <2> QED
    BY <2>1, CategoriesRevenue, TeachersRevenue
<1> QED
  BY <1>1, <1>2, <1>3, <1>4, <1>5, AllRows, SubjectsRows,
     CategoriesCourses DEF PagesAgree

-----------------------------------------------------------------------------
(* Theorems *)

\* Every variable of the reports keeps its type: what a row holds, and the
\* counts a page has read, never more than there are places.
THEOREM ReportsTypes == ReportsSpec => []ReportsTypeOK
<1>1. ReportsInv => ReportsTypeOK
  BY DEF ReportsInv
<1> QED
  BY <1>1, ReportsInvariance, PTL

\* No page of figures shows more than all of something as done unless it was
\* disturbed between its two counts, and two pages that show a figure of the
\* same rows agree, for any users, courses, prices and calendar.
THEOREM ReportsSound == ReportsSpec => []ReportsAgree
<1>1. ReportsInv => ReportsAgree
  BY RatesHold, PagesHold DEF ReportsInv, ReportsAgree
<1> QED
  BY <1>1, ReportsInvariance, PTL
=============================================================================
