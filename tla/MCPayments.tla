----------------------------- MODULE MCPayments -----------------------------
(* Constants and symmetry for the TLC runs of Payments. *)
EXTENDS Payments, TLC

CONSTANTS u1, u2, c1, c2, i1, i2, k1, p1, p2, d1, d2, w1, w2

\* One seller: every course is i1's.
OneSeller == [c \in Courses |-> i1]
TwoSellers == (c1 :> i1) @@ (c2 :> i2)

\* c1 is sold at 10; c2 was free before it was priced at 4.
AllPaid == [c \in Courses |-> {10}]
FreeThenPaid == (c1 :> {10}) @@ (c2 :> {0, 4})
MadePaid == [c \in Courses |-> {0, 10}]

WholePrice == [k \in Coupons |-> 10]
OneUse == [k \in Coupons |-> 1]

\* A second refund and a fault are explored where c1 alone is sold (a bound).
Bounded ==
    \/ /\ Cardinality({d \in Disbursements : disbursed[d] # NoPayment}) <= 1
       /\ faults = 0
    \/ /\ \A p \in PaymentIds : order[p] = NoOrder \/ order[p].course = c1
       /\ \A s \in Seats : enrollment[s] = NoRow \/ s[2] = c1

Symmetry == Permutations(PaymentIds) \cup Permutations(Disbursements)
            \cup Permutations(Workers)
=============================================================================
