------------------------------ MODULE MCPayouts ------------------------------
(* Payouts, and the pages of figures, which share no row with them: one of    *)
(* the two moves.  Of the figures, pages of two queries are tried with free   *)
(* courses, and those of one with whole lessons and no page half read.        *)
EXTENDS Payouts, Reports, TLC

CONSTANTS i1, i2, n1, d1, d2, d3, d4, w1, w2, u1, u2, c1, c2, k1

VARIABLE focus

Teachers == (c1 :> i1) @@ (c2 :> i2)
Subject == (c1 :> k1) @@ (c2 :> k1)

\* Requests and disbursements are interchangeable, and so are students.
Symmetry == Permutations(Workers) \cup Permutations(Disbursements) \cup Permutations(Learners)

MCInit ==
    /\ focus \in {"payouts", "queries", "figures"}
    /\ Init /\ ReportsInit
    /\ focus # "figures" => \A c \in Offered : shelf[c].price = 0

ReportsMove ==
    /\ ReportsNext
    /\ CASE focus = "queries" -> shelf' = shelf
         [] focus = "figures" ->
              /\ page' = page /\ lessons' = lessons
              /\ shelf'[c1].shown
              /\ \A x \in Enrolled' : seat'[x].lesson # "begun"

MCNext ==
    /\ UNCHANGED focus
    /\ \/ focus = "payouts" /\ Next /\ UNCHANGED reportVars
       \/ focus # "payouts" /\ ReportsMove /\ UNCHANGED vars

MCSpec == MCInit /\ [][MCNext]_<<focus, vars, reportVars>>
=============================================================================
