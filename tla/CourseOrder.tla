------------------------------ MODULE CourseOrder ------------------------------
(***************************************************************************)
(* What a curriculum promises those who read it: a reordering takes effect *)
(* at one moment, all of it, when all its rows are there, or not at all;   *)
(* a row is made once, and a section goes with its lessons, for good.      *)
(***************************************************************************)
EXTENDS Naturals, Sequences, SequencesExt, Functions

CONSTANTS Sections, Lessons, SectionOf, Editors, Places, Unmade, Gone,
          Orderings     \* the ids a reordering may be given

VARIABLES
    order,      \* the place of each row
    asked       \* the reordering each editor waits for, if any

vars == <<order, asked>>

Items == Sections \cup Lessons
There(i) == order[i] \notin {Unmade, Gone}

Init ==
    /\ order = [i \in Items |-> IF i \in Sections THEN 0 ELSE Unmade]
    /\ asked = [x \in Editors |-> {}]

Ask(x, ids) ==
    /\ asked[x] = {}
    /\ asked' = [asked EXCEPT ![x] = {ids}]
    /\ UNCHANGED order

\* An id that is given twice counts where it is given last.
Arrange(x, ids) ==
    /\ \A i \in Range(ids) : There(i)
    /\ order' = [i \in Items |-> IF i \in Range(ids)
                                THEN SelectLastInSeq(ids, LAMBDA j : j = i) ELSE order[i]]
    /\ asked' = [asked EXCEPT ![x] = {}]

Abandon(x) ==
    /\ asked[x] # {}
    /\ asked' = [asked EXCEPT ![x] = {}]
    /\ UNCHANGED order

Add(l, n) ==
    /\ order[l] = Unmade /\ There(SectionOf[l])
    /\ order' = [order EXCEPT ![l] = n]
    /\ UNCHANGED asked

Move(i, n) ==
    /\ There(i)
    /\ order' = [order EXCEPT ![i] = n]
    /\ UNCHANGED asked

Erase(i) ==
    /\ There(i)
    /\ LET rows == {i} \cup {l \in Lessons : SectionOf[l] = i /\ There(l)} IN
         order' = [j \in Items |-> IF j \in rows THEN Gone ELSE order[j]]
    /\ UNCHANGED asked

\* An editor asks or is answered; or one row changes, and who waits goes on.
Next ==
    \/ /\ asked' # asked
       /\ \E x \in Editors :
              \/ \E ids \in Orderings : Ask(x, ids)
              \/ \E ids \in asked[x] : Arrange(x, ids)
              \/ Abandon(x)
    \/ /\ order' # order
       /\ \/ \E l \in Lessons, n \in Places : Add(l, n)
          \/ \E i \in Items, n \in Places : Move(i, n)
          \/ \E i \in Items : Erase(i)

Spec == Init /\ [][Next]_vars
================================================================================
