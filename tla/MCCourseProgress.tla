-------------------------- MODULE MCCourseProgress --------------------------
(* Constants and symmetry for the TLC runs of CourseProgress. *)
EXTENDS CourseProgress, TLC

CONSTANTS s1, s2, x1, x2, l1, l2, w1, w2

TwoSections == (l1 :> x1) @@ (l2 :> x2)
OneSection == [l \in Lessons |-> x1]

Symmetry == Permutations(Students) \cup Permutations(Workers)
=============================================================================
