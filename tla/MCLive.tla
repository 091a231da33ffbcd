-------------------------------- MODULE MCLive --------------------------------
(* Instance for TLC.  LiveSessions and Classroom share no variable: in a      *)
(* behaviour only the focus moves.  The focus "class" has one class and all   *)
(* requests, "calendar" all classes and one request and no edits; what is     *)
(* taken away counts as used up before.                                       *)
EXTENDS LiveSessions, Classroom, TLC

CONSTANTS k1, k2, k3, mentor, pupil

VARIABLE focus

Owners == k1 :> mentor @@ k2 :> mentor @@ k3 :> pupil

Only(Rows) == LET first == CHOOSE x \in Rows : TRUE IN
    [x \in Rows |-> IF x = first THEN Unborn ELSE Removed]

Init ==
    /\ ClassInit
    /\ calls = [c \in Threads |-> Resting]
    /\ clock = 0 /\ withdrawn = {} /\ late = {}
    /\ offered = [s \in Sessions |-> 0]
    /\ \/ /\ focus \in {"class", "room"}
          /\ session = Only(Sessions)
          /\ request = [r \in Requests |-> Unborn]
          /\ edits = 0
       \/ /\ focus = "calendar"
          /\ session = [s \in Sessions |-> Unborn]
          /\ request = Only(Requests)
          /\ edits = MaxEdits

Next ==
    /\ UNCHANGED focus
    /\ \/ focus \in {"class", "calendar"} /\ LiveNext /\ UNCHANGED classVars
       \/ focus = "room" /\ ClassNext /\ UNCHANGED liveVars

Spec == Init /\ [][Next]_<<liveVars, classVars, focus>>

Symmetry == Permutations(Calls)

\* Every variable of the modules keeps its type.
TypeOK == LiveTypeOK /\ ClassTypeOK
===============================================================================
