----------------------------- MODULE MCBackground -----------------------------
\* What the scheduler is for: classes go away and videos settle.  The two share
\* no row, and one of them moves; of the other nothing is there, so its job has
\* nothing to do.
EXTENDS LiveSessions, VideoPipeline

VARIABLE focus

Init ==
    /\ focus \in {"classes", "videos"}
    /\ session = [s \in Sessions |-> Unborn]
    /\ request = [r \in Requests |-> Unborn]
    /\ calls = [c \in Threads |-> Resting]
    /\ withdrawn = {} /\ edits = 0 /\ late = {}
    /\ offered = [s \in Sessions |-> 0]
    /\ clock = IF focus = "classes" THEN 0 ELSE MaxTime
    /\ VideoInit
    /\ focus # "videos" => mode = "queue"

Next ==
    /\ UNCHANGED focus
    /\ \/ focus = "classes" /\ LiveNext /\ UNCHANGED videoVars
       \/ focus = "videos" /\ VideoNext /\ UNCHANGED liveVars

vars == <<focus, liveVars, videoVars>>
Spec == Init /\ [][Next]_vars /\ LiveFairness /\ VideoFairness
================================================================================
