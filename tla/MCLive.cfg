\* Two requests at once; one class with two applications, or two classes; in
\* the classroom an instructor with two sockets and a student with one.
SPECIFICATION Spec
CONSTANTS
    Sessions = {s1, s2}
    Requests = {r1, r2}
    Students = {u1}
    Calls = {c1, c2}
    Starts = {1, 2}
    Lengths = {1}
    Seats = {1}
    MaxTime = 4
    Lead = 1
    Grace = 0
    MaxEdits = 1
    Unborn = Unborn
    Removed = Removed
    None = None
    k1 = k1
    k2 = k2
    k3 = k3
    mentor = mentor
    pupil = pupil
    Members = {mentor, pupil}
    Teacher = mentor
    Sockets = {k1, k2, k3}
    OwnerOf <- Owners
    StrokeCap = 2
    MaxStrokes = 3
    Absent = Absent
    Nobody = Nobody
    Unset = Unset
SYMMETRY Symmetry
INVARIANTS TypeOK OverbookingIsBounded SessionsAreSound RoomIsSeen
           ParticipantsAreConnected
CHECK_DEADLOCK FALSE
