SPECIFICATION Spec
CONSTANTS
    Sessions = {s1}
    Requests = {r1}
    Students = {u1}
    Calls = {c1, c2}
    Starts = {1, 2}
    Lengths = {1}
    Seats = {1}
    MaxTime = 4
    Lead = 1
    Grace = 0
    MaxEdits = 1
    Unborn = Unborn
    Removed = Removed
    None = None
    Videos = {v1}
    Qualities = {q1, q2}
    Tasks = {x1}
    Attempts = 2
    MaxJobs = 2
    MaxRetries = 1
    NoVideo = NoVideo
PROPERTIES ClassesGoAway VideosSettle
CHECK_DEADLOCK FALSE
