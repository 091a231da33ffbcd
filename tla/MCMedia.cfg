SPECIFICATION Spec
CONSTANTS
    Videos = {v1}
    Qualities = {q1, q2}
    Tasks = {x1}
    Attempts = 2
    MaxJobs = 3
    MaxRetries = 2
    NoVideo = NoVideo
    Courses = {c1}
    Categories = {k1}
    Handlers = {r1, r2}
    MaxCourseEdits = 2
    NoCourse = NoCourse
    NoEntry = NoEntry
    Shelf = {"a", "b", "c"}
    TraitsOf <- SomeTraits
    Texts = {"t1", "t2"}
    StemOf <- OneStem
    Topics = {"math", "art"}
    Levels = {"easy", "hard"}
    Owners = {"x", "y"}
    Languages = {"en", "fr"}
    Fees = {0, 5}
    Sorts = {"default", "price_asc"}
    Limits = {1, 2}
    Anything = Anything
    NoResults = NoResults
SYMMETRY MediaSymmetry
INVARIANTS TypeOK PlaybackIsWhole ReadyWasReviewed SearchIsSound
 
CHECK_DEADLOCK FALSE
