SPECIFICATION Spec
CONSTANTS
    r1 = r1
    r2 = r2
    u1 = u1
    u2 = u2
    k1 = k1
    k2 = k2
    s1 = s1
    s2 = s2
    x1 = x1
    x2 = x2
    y1 = y1
    y2 = y2
    People = {u1, u2}
    Staff = {u2}
    Writers = {u1, u2}
    Seeded = {u1}
    Lines = {k1, k2}
    UserOf <- Owners
    Rooms = {r1, r2}
    Posts = {1}
    Calls = {x1, x2}
    NoPost = NoPost
    Idle = Idle
    Readers = {u1, u2}
    Devices = {x1, x2}
    Announcements = {a1}
    Alerts = {b1}
    NoticeAttempts = 2
    NoticeStalls = 1
    Questions = {y1, y2}
    Attempts = {q1}
    Submissions = {x1, x2}
    NewPoints = {1}
    AmendedPoints <- OddPoints
    PassingScores = {50}
    NoQuiz = NoQuiz
    NoQuestion = NoQuestion
    NoResult = NoResult
    Reviewers = {y1, y2}
    Ratings = {1, 5}
    ReviewCalls = {x1, x2}
    MaxReviewCalls = 4
    NoReview = NoReview
    Ready = Ready
    Codes = {"K"}
    Typed = {"K", "k"}
    Canonical <- InCapitals
    Offers <- SomeOffers
    Amendments <- SomeAmendments
    OnSale = {s1}
    PriceOf <- Prices
    MaxUses = 2
    NoOffer = NoOffer
    NoQuote = NoQuote
    NoCap = NoCap
    SlotRows = {y1, y2}
    Days = {1, 2}
    Hours = {8, 9, 10}
    SlotCalls = {x1, x2}
    NoSlot = NoSlot
    Calm = Calm
    Sections = {s1, s2}
    Lessons = {y1, y2}
    SectionOf <- OneSection
    Editors = {x1, x2}
    Places = {1}
    Unmade = Unmade
    Gone = Gone
    Resting = Resting
SYMMETRY CommunitySymmetry
INVARIANTS TypeOK ResultsAreSound RatingAgrees QuotesAreHonoured
           SlotsAreSound
PROPERTIES ChatIsSound NoticesArrive ImplementsOrder
CHECK_DEADLOCK FALSE
