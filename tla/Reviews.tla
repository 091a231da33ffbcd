-------------------------------- MODULE Reviews --------------------------------
(***************************************************************************)
(* The reviews of one course (src/modules/reviews) and the rating kept in  *)
(* its row, which every change computes anew and the daily job             *)
(* syncCourseStats (src/modules/scheduler) is to bring up to date.         *)
(*                                                                         *)
(* A change, the query of the average and its storing are three steps:     *)
(* those of other calls come between.                                      *)
(***************************************************************************)
EXTENDS Naturals, FiniteSets, FiniteSetsExt

CONSTANTS
    Reviewers,      \* users
    Ratings,        \* 1 to 5
    ReviewCalls,    \* requests served at one time
    MaxReviewCalls, \* requests there are (a bound)
    NoReview, Ready

Statuses == {"none", "ACTIVE", "COMPLETED", "REFUNDED"}
MostStars == 5 * Cardinality(Reviewers)
Averages ==
    {a \in [stars : 0..MostStars, count : 0..Cardinality(Reviewers)] : a.stars <= 5 * a.count}
Tasks ==
    [at : {"create"}, who : Reviewers, stars : Ratings]
        \cup [at : {"changed"}]
        \cup [at : {"computed"}, found : Averages, behind : BOOLEAN]

ASSUME ReviewsAssumption ==
    /\ Ratings \subseteq 1..5 /\ MaxReviewCalls \in Nat
    /\ IsFiniteSet(Reviewers) /\ Ready \notin Tasks

VARIABLES
    enrolled,   \* enrollments.status
    review,     \* reviews, userId and courseId being unique
    rating,     \* courses.rating, as a sum and totalReviews
    task,       \* what each request has read and has yet to write
    asks,       \* history: requests so far
    overtaken,  \* history: the rating was read before another's, stored after
    lapsed      \* history: a request died between its change and the rating

reviewVars == <<enrolled, review, rating, task, asks, overtaken, lapsed>>

-----------------------------------------------------------------------------
ReviewsInit ==
    /\ enrolled \in [Reviewers -> {"ACTIVE", "COMPLETED"}]
    /\ review = [u \in Reviewers |-> NoReview]
    /\ rating = [stars |-> 0, count |-> 0]
    /\ task = [x \in ReviewCalls |-> Ready]
    /\ asks = 0
    /\ overtaken = FALSE
    /\ lapsed = FALSE

Reviewed == {u \in Reviewers : review[u] # NoReview}
Average == [stars |-> MapThenSumSet(LAMBDA u : review[u], Reviewed),
            count |-> Cardinality(Reviewed)]
On(x, step) == task[x] # Ready /\ task[x].at = step

Ask(x, step) ==
    /\ task[x] = Ready
    /\ asks < MaxReviewCalls
    /\ asks' = asks + 1
    /\ task' = [task EXCEPT ![x] = step]

-----------------------------------------------------------------------------
CreateReview(x, u, stars) ==
    /\ enrolled[u] \in {"ACTIVE", "COMPLETED"}
    /\ review[u] = NoReview
    /\ Ask(x, [at |-> "create", who |-> u, stars |-> stars])
    /\ UNCHANGED <<enrolled, review, rating, overtaken, lapsed>>

\* Of two that found none the second is refused.
InsertReview(x) ==
    /\ On(x, "create")
    /\ LET c == task[x] IN
       IF review[c.who] = NoReview
       THEN /\ review' = [review EXCEPT ![c.who] = c.stars]
            /\ task' = [task EXCEPT ![x] = [at |-> "changed"]]
       ELSE task' = [task EXCEPT ![x] = Ready] /\ UNCHANGED review
    /\ UNCHANGED <<enrolled, rating, asks, overtaken, lapsed>>

\* A review may be changed whatever has become of the enrollment.
UpdateReview(x, u, stars) ==
    /\ review[u] # NoReview
    /\ Ask(x, [at |-> "changed"])
    /\ review' = [review EXCEPT ![u] = stars]
    /\ UNCHANGED <<enrolled, rating, overtaken, lapsed>>

\* Fault: the rating is left as it is.
DeleteReviewOnly(x, u) ==
    /\ review[u] # NoReview
    /\ task[x] = Ready /\ asks < MaxReviewCalls
    /\ asks' = asks + 1
    /\ review' = [review EXCEPT ![u] = NoReview]
    /\ UNCHANGED <<enrolled, rating, task, overtaken, lapsed>>

DeleteReview(x, u) ==
    /\ review[u] # NoReview
    /\ Ask(x, [at |-> "changed"])
    /\ review' = [review EXCEPT ![u] = NoReview]
    /\ UNCHANGED <<enrolled, rating, overtaken, lapsed>>

\* updateCourseRating: the query ...
ComputeRating(x) ==
    /\ On(x, "changed")
    /\ task' = [task EXCEPT ![x] = [at |-> "computed", found |-> Average, behind |-> FALSE]]
    /\ UNCHANGED <<enrolled, review, rating, asks, overtaken, lapsed>>

\* Fault: the count is incremented, not stored.
CountedOnce(found) == [stars |-> found.stars, count |-> rating.count + 1]
Found(found) == found

\* ... and the storing of what it found.
StoreRating(x) ==
    /\ On(x, "computed")
    /\ rating' = Found(task[x].found)
    /\ overtaken' = task[x].behind
    /\ lapsed' = FALSE
    /\ task' = [y \in ReviewCalls |->
            IF y = x THEN Ready
            ELSE IF On(y, "computed") THEN [task[y] EXCEPT !.behind = TRUE] ELSE task[y]]
    /\ UNCHANGED <<enrolled, review, asks>>

\* The tables of the database, and those the job's queries name.
Tables == {"courses", "enrollments", "reviews"}
Queried == {"Enrollment", "Review"}

\* syncCourseStats: a query of a table that is not there fails the job.
SyncCourseStats ==
    /\ IF Queried \subseteq Tables
       THEN rating' = Average /\ overtaken' = FALSE /\ lapsed' = FALSE
       ELSE UNCHANGED <<rating, overtaken, lapsed>>
    /\ UNCHANGED <<enrolled, review, task, asks>>

\* Enrollments end, and are bought again.
ChangeEnrollment(u, status) ==
    /\ enrolled[u] # status
    /\ enrolled' = [enrolled EXCEPT ![u] = status]
    /\ UNCHANGED <<review, rating, task, asks, overtaken, lapsed>>

ReviewsCrash ==
    /\ \E x \in ReviewCalls : task[x] # Ready
    /\ lapsed' = (lapsed \/ \E x \in ReviewCalls : On(x, "changed") \/ On(x, "computed"))
    /\ task' = [x \in ReviewCalls |-> Ready]
    /\ UNCHANGED <<enrolled, review, rating, asks, overtaken>>

ReviewStep(x) == InsertReview(x) \/ ComputeRating(x) \/ StoreRating(x)
ReviewsNext ==
    \/ \E x \in ReviewCalls :
           \/ \E u \in Reviewers :
                  \/ \E stars \in Ratings : CreateReview(x, u, stars) \/ UpdateReview(x, u, stars)
                  \/ DeleteReview(x, u)
           \/ ReviewStep(x)
    \/ SyncCourseStats
    \/ \E u \in Reviewers, status \in Statuses : ChangeEnrollment(u, status)
    \/ ReviewsCrash

ReviewsSpec == ReviewsInit /\ [][ReviewsNext]_reviewVars

-----------------------------------------------------------------------------
(* Properties *)

\* Every variable keeps its type; the rating is of as many stars as reviews
\* can give.
ReviewsTypeOK ==
    /\ enrolled \in [Reviewers -> Statuses]
    /\ review \in [Reviewers -> Ratings \cup {NoReview}]
    /\ rating \in Averages
    /\ task \in [ReviewCalls -> Tasks \cup {Ready}]
    /\ asks \in 0..MaxReviewCalls
    /\ overtaken \in BOOLEAN /\ lapsed \in BOOLEAN

\* With no request on its way the course's rating is that of its reviews,
\* unless the last to be stored was computed before another's that was stored
\* earlier, or a request died half way.
RatingAgrees ==
    (\A x \in ReviewCalls : task[x] = Ready) =>
        rating = Average \/ overtaken \/ lapsed
================================================================================
