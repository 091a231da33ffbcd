------------------------------- MODULE Reports -------------------------------
(***************************************************************************)
(* The pages of figures: src/modules/analytics and getSystemStats of       *)
(* modules/admin.  Each is computed anew from the rows that sales,         *)
(* enrollments and lessons leave, most of them from queries that run side  *)
(* by side in no transaction.  A query with what it includes is one read.  *)
(*                                                                         *)
(* Of a course there is one lesson, and one payment for each student.      *)
(***************************************************************************)
EXTENDS Integers, FiniteSets, Functions

CONSTANTS
    Learners, Offered,      \* users and courses
    TeacherOf, CategoryOf,  \* Course.instructorId, Course.categoryId
    Prices,
    FirstDay, LastDay,      \* of the calendar (a bound); day 0 is a Sunday
    MonthDays,              \* of a month of it
    TopLength,              \* of a list of the best, 10 unless asked otherwise
    MaxSeats,               \* enrollments there are (a bound)
    NoRow, NoPage

ASSUME ReportsAssumption ==
    /\ Prices \subseteq Nat /\ FirstDay \in Nat \ {0} /\ LastDay \in Nat
    /\ FirstDay <= LastDay /\ IsFiniteSet(Learners) /\ IsFiniteSet(Offered)
    /\ MonthDays \in Nat \ {0} /\ MaxSeats \in Nat
    /\ TopLength \in Nat
    /\ TeacherOf \in [Offered -> Range(TeacherOf)] /\ CategoryOf \in [Offered -> Range(CategoryOf)]

VARIABLES
    today,
    shelf,      \* courses: price and isPublished
    lessons,    \* courses whose lesson is there
    seat,       \* enrollments with their lessonProgress
    receipt,    \* payments
    page        \* the page being computed, and what its queries have found

reportVars == <<today, shelf, lessons, seat, receipt, page>>

-----------------------------------------------------------------------------
Calendar == FirstDay..LastDay
Never == 0
Seats ==
    [since : Calendar, completedAt : Calendar \cup {Never},
     lesson : {"unseen", "begun", "finished"}]
Receipts ==
    [since : Calendar, amount : Prices, teacher : Range(TeacherOf),
     status : {"PENDING", "COMPLETED", "REFUNDED"}]

ASSUME ReportsRowsAssumption == NoRow \notin Seats

\* A date range, or the whole calendar when none is given.
Periods == {from..to : from \in Calendar, to \in Calendar} \ {{}}
Always == Calendar

Subjects ==
    [page : {"overview"}, period : Periods]
        \cup [page : {"course"}, course : Offered]
        \cup [page : {"student"}, learner : Learners]
Counted == 0..(Cardinality(Learners) * Cardinality(Offered))
Unread == -1

ReportsInit ==
    /\ today = FirstDay
    /\ shelf \in [Offered -> [price : Prices, shown : {TRUE}]]
    /\ lessons = Offered
    /\ seat = [x \in Learners \X Offered |-> NoRow]
    /\ receipt = [x \in Learners \X Offered |-> NoRow]
    /\ page = NoPage

Enrolled == {x \in Learners \X Offered : seat[x] # NoRow}

-----------------------------------------------------------------------------
(* The rows *)

\* A write to what a page counts comes between its queries.
HalfRead == page # NoPage /\ (page.enrolled = Unread) # (page.completed = Unread)
Disturbing == page' = IF HalfRead THEN [page EXCEPT !.disturbed = TRUE] ELSE page

CreatePayment(x) ==
    /\ receipt[x] = NoRow /\ shelf[x[2]].price > 0
    /\ receipt' = [receipt EXCEPT ![x] =
            [since |-> today, amount |-> shelf[x[2]].price, teacher |-> TeacherOf[x[2]],
             status |-> "PENDING"]]
    /\ UNCHANGED <<today, shelf, lessons, seat, page>>

NewSeat == [since |-> today, completedAt |-> Never, lesson |-> "unseen"]

\* The payment is settled, and the student enrolled if he is not.
GrantEnrollment(x) ==
    /\ receipt[x] # NoRow /\ receipt[x].status = "PENDING"
    /\ receipt' = [receipt EXCEPT ![x].status = "COMPLETED"]
    /\ IF x \in Enrolled THEN UNCHANGED <<seat, page>>
       ELSE /\ Cardinality(Enrolled) < MaxSeats
            /\ seat' = [seat EXCEPT ![x] = NewSeat]
            /\ Disturbing
    /\ UNCHANGED <<today, shelf, lessons>>

EnrollFree(x) ==
    /\ x \notin Enrolled /\ shelf[x[2]].price = 0
    /\ Cardinality(Enrolled) < MaxSeats
    /\ seat' = [seat EXCEPT ![x] = NewSeat]
    /\ Disturbing
    /\ UNCHANGED <<today, shelf, lessons, receipt>>

\* The enrollment's row stays.
RefundReceipt(x) ==
    /\ receipt[x] # NoRow /\ receipt[x].status = "COMPLETED"
    /\ receipt' = [receipt EXCEPT ![x].status = "REFUNDED"]
    /\ UNCHANGED <<today, shelf, lessons, seat, page>>

\* The only lesson completes the course, the first time.
ReportProgress(x, completed) ==
    /\ x \in Enrolled /\ x[2] \in lessons
    /\ seat' = [seat EXCEPT
            ![x].lesson = IF completed \/ @ = "finished" THEN "finished" ELSE "begun",
            ![x].completedAt = IF completed /\ @ = Never THEN today ELSE @]
    /\ Disturbing
    /\ UNCHANGED <<today, shelf, lessons, receipt>>

\* The progress of a deleted lesson goes with it.
RemoveLesson(c) ==
    /\ c \in lessons
    /\ lessons' = lessons \ {c}
    /\ seat' = [x \in Learners \X Offered |->
            IF x \in Enrolled /\ x[2] = c THEN [seat[x] EXCEPT !.lesson = "unseen"] ELSE seat[x]]
    /\ UNCHANGED <<today, shelf, receipt, page>>

ChangeCourse(c, price, shown) ==
    /\ shelf' = [shelf EXCEPT ![c] = [price |-> price, shown |-> shown]]
    /\ UNCHANGED <<today, lessons, seat, receipt, page>>

NextDay ==
    /\ today < LastDay
    /\ today' = today + 1
    /\ UNCHANGED <<shelf, lessons, seat, receipt, page>>

-----------------------------------------------------------------------------
(* Pages that count with two queries *)

\* The rows a page's conditions select.
Selected(s) ==
    {x \in Enrolled :
        CASE s.page = "overview" -> seat[x].since \in s.period
          [] s.page = "course" -> x[2] = s.course
          [] s.page = "student" -> x[1] = s.learner}

\* Fault: a completion counts on the day it happened.
CompletedInPeriod(s) ==
    IF s.page = "overview" THEN {x \in Enrolled : seat[x].completedAt \in s.period}
    ELSE {x \in Selected(s) : seat[x].completedAt # Never}
Completed(s) == {x \in Selected(s) : seat[x].completedAt # Never}

\* getPlatformOverview, getCourseAnalytics, getStudentProgress.
AskPage(s) ==
    /\ page' = [subject |-> s, enrolled |-> Unread, completed |-> Unread, disturbed |-> FALSE]
    /\ UNCHANGED <<today, shelf, lessons, seat, receipt>>

CountEnrollments ==
    /\ page # NoPage /\ page.enrolled = Unread
    /\ page' = [page EXCEPT !.enrolled = Cardinality(Selected(page.subject))]
    /\ UNCHANGED <<today, shelf, lessons, seat, receipt>>

CountCompletions ==
    /\ page # NoPage /\ page.completed = Unread
    /\ page' = [page EXCEPT !.completed = Cardinality(Completed(page.subject))]
    /\ UNCHANGED <<today, shelf, lessons, seat, receipt>>

ReportsNext ==
    \/ \E x \in Learners \X Offered :
           \/ CreatePayment(x) \/ GrantEnrollment(x) \/ EnrollFree(x) \/ RefundReceipt(x)
           \/ \E completed \in BOOLEAN : ReportProgress(x, completed)
    \/ \E c \in Offered :
           \/ RemoveLesson(c)
           \/ \E price \in Prices, shown \in BOOLEAN : ChangeCourse(c, price, shown)
    \/ NextDay
    \/ \E s \in Subjects : AskPage(s)
    \/ CountEnrollments \/ CountCompletions

ReportsSpec == ReportsInit /\ [][ReportsNext]_reportVars

-----------------------------------------------------------------------------
(* Figures *)

\* To the nearest of so many parts of one; none of nothing.
Rounded(part, whole, parts) ==
    IF whole = 0 THEN 0 ELSE (2 * parts * part + whole) \div (2 * whole)
\* Hundredths of a percent.
Rate(part, whole) == Rounded(part, whole, 10000)

Paid(days) ==
    {x \in Learners \X Offered :
        receipt[x] # NoRow /\ receipt[x].status = "COMPLETED" /\ receipt[x].since \in days}
AmountOf(rows) == SumFunction([x \in rows |-> receipt[x].amount])

SystemStats ==
    [courses |-> Cardinality({c \in Offered : shelf[c].shown}),
     enrollments |-> Cardinality(Enrolled),
     totalRevenue |-> AmountOf(Paid(Always))]

\* getEnrollmentTrends: weeks begin on Sunday.
BucketOf(interval, day) ==
    CASE interval = "day" -> day
      [] interval = "week" -> day - (day % 7)
      [] interval = "month" -> day \div MonthDays
Trends(days, interval) ==
    LET rows == Selected([page |-> "overview", period |-> days])
        bucket(x) == BucketOf(interval, seat[x].since)
        in(k) == {x \in rows : bucket(x) = k}
    IN [k \in {bucket(x) : x \in rows} |->
            [count |-> Cardinality(in(k)),
             revenue |-> SumFunction([x \in in(k) |-> shelf[x[2]].price])]]

\* Of the published courses; revenue is what they would cost today.
StatsOf(courses) ==
    LET shown == {c \in courses : shelf[c].shown}
        rows == {x \in Enrolled : x[2] \in shown}
        completed == {x \in rows : seat[x].completedAt # Never}
    IN [courses |-> Cardinality(shown), enrollments |-> Cardinality(rows),
        revenue |-> SumFunction([x \in rows |-> shelf[x[2]].price]),
        completionRate |-> Rate(Cardinality(completed), Cardinality(rows))]
CategoryAnalytics(k) == StatsOf({c \in Offered : CategoryOf[c] = k})
InstructorStats(i) == StatsOf({c \in Offered : TeacherOf[c] = i})

\* The first n of a sort by score: it does not say who comes first of equals.
Best(candidates, score, n) ==
    {T \in SUBSET candidates :
        /\ Cardinality(T) = n
        /\ \A i \in T, j \in candidates \ T : score[i] >= score[j]}

\* Array.slice(0, n) of so many: a negative n leaves off the last.
Sliced(count, n) ==
    IF n >= 0 THEN (IF n < count THEN n ELSE count)
    ELSE IF count + n > 0 THEN count + n ELSE 0

\* getTopInstructors: who may be listed, of those with the role INSTRUCTOR.
TopInstructors(instructors, limit) ==
    Best(instructors, [i \in instructors |-> InstructorStats(i).revenue],
         Sliced(Cardinality(instructors), IF limit = 0 THEN TopLength ELSE limit))

\* Fault: every instructor is shown the platform's.
AnyonesRevenue(i, days) == AmountOf(Paid(days))
\* getInstructorAnalytics: by the instructor in the payment's metadata.
InstructorRevenue(i, days) == AmountOf({x \in Paid(days) : receipt[x].teacher = i})
InstructorEnrollments(i, days) ==
    {x \in Selected([page |-> "overview", period |-> days]) : TeacherOf[x[2]] = i}
InstructorCompletion(i, days) ==
    LET rows == InstructorEnrollments(i, days) IN
    Rate(Cardinality({x \in rows : seat[x].completedAt # Never}), Cardinality(rows))

\* Of his published courses.
CoursePerformance(i, days) ==
    LET rows(c) == {x \in InstructorEnrollments(i, days) : x[2] = c} IN
    [c \in {c \in Offered : TeacherOf[c] = i /\ shelf[c].shown} |->
        [enrollments |-> Cardinality(rows(c)),
         revenue |-> shelf[c].price * Cardinality(rows(c))]]

\* The courses of his that may be listed.
TopCourses(i, days) ==
    LET perCourse == CoursePerformance(i, days)
        courses == DOMAIN perCourse
    IN Best(courses, [c \in courses |-> perCourse[c].enrollments],
            Sliced(Cardinality(courses), TopLength))

\* getCourseAnalytics: of a lesson that is there.
LessonEngagement(c) ==
    LET views == {x \in Enrolled : x[2] = c /\ seat[x].lesson # "unseen"}
        completions == {x \in views : seat[x].lesson = "finished"}
    IN [views |-> Cardinality(views), completions |-> Cardinality(completions),
        rate |-> Rounded(Cardinality(completions), Cardinality(views), 100)]

\* getStudentProgress: completed lessons of those that are there.
StudentPercentage(x) ==
    LET total == Cardinality({x[2]} \cap lessons) IN
    Rate(IF seat[x].lesson = "finished" THEN 1 ELSE 0, total)

-----------------------------------------------------------------------------
(* Properties *)

\* Every variable keeps its type.
ReportsTypeOK ==
    /\ today \in Calendar
    /\ shelf \in [Offered -> [price : Prices, shown : BOOLEAN]]
    /\ lessons \subseteq Offered
    /\ seat \in [Learners \X Offered -> Seats \cup {NoRow}]
    /\ receipt \in [Learners \X Offered -> Receipts \cup {NoRow}]
    /\ page \in {NoPage} \cup [subject : Subjects, enrolled : Counted \cup {Unread},
                                  completed : Counted \cup {Unread}, disturbed : BOOLEAN]

\* No page shows more than all of something as done, unless a student enrolled
\* or completed between its two counts.
RatesAreRates ==
    /\ page # NoPage /\ Unread \notin {page.enrolled, page.completed} =>
           page.disturbed \/ Rate(page.completed, page.enrolled) <= 10000
    /\ \A i \in Range(TeacherOf) :
           /\ InstructorStats(i).completionRate <= 10000
           /\ \A days \in Periods : InstructorCompletion(i, days) <= 10000
    /\ \A c \in lessons : LessonEngagement(c).rate <= 100
    /\ \A x \in Enrolled : StudentPercentage(x) <= 10000

\* Two pages that show a figure of the same rows agree: the platform's revenue
\* is that of its instructors, each counted once; no enrollment is lost or
\* counted twice by days, weeks, months, instructors, categories, courses or
\* students.  A list of the best falls short of the whole by exactly what those
\* have that it leaves out, whoever has the role of an instructor.
PagesAgree ==
    LET teachers == Range(TeacherOf)
        categories == Range(CategoryOf)
        earned == SumFunction([k \in categories |-> CategoryAnalytics(k).revenue])
        enrolled(days) == Cardinality(Selected([page |-> "overview", period |-> days]))
    IN  /\ \A days \in Periods :
             /\ SumFunction([i \in teachers |-> InstructorRevenue(i, days)])
                    = AmountOf(Paid(days))
             /\ SumFunction([i \in teachers |-> Cardinality(InstructorEnrollments(i, days))])
                    = enrolled(days)
             /\ \A i \in teachers :
                    LET perCourse == CoursePerformance(i, days)
                        shown == {x \in InstructorEnrollments(i, days) : shelf[x[2]].shown}
                    IN \A top \in TopCourses(i, days) :
                           SumFunction([c \in top |-> perCourse[c].enrollments])
                               = Cardinality(shown) - Cardinality({x \in shown : x[2] \notin top})
             /\ \A interval \in {"day", "week", "month"} :
                    LET t == Trends(days, interval) IN
                    SumFunction([k \in DOMAIN t |-> t[k].count]) = enrolled(days)
        /\ SystemStats.enrollments = enrolled(Always)
        /\ SumFunction([c \in Offered |->
                Cardinality(Selected([page |-> "course", course |-> c]))])
                = SumFunction([u \in Learners |->
                      Cardinality(Selected([page |-> "student", learner |-> u]))])
        /\ \A instructors \in SUBSET teachers :
           \A limit \in (0 - Cardinality(instructors))..Cardinality(instructors) :
           \A top \in TopInstructors(instructors, limit) :
               earned = SumFunction([i \in top |-> InstructorStats(i).revenue])
                            + StatsOf({c \in Offered : TeacherOf[c] \notin top}).revenue
        /\ SumFunction([k \in categories |-> CategoryAnalytics(k).courses]) = SystemStats.courses

\* The figures are right of the rows, which keep their types.
ReportsAgree == ReportsTypeOK /\ RatesAreRates /\ PagesAgree
===============================================================================
