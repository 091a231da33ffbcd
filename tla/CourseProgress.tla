--------------------------- MODULE CourseProgress ---------------------------
(***************************************************************************)
(* Progress of the students of one course, its completion and certificates *)
(* (src/modules/enrollments/enrollments.service.ts), while the instructor  *)
(* edits the curriculum (src/modules/lessons/lessons.service.ts), an admin *)
(* publishes it and a refund reverses an enrolment.                        *)
(*                                                                         *)
(* updateLessonProgress is a job of a worker; every query of it is one     *)
(* action, so that all it read may be stale when it writes.  A findUnique  *)
(* with nested includes is one SELECT per table.  A handler                *)
(* that checks and then writes one row, with nothing to go stale in        *)
(* between but the row's own existence, is one action.                     *)
(***************************************************************************)
EXTENDS Integers, FiniteSets

CONSTANTS
    Students,
    Sections, Lessons,
    SectionOf,          \* the section of each lesson
    Workers,            \* requests in flight at once (a bound)
    MaxEdits,           \* curriculum edits and refunds (a bound)
    MaxFaults,          \* requests that die between two awaits (a bound)
    NoRow

ASSUME ConstantsAssumption ==
    /\ SectionOf \in [Lessons -> Sections]
    /\ MaxEdits \in Nat
    /\ MaxFaults \in Nat
    /\ NoRow \notin [status : {"ACTIVE", "COMPLETED", "REFUNDED"},
                     percent : Nat, completedAt : Nat]

ASSUME FiniteAssumption == IsFiniteSet(Lessons)

VARIABLES
    section,        \* Section rows: unborn, draft, published or deleted
    lesson,         \* Lesson rows, likewise
    enrollment,     \* the Enrollment row of each student
    done,           \* the LessonProgress rows with isCompleted
    certificate,    \* the students with a Certificate row
    job,            \* the request each worker is executing
    edits, faults,  \* how often the environment acted
    finishers,      \* history: who once had completed all that stood published
    standing        \* history: what is visible ever since a worker listed the
                    \* sections, until it has listed their lessons

curriculum == <<section, lesson>>
vars == <<section, lesson, enrollment, done, certificate, job, edits, faults,
          finishers, standing>>

-----------------------------------------------------------------------------
\* percent is progressPercentage in hundredths (Decimal(5,2)); completedAt
\* counts how often the column was written, 0 when it is null.
Rows == [status : {"ACTIVE", "COMPLETED", "REFUNDED"}, percent : Nat, completedAt : Nat]

Idle == [at |-> "idle"]

Jobs ==
    {Idle}
    \cup [at : {"upsert"}, student : Students, lesson : Lessons, completed : BOOLEAN]
    \cup [at : {"recalculate", "certify"}, student : Students]
    \cup [at : {"sections"}, student : Students, already : BOOLEAN]
    \cup [at : {"lessons"}, student : Students, already : BOOLEAN, sections : SUBSET Sections]
    \cup [at : {"progress"}, student : Students, already : BOOLEAN, listed : SUBSET Lessons]
    \cup [at : {"update"}, student : Students, percent : Nat,
          complete : BOOLEAN, first : BOOLEAN]

Exists(row) == row \in {"draft", "published"}

\* What students are shown: published lessons of published sections.
Visible == {l \in Lessons : lesson[l] = "published" /\ section[SectionOf[l]] = "published"}

\* Fault: lessons that are not listed still count as completed.
CompletedOfAll(s, listed) == done[s]

\* The filter over the published ids.
CompletedLessons(s, listed) == done[s] \cap listed

IsNowComplete(s, listed) ==
    listed # {} /\ Cardinality(CompletedLessons(s, listed)) >= Cardinality(listed)

\* Fault: counting from one.
PercentBehind(n, t) == IF t = 0 THEN 0 ELSE (20000 * (n - 1) + t) \div (2 * t)

\* Number(((n / t) * 100).toFixed(2)), in hundredths.
Percent(n, t) == IF t = 0 THEN 0 ELSE (20000 * n + t) \div (2 * t)

\* All that students are shown is completed.
Learnt(s) == Visible # {} /\ Visible \subseteq done[s]

Init ==
    /\ section \in [Sections -> {"unborn", "draft", "published"}]
    /\ lesson \in [Lessons -> {"unborn", "draft", "published"}]
    /\ \A l \in Lessons : lesson[l] # "unborn" => section[SectionOf[l]] # "unborn"
    /\ enrollment = [s \in Students |-> NoRow]
    /\ done = [s \in Students |-> {}]
    /\ certificate = {}
    /\ job = [w \in Workers |-> Idle]
    /\ edits = 0
    /\ faults = 0
    /\ finishers = {}
    /\ standing = [w \in Workers |-> {}]

At(w, stage) == job[w].at = stage
Continue(w, j) == job' = [job EXCEPT ![w] = j]
Finish(w) == job' = [job EXCEPT ![w] = Idle]

-----------------------------------------------------------------------------
(* updateLessonProgress *)

ReportProgress(w, s, l, completed) ==
    /\ job[w] = Idle
    /\ Exists(lesson[l])
    /\ enrollment[s] # NoRow
    /\ Continue(w, [at |-> "upsert", student |-> s, lesson |-> l, completed |-> completed])
    /\ UNCHANGED <<curriculum, enrollment, done, certificate, edits, faults>>

\* Fault: the update writes isCompleted as the request has it.
UpsertReverting(w) ==
    /\ At(w, "upsert")
    /\ LET s == job[w].student
           l == job[w].lesson
       IN IF Exists(lesson[l])
          THEN /\ done' = [done EXCEPT ![s] = IF job[w].completed THEN @ \cup {l} ELSE @ \ {l}]
               /\ Continue(w, [at |-> "recalculate", student |-> s])
          ELSE Finish(w) /\ UNCHANGED done
    /\ UNCHANGED <<curriculum, enrollment, certificate, edits, faults>>

\* Once completed, keep it completed.  A lesson deleted meanwhile fails the
\* foreign key, and the request.
UpsertProgress(w) ==
    /\ At(w, "upsert")
    /\ LET s == job[w].student
           l == job[w].lesson
       IN IF Exists(lesson[l])
          THEN /\ done' = [done EXCEPT ![s] = IF job[w].completed THEN @ \cup {l} ELSE @]
               /\ Continue(w, [at |-> "recalculate", student |-> s])
          ELSE Finish(w) /\ UNCHANGED done
    /\ UNCHANGED <<curriculum, enrollment, certificate, edits, faults>>

\* Fault: a completed enrolment is not recalculated any more.
ReadEnrollmentUnlessComplete(w) ==
    /\ At(w, "recalculate")
    /\ LET s == job[w].student IN
         IF enrollment[s].completedAt > 0
         THEN Finish(w)
         ELSE Continue(w, [at |-> "sections", student |-> s, already |-> FALSE])
    /\ UNCHANGED <<curriculum, enrollment, done, certificate, edits, faults>>

\* updateCourseProgress, one SELECT of its findUnique after the other:
\* the enrolment, the sections, their lessons, the completed ones.
ReadEnrollment(w) ==
    /\ At(w, "recalculate")
    /\ LET s == job[w].student IN
         Continue(w, [at |-> "sections", student |-> s,
                      already |-> enrollment[s].completedAt > 0])
    /\ UNCHANGED <<curriculum, enrollment, done, certificate, edits, faults>>

ReadSections(w) ==
    /\ At(w, "sections")
    /\ Continue(w, [at |-> "lessons", student |-> job[w].student, already |-> job[w].already,
                    sections |-> {x \in Sections : section[x] = "published"}])
    /\ UNCHANGED <<curriculum, enrollment, done, certificate, edits, faults>>

ReadLessons(w) ==
    /\ At(w, "lessons")
    /\ Continue(w, [at |-> "progress", student |-> job[w].student, already |-> job[w].already,
                    listed |-> {l \in Lessons : /\ lesson[l] = "published"
                                                /\ SectionOf[l] \in job[w].sections}])
    /\ UNCHANGED <<curriculum, enrollment, done, certificate, edits, faults>>

Recalculate(w) ==
    /\ At(w, "progress")
    /\ LET s == job[w].student
           listed == job[w].listed
       IN Continue(w, [at |-> "update", student |-> s,
              percent |-> Percent(Cardinality(CompletedLessons(s, listed)), Cardinality(listed)),
              complete |-> IsNowComplete(s, listed),
              first |-> IsNowComplete(s, listed) /\ ~job[w].already])
    /\ UNCHANGED <<curriculum, enrollment, done, certificate, edits, faults>>

UpdateEnrollment(w) ==
    /\ At(w, "update")
    /\ LET j == job[w] IN
         /\ enrollment' = [enrollment EXCEPT ![j.student] =
                [status |-> IF j.complete THEN "COMPLETED" ELSE "ACTIVE",
                 percent |-> j.percent,
                 completedAt |-> @.completedAt + (IF j.first THEN 1 ELSE 0)]]
         /\ IF j.first THEN Continue(w, [at |-> "certify", student |-> j.student])
                       ELSE Finish(w)
    /\ UNCHANGED <<curriculum, done, certificate, edits, faults>>

\* Fault: generateCertificate checks the status it reads.
GenerateCertificateIfCompleted(w) ==
    /\ At(w, "certify")
    /\ certificate' = certificate \cup
          {s \in {job[w].student} : enrollment[s].status = "COMPLETED"}
    /\ Finish(w)
    /\ UNCHANGED <<curriculum, enrollment, done, edits, faults>>

\* Certificate.enrollmentId is unique: a second insert fails the request and
\* changes nothing.
GenerateCertificate(w) ==
    /\ At(w, "certify")
    /\ certificate' = certificate \cup {job[w].student}
    /\ Finish(w)
    /\ UNCHANGED <<curriculum, enrollment, done, edits, faults>>

Crash(w) ==
    /\ job[w] # Idle
    /\ faults < MaxFaults
    /\ faults' = faults + 1
    /\ Finish(w)
    /\ UNCHANGED <<curriculum, enrollment, done, certificate, edits>>

-----------------------------------------------------------------------------
(* Enrolment and refund, as payments.service writes the row *)

Enroll(s) ==
    /\ enrollment[s] = NoRow
    /\ enrollment' = [enrollment EXCEPT ![s] =
                        [status |-> "ACTIVE", percent |-> 0, completedAt |-> 0]]
    /\ UNCHANGED <<curriculum, done, certificate, job, edits, faults>>

Refund(s) ==
    /\ enrollment[s] # NoRow
    /\ edits < MaxEdits
    /\ edits' = edits + 1
    /\ enrollment' = [enrollment EXCEPT ![s].status = "REFUNDED"]
    /\ UNCHANGED <<curriculum, done, certificate, job, faults>>

-----------------------------------------------------------------------------
(* The curriculum *)

Edit ==
    /\ edits < MaxEdits
    /\ edits' = edits + 1
    /\ UNCHANGED <<enrollment, certificate, job, faults>>

CreateSection(x) ==
    /\ section[x] = "unborn"
    /\ section' = [section EXCEPT ![x] = "draft"]
    /\ UNCHANGED <<lesson, done>>

UpdateSection(x) ==
    /\ Exists(section[x])
    /\ \E state \in {"draft", "published"} : section' = [section EXCEPT ![x] = state]
    /\ UNCHANGED <<lesson, done>>

\* onDelete: Cascade takes the lessons and their progress rows along.
DeleteSection(x) ==
    /\ Exists(section[x])
    /\ section' = [section EXCEPT ![x] = "deleted"]
    /\ lesson' = [l \in Lessons |-> IF SectionOf[l] = x THEN "deleted" ELSE lesson[l]]
    /\ done' = [s \in Students |-> {l \in done[s] : SectionOf[l] # x}]

CreateLesson(l) ==
    /\ lesson[l] = "unborn"
    /\ Exists(section[SectionOf[l]])
    /\ lesson' = [lesson EXCEPT ![l] = "draft"]
    /\ UNCHANGED <<section, done>>

UpdateLesson(l) ==
    /\ Exists(lesson[l])
    /\ \E state \in {"draft", "published"} : lesson' = [lesson EXCEPT ![l] = state]
    /\ UNCHANGED <<section, done>>

DeleteLesson(l) ==
    /\ Exists(lesson[l])
    /\ lesson' = [lesson EXCEPT ![l] = "deleted"]
    /\ done' = [s \in Students |-> done[s] \ {l}]
    /\ UNCHANGED section

\* Approval publishes all there is, in one transaction.
ApproveCourse ==
    /\ section' = [x \in Sections |-> IF section[x] = "draft" THEN "published" ELSE section[x]]
    /\ lesson' = [l \in Lessons |-> IF lesson[l] = "draft" THEN "published" ELSE lesson[l]]
    /\ UNCHANGED done

EditCurriculum ==
    /\ Edit
    /\ \/ \E x \in Sections : CreateSection(x) \/ UpdateSection(x) \/ DeleteSection(x)
       \/ \E l \in Lessons : CreateLesson(l) \/ UpdateLesson(l) \/ DeleteLesson(l)
       \/ ApproveCourse

-----------------------------------------------------------------------------
Report(s, l, completed) == \E w \in Workers : ReportProgress(w, s, l, completed)

Proceed(w) ==
    \/ UpsertProgress(w)
    \/ ReadEnrollment(w) \/ ReadSections(w) \/ ReadLessons(w) \/ Recalculate(w)
    \/ UpdateEnrollment(w) \/ GenerateCertificate(w)

Step ==
    \/ \E s \in Students, l \in Lessons, completed \in BOOLEAN : Report(s, l, completed)
    \/ \E w \in Workers : Proceed(w) \/ Crash(w)
    \/ \E s \in Students : Enroll(s) \/ Refund(s)
    \/ EditCurriculum

\* While a worker holds a list of lessons: the student has completed something,
\* and all that stood published between the first and the last of its SELECTs.
Covered(s) ==
    \E w \in Workers : /\ At(w, "progress")
                       /\ job[w].student = s
                       /\ done[s] # {}
                       /\ standing[w] \subseteq done[s]

Stand(w) ==
    CASE At(w, "lessons")' -> (IF At(w, "lessons") THEN standing[w] ELSE Lessons) \cap Visible'
      [] At(w, "progress")' -> standing[w]
      [] OTHER -> {}

\* The history variables look at the state every step leads to.
History ==
    /\ standing' = [w \in Workers |-> Stand(w)]
    /\ finishers' = finishers \cup {s \in Students : Covered(s)'}

Next == Step /\ History

Spec == Init /\ [][Next]_vars

\* Requests run to completion, and the player of an enrolled student goes on
\* reporting each lesson it shows.
Fairness ==
    /\ \A w \in Workers : WF_vars(Proceed(w) /\ History)
    /\ \A s \in Students, l \in Lessons : SF_vars(Report(s, l, FALSE) /\ History)

FairSpec == Spec /\ Fairness

-----------------------------------------------------------------------------
(* Properties *)

TypeOK ==
    /\ section \in [Sections -> {"unborn", "draft", "published", "deleted"}]
    /\ lesson \in [Lessons -> {"unborn", "draft", "published", "deleted"}]
    /\ enrollment \in [Students -> Rows \cup {NoRow}]
    /\ done \in [Students -> SUBSET Lessons]
    /\ certificate \subseteq Students
    /\ job \in [Workers -> Jobs]
    /\ edits \in 0..MaxEdits
    /\ faults \in 0..MaxFaults
    /\ finishers \subseteq Students
    /\ standing \in [Workers -> SUBSET Lessons]

HasCompleted(s) == enrollment[s] # NoRow /\ enrollment[s].completedAt > 0

\* A certificate stands for a completed enrolment, and completion for a moment
\* in which the student had completed something, and every lesson that stood
\* published from the SELECT of the sections to the one of the lessons: what a
\* completion passes over was published or taken back while it was counted.  No
\* stale recalculation and no curriculum edit forges more.
CertificateIsEarned ==
    /\ \A s \in certificate : HasCompleted(s)
    /\ \A s \in Students : HasCompleted(s) => s \in finishers

\* Progress never exceeds 100%, although lessons are unpublished and deleted
\* after they were completed (the column would hold more).
PercentInRange ==
    \A s \in Students : enrollment[s] # NoRow => enrollment[s].percent <= 10000

\* Only a request that died loses the certificate of a completed enrolment.
CertificateIsComing ==
    \A s \in Students : HasCompleted(s) =>
        \/ s \in certificate
        \/ \E w \in Workers : At(w, "certify") /\ job[w].student = s
        \/ faults > 0

\* A certificate is earned, and what earns one gets it, but for a crash.
CertificatesAreSound == CertificateIsEarned /\ CertificateIsComing

\* "Once completed, keep it completed": progress, the date of completion and
\* the certificate survive every later report, recalculation and refund.
NothingIsUnlearnt ==
    [][\A s \in Students :
         /\ \A l \in done[s] : Exists(lesson'[l]) => l \in done'[s]
         /\ HasCompleted(s) => HasCompleted(s)'
         /\ s \in certificate => s \in certificate']_vars

\* A student who has completed everything published, for good, is certified.
LearnerIsCertified ==
    \A s \in Students : <>[](enrollment[s] # NoRow /\ Learnt(s)) => <>(s \in certificate)

\* Whatever stale recalculations wrote before, the row ends up COMPLETED.
ProgressCatchesUp ==
    \A s \in Students :
        <>[](enrollment[s] # NoRow /\ Learnt(s))
            => <>[](/\ enrollment[s] # NoRow
                    /\ enrollment[s].status = "COMPLETED" /\ enrollment[s].percent = 10000)

\* Both come of a course that is learnt, however the reports overlapped.
LearningSettles == LearnerIsCertified /\ ProgressCatchesUp

\* What a running request carries holds good: its list of lessons has all that
\* stood published since it read the sections, and who it finds complete has
\* finished.
JobsStillJustified ==
    \A w \in Workers :
        /\ job[w] # Idle => enrollment[job[w].student] # NoRow
        /\ At(w, "lessons") => \A l \in standing[w] : /\ l \in Visible
                                                    /\ SectionOf[l] \in job[w].sections
        /\ At(w, "progress") => standing[w] \subseteq job[w].listed
        /\ At(w, "update") =>
             /\ job[w].complete => job[w].student \in finishers
             /\ job[w].first => job[w].complete
             /\ job[w].percent <= 10000
        /\ At(w, "certify") => HasCompleted(job[w].student)

\* The milestones of a student, in the order CompletionRegister allows.
Milestone(s) ==
    CASE s \in certificate -> "certified"
      [] s \notin certificate /\ HasCompleted(s) -> "completed"
      [] s \notin certificate /\ ~HasCompleted(s) /\ s \in finishers -> "finished"
      [] OTHER -> "learning"

Register == INSTANCE CompletionRegister WITH milestone <- [s \in Students |-> Milestone(s)]

\* Each student passes the milestones in order and never goes back.
ImplementsRegister == Register!Spec

-----------------------------------------------------------------------------
(* What comments of the code claim, and it does not keep *)

\* "Refund a completed payment: reverse the enrollment": it stays reversed.
RefundStays ==
    [][\A s \in Students :
         enrollment[s] # NoRow /\ enrollment[s].status = "REFUNDED"
           => enrollment'[s].status = "REFUNDED"]_vars
=============================================================================
