------------------------ MODULE CourseProgressProofs ------------------------
(* Proofs about CourseProgress. *)
EXTENDS CourseProgress, FiniteSetTheorems, TLAPS

USE DEF curriculum, Continue, Finish, At, Idle

-----------------------------------------------------------------------------
(* What the recalculation computes *)

LEMMA CancelFactor ==
    ASSUME NEW b \in Nat \ {0}, NEW q \in Nat, NEW r \in Nat, b * q < b * r
    PROVE  q < r
<1> SUFFICES ASSUME r <= q PROVE FALSE
  OBVIOUS
<1>1. PICK d \in Nat : q = r + d
  OBVIOUS
<1>2. b * q = b * r + b * d
  BY <1>1
<1>3. b * d \in Nat /\ b * r \in Nat
  OBVIOUS
<1> QED
  BY <1>2, <1>3

LEMMA PercentBound ==
    ASSUME NEW n \in Nat, NEW t \in Nat, n <= t
    PROVE  Percent(n, t) \in Nat /\ Percent(n, t) <= 10000
<1>1. CASE t = 0
  BY <1>1 DEF Percent
<1>2. CASE t # 0
  <2> DEFINE a == 20000 * n + t
             b == 2 * t
             q == a \div b
  <2>1. a \in Nat /\ b \in Nat \ {0}
    BY <1>2
  <2>2. a < b * 10001
    BY <1>2
  <2> HIDE DEF a, b
  <2>3. q \in Nat /\ b * q <= a
    BY <2>1
  <2>4. b * q < b * 10001
    BY <2>1, <2>2, <2>3
  <2>5. q < 10001
    BY <2>1, <2>3, <2>4, CancelFactor
  <2> QED
    BY <1>2, <2>3, <2>5 DEF Percent, a, b
<1> QED
  BY <1>1, <1>2

\* Counting decides completeness: what is completed is among what is listed.
LEMMA CompleteMeansAll ==
    ASSUME NEW s \in Students, NEW listed \in SUBSET Lessons
    PROVE  /\ Cardinality(CompletedLessons(s, listed)) \in Nat
           /\ Cardinality(listed) \in Nat
           /\ Cardinality(CompletedLessons(s, listed)) <= Cardinality(listed)
           /\ IsNowComplete(s, listed) <=> listed # {} /\ listed \subseteq done[s]
<1>1. IsFiniteSet(listed)
  BY FiniteAssumption, FS_Subset
<1>2. CompletedLessons(s, listed) \subseteq listed
  BY DEF CompletedLessons
<1>3. /\ IsFiniteSet(CompletedLessons(s, listed))
      /\ Cardinality(CompletedLessons(s, listed)) <= Cardinality(listed)
      /\ Cardinality(CompletedLessons(s, listed)) = Cardinality(listed)
           => CompletedLessons(s, listed) = listed
  BY <1>1, <1>2, FS_Subset
<1>4. Cardinality(CompletedLessons(s, listed)) \in Nat /\ Cardinality(listed) \in Nat
  BY <1>1, <1>3, FS_CardinalityType
<1>5. IsNowComplete(s, listed) => listed # {} /\ listed \subseteq done[s]
  BY <1>3, <1>4 DEF IsNowComplete, CompletedLessons
<1>6. listed # {} /\ listed \subseteq done[s] => IsNowComplete(s, listed)
  <2>1. listed \subseteq done[s] => CompletedLessons(s, listed) = listed
    BY DEF CompletedLessons
  <2> QED
    BY <1>4, <2>1 DEF IsNowComplete
<1> QED
  BY <1>3, <1>4, <1>5, <1>6

LEMMA PercentOfStudent ==
    ASSUME NEW s \in Students, NEW listed \in SUBSET Lessons
    PROVE  /\ Percent(Cardinality(CompletedLessons(s, listed)), Cardinality(listed)) \in Nat
           /\ Percent(Cardinality(CompletedLessons(s, listed)), Cardinality(listed)) <= 10000
  BY CompleteMeansAll, PercentBound

-----------------------------------------------------------------------------
(* The inductive invariant *)

Covering == \A s \in Students : Covered(s) => s \in finishers

IInv ==
    /\ TypeOK
    /\ JobsStillJustified
    /\ CertificateIsEarned
    /\ PercentInRange
    /\ CertificateIsComing
    /\ Covering

LEMMA RowFields ==
    ASSUME TypeOK, NEW s \in Students, enrollment[s] # NoRow
    PROVE  /\ enrollment[s] \in Rows
           /\ enrollment[s].status \in {"ACTIVE", "COMPLETED", "REFUNDED"}
           /\ enrollment[s].percent \in Nat
           /\ enrollment[s].completedAt \in Nat
<1>1. enrollment[s] \in Rows
  BY DEF TypeOK
<1> QED
  BY <1>1 DEF Rows

LEMMA RowsExist == ASSUME NEW r \in Rows PROVE r # NoRow
  BY ConstantsAssumption DEF Rows

LEMMA JobFields ==
    ASSUME TypeOK, NEW w \in Workers
    PROVE  /\ job[w] \in Jobs
           /\ At(w, "upsert") => /\ job[w].student \in Students
                                 /\ job[w].lesson \in Lessons
                                 /\ job[w].completed \in BOOLEAN
           /\ At(w, "recalculate") => job[w].student \in Students
           /\ At(w, "certify") => job[w].student \in Students
           /\ At(w, "sections") => /\ job[w].student \in Students
                                   /\ job[w].already \in BOOLEAN
           /\ At(w, "lessons") => /\ job[w].student \in Students
                                  /\ job[w].already \in BOOLEAN
                                  /\ job[w].sections \subseteq Sections
           /\ At(w, "progress") => /\ job[w].student \in Students
                                   /\ job[w].already \in BOOLEAN
                                   /\ job[w].listed \subseteq Lessons
           /\ At(w, "update") => /\ job[w].student \in Students
                                 /\ job[w].percent \in Nat
                                 /\ job[w].complete \in BOOLEAN
                                 /\ job[w].first \in BOOLEAN
<1>1. job[w] \in Jobs
  BY DEF TypeOK
<1>2. CASE job[w] = Idle
  BY <1>1, <1>2
<1>3. CASE job[w] \in [at : {"upsert"}, student : Students, lesson : Lessons, completed : BOOLEAN]
  BY <1>1, <1>3
<1>4. CASE job[w] \in [at : {"recalculate", "certify"}, student : Students]
  BY <1>1, <1>4
<1>5. CASE job[w] \in [at : {"update"}, student : Students, percent : Nat,
                       complete : BOOLEAN, first : BOOLEAN]
  BY <1>1, <1>5
<1>6. CASE job[w] \in [at : {"sections"}, student : Students, already : BOOLEAN]
  BY <1>1, <1>6
<1>7. CASE job[w] \in [at : {"lessons"}, student : Students, already : BOOLEAN,
                       sections : SUBSET Sections]
  BY <1>1, <1>7
<1>8. CASE job[w] \in [at : {"progress"}, student : Students, already : BOOLEAN,
                       listed : SUBSET Lessons]
  BY <1>1, <1>8
<1> QED
  BY <1>1, <1>2, <1>3, <1>4, <1>5, <1>6, <1>7, <1>8 DEF Jobs

\* One request moves, or none.
LEMMA JobMoves ==
    ASSUME TypeOK, NEW w \in Workers, NEW j, job' = [job EXCEPT ![w] = j]
    PROVE  /\ job'[w] = j
           /\ \A v \in Workers : v # w => job'[v] = job[v]
           /\ j \in Jobs => job' \in [Workers -> Jobs]
  BY DEF TypeOK

LEMMA JobShapes ==
    /\ Idle \in Jobs
    /\ \A s \in Students, l \in Lessons, c \in BOOLEAN :
         [at |-> "upsert", student |-> s, lesson |-> l, completed |-> c] \in Jobs
    /\ \A s \in Students :
         /\ [at |-> "recalculate", student |-> s] \in Jobs
         /\ [at |-> "certify", student |-> s] \in Jobs
    /\ \A s \in Students, a \in BOOLEAN :
         [at |-> "sections", student |-> s, already |-> a] \in Jobs
    /\ \A s \in Students, a \in BOOLEAN, xs \in SUBSET Sections :
         [at |-> "lessons", student |-> s, already |-> a, sections |-> xs] \in Jobs
    /\ \A s \in Students, a \in BOOLEAN, ls \in SUBSET Lessons :
         [at |-> "progress", student |-> s, already |-> a, listed |-> ls] \in Jobs
    /\ \A s \in Students, p \in Nat, c \in BOOLEAN, f \in BOOLEAN :
         [at |-> "update", student |-> s, percent |-> p, complete |-> c, first |-> f] \in Jobs
  BY DEF Jobs

-----------------------------------------------------------------------------
(* Types *)

LEMMA TypeCurriculum ==
    ASSUME TypeOK, EditCurriculum
    PROVE  /\ section' \in [Sections -> {"unborn", "draft", "published", "deleted"}]
           /\ lesson' \in [Lessons -> {"unborn", "draft", "published", "deleted"}]
           /\ done' \in [Students -> SUBSET Lessons]
           /\ edits' \in 0..MaxEdits
           /\ UNCHANGED <<enrollment, certificate, job, faults>>
<1> USE DEF TypeOK
<1>1. /\ edits' \in 0..MaxEdits
      /\ UNCHANGED <<enrollment, certificate, job, faults>>
  BY ConstantsAssumption DEF EditCurriculum, Edit
<1>2. ASSUME NEW x \in Sections, CreateSection(x) \/ UpdateSection(x) \/ DeleteSection(x)
      PROVE  /\ section' \in [Sections -> {"unborn", "draft", "published", "deleted"}]
             /\ lesson' \in [Lessons -> {"unborn", "draft", "published", "deleted"}]
             /\ done' \in [Students -> SUBSET Lessons]
  BY <1>2 DEF CreateSection, UpdateSection, DeleteSection
<1>3. ASSUME NEW l \in Lessons, CreateLesson(l) \/ UpdateLesson(l) \/ DeleteLesson(l)
      PROVE  /\ section' \in [Sections -> {"unborn", "draft", "published", "deleted"}]
             /\ lesson' \in [Lessons -> {"unborn", "draft", "published", "deleted"}]
             /\ done' \in [Students -> SUBSET Lessons]
  BY <1>3 DEF CreateLesson, UpdateLesson, DeleteLesson
<1>4. ASSUME ApproveCourse
      PROVE  /\ section' \in [Sections -> {"unborn", "draft", "published", "deleted"}]
             /\ lesson' \in [Lessons -> {"unborn", "draft", "published", "deleted"}]
             /\ done' \in [Students -> SUBSET Lessons]
  BY <1>4 DEF ApproveCourse
<1> QED
  BY <1>1, <1>2, <1>3, <1>4 DEF EditCurriculum

\* The first three SELECTs only move their worker.
LEMMA ReadSteps ==
    ASSUME TypeOK, NEW w \in Workers, ReadEnrollment(w) \/ ReadSections(w) \/ ReadLessons(w)
    PROVE  /\ UNCHANGED <<section, lesson, enrollment, done, certificate, edits, faults>>
           /\ job[w] # Idle
           /\ \E j \in Jobs :
                /\ job' = [job EXCEPT ![w] = j]
                /\ j # Idle
                /\ j.student = job[w].student
                /\ j.at \in {"sections", "lessons", "progress"}
<1>1. CASE ReadEnrollment(w)
  <2> DEFINE s == job[w].student
             a == enrollment[s].completedAt > 0
             j == [at |-> "sections", student |-> s, already |-> a]
  <2>1. s \in Students
    BY <1>1, JobFields DEF ReadEnrollment
  <2>2. j \in Jobs
    <3>1. a \in BOOLEAN
      OBVIOUS
    <3> HIDE DEF s, a
    <3> QED
      BY <2>1, <3>1, JobShapes
  <2>3. /\ UNCHANGED <<section, lesson, enrollment, done, certificate, edits, faults>>
        /\ job[w] # Idle
        /\ job' = [job EXCEPT ![w] = j]
    BY <1>1 DEF ReadEnrollment
  <2>4. j.student = job[w].student /\ j.at = "sections"
    OBVIOUS
  <2>5. j # Idle
    BY <2>4
  <2> HIDE DEF j
  <2> QED
    BY <2>2, <2>3, <2>4, <2>5
<1>2. CASE ReadSections(w)
  <2> DEFINE xs == {x \in Sections : section[x] = "published"}
             j == [at |-> "lessons", student |-> job[w].student, already |-> job[w].already,
                   sections |-> xs]
  <2>1. j \in Jobs
    <3>1. xs \in SUBSET Sections /\ job[w].student \in Students /\ job[w].already \in BOOLEAN
      BY <1>2, JobFields DEF ReadSections
    <3> HIDE DEF xs
    <3> QED
      BY <3>1, JobShapes
  <2>3. /\ UNCHANGED <<section, lesson, enrollment, done, certificate, edits, faults>>
        /\ job[w] # Idle
        /\ job' = [job EXCEPT ![w] = j]
    BY <1>2 DEF ReadSections
  <2>4. j.student = job[w].student /\ j.at = "lessons"
    OBVIOUS
  <2>5. j # Idle
    BY <2>4
  <2> HIDE DEF j
  <2> QED
    BY <2>1, <2>3, <2>4, <2>5
<1>3. CASE ReadLessons(w)
  <2> DEFINE ls == {l \in Lessons : lesson[l] = "published" /\ SectionOf[l] \in job[w].sections}
             j == [at |-> "progress", student |-> job[w].student, already |-> job[w].already,
                   listed |-> ls]
  <2>1. j \in Jobs
    <3>1. ls \in SUBSET Lessons /\ job[w].student \in Students /\ job[w].already \in BOOLEAN
      BY <1>3, JobFields DEF ReadLessons
    <3> HIDE DEF ls
    <3> QED
      BY <3>1, JobShapes
  <2>3. /\ UNCHANGED <<section, lesson, enrollment, done, certificate, edits, faults>>
        /\ job[w] # Idle
        /\ job' = [job EXCEPT ![w] = j]
    BY <1>3 DEF ReadLessons
  <2>4. j.student = job[w].student /\ j.at = "progress"
    OBVIOUS
  <2>5. j # Idle
    BY <2>4
  <2> HIDE DEF j
  <2> QED
    BY <2>1, <2>3, <2>4, <2>5
<1> QED
  BY <1>1, <1>2, <1>3

LEMMA HistoryTypes ==
    ASSUME TypeOK, Next
    PROVE  finishers' \subseteq Students /\ standing' \in [Workers -> SUBSET Lessons]
<1>1. ASSUME NEW w \in Workers
      PROVE  Stand(w) \subseteq Lessons
  BY DEF Stand, TypeOK
<1>2. standing' = [w \in Workers |-> Stand(w)]
  BY DEF Next, History
<1>3. finishers' = finishers \cup {s \in Students : Covered(s)'}
  BY DEF Next, History
<1>4. finishers' \subseteq Students
  BY <1>3 DEF TypeOK
<1> QED
  BY <1>1, <1>2, <1>4

LEMMA TypeStep ==
    ASSUME TypeOK, JobsStillJustified, Next
    PROVE  TypeOK'
<1>1. finishers' \subseteq Students /\ standing' \in [Workers -> SUBSET Lessons]
  BY HistoryTypes
<1>2. ASSUME NEW w \in Workers, NEW s \in Students, NEW l \in Lessons,
             NEW c \in BOOLEAN, ReportProgress(w, s, l, c)
      PROVE  TypeOK'
  BY <1>1, <1>2, JobShapes DEF ReportProgress, TypeOK
<1>3. ASSUME NEW w \in Workers, UpsertProgress(w)
      PROVE  TypeOK'
  <2> DEFINE s == job[w].student
             l == job[w].lesson
  <2>1. s \in Students /\ l \in Lessons
    BY <1>3, JobFields DEF UpsertProgress
  <2>2. done' \in [Students -> SUBSET Lessons]
    BY <1>3, <2>1 DEF UpsertProgress, TypeOK
  <2>3. /\ UNCHANGED <<section, lesson, enrollment, certificate, edits, faults>>
        /\ \/ job' = [job EXCEPT ![w] = [at |-> "recalculate", student |-> s]]
           \/ job' = [job EXCEPT ![w] = Idle]
    BY <1>3 DEF UpsertProgress
  <2> HIDE DEF s, l
  <2>4. job' \in [Workers -> Jobs]
    BY <2>1, <2>3, JobShapes DEF TypeOK
  <2> QED
    BY <1>1, <2>2, <2>3, <2>4 DEF TypeOK
<1>4. ASSUME NEW w \in Workers, Recalculate(w)
      PROVE  TypeOK'
  <2> DEFINE s == job[w].student
             ls == job[w].listed
             p == Percent(Cardinality(CompletedLessons(s, ls)), Cardinality(ls))
             c == IsNowComplete(s, ls)
             f == c /\ ~job[w].already
  <2>1. s \in Students /\ ls \in SUBSET Lessons
    BY <1>4, JobFields DEF Recalculate
  <2>2. p \in Nat
    <3> HIDE DEF s, ls
    <3>1. p \in Nat /\ p <= 10000
      BY <2>1, PercentOfStudent
    <3> HIDE DEF p
    <3> QED
      BY <3>1
  <2>3. c \in BOOLEAN /\ f \in BOOLEAN
    BY DEF IsNowComplete
  <2>4. /\ job' = [job EXCEPT ![w] = [at |-> "update", student |-> s, percent |-> p,
                                      complete |-> c, first |-> f]]
        /\ UNCHANGED <<section, lesson, enrollment, done, certificate, edits, faults>>
    BY <1>4 DEF Recalculate
  <2> HIDE DEF s, ls, p, c, f
  <2>5. job' \in [Workers -> Jobs]
    <3> DEFINE j == [at |-> "update", student |-> s, percent |-> p,
                     complete |-> c, first |-> f]
    <3>1. j \in Jobs
      BY <2>1, <2>2, <2>3, JobShapes
    <3>2. job' = [job EXCEPT ![w] = j]
      BY <2>4
    <3> HIDE DEF j
    <3> QED
      BY <3>1, <3>2 DEF TypeOK
  <2> QED
    BY <1>1, <2>4, <2>5 DEF TypeOK
<1>5. ASSUME NEW w \in Workers, UpdateEnrollment(w)
      PROVE  TypeOK'
  <2> DEFINE j == job[w]
             row == [status |-> IF j.complete THEN "COMPLETED" ELSE "ACTIVE",
                     percent |-> j.percent,
                     completedAt |-> enrollment[j.student].completedAt
                                       + (IF j.first THEN 1 ELSE 0)]
  <2>1. /\ j.student \in Students /\ j.percent \in Nat
        /\ enrollment[j.student] # NoRow
    BY <1>5, JobFields DEF UpdateEnrollment, JobsStillJustified
  <2>2. row \in Rows
    BY <2>1, RowFields DEF Rows
  <2>3. enrollment' = [enrollment EXCEPT ![j.student] = row]
    BY <1>5, <2>1 DEF UpdateEnrollment, TypeOK
  <2>4. job' \in [Workers -> Jobs]
    <3>1. \/ job' = [job EXCEPT ![w] = [at |-> "certify", student |-> j.student]]
          \/ job' = [job EXCEPT ![w] = Idle]
      BY <1>5 DEF UpdateEnrollment
    <3> HIDE DEF j
    <3> QED
      BY <2>1, <3>1, JobShapes DEF TypeOK
  <2> HIDE DEF row
  <2> QED
    <3>1. UNCHANGED <<section, lesson, done, certificate, edits, faults>>
      BY <1>5 DEF UpdateEnrollment
    <3>2. enrollment' \in [Students -> Rows \cup {NoRow}]
      BY <2>2, <2>3 DEF TypeOK
    <3> HIDE DEF j
    <3> QED
      BY <1>1, <2>4, <3>1, <3>2 DEF TypeOK
<1>6. ASSUME NEW w \in Workers, GenerateCertificate(w)
      PROVE  TypeOK'
  BY <1>1, <1>6, JobFields, JobShapes DEF GenerateCertificate, TypeOK
<1>7. ASSUME NEW w \in Workers, Crash(w)
      PROVE  TypeOK'
  BY <1>1, <1>7, JobShapes, ConstantsAssumption DEF Crash, TypeOK
<1>8. ASSUME NEW s \in Students, Enroll(s)
      PROVE  TypeOK'
  BY <1>1, <1>8 DEF Enroll, TypeOK, Rows
<1>9. ASSUME NEW s \in Students, Refund(s)
      PROVE  TypeOK'
  <2> DEFINE row == [enrollment[s] EXCEPT !.status = "REFUNDED"]
  <2>1. enrollment[s] \in Rows
    BY <1>9, RowFields DEF Refund
  <2>2. row \in Rows
    BY <2>1 DEF Rows
  <2>3. enrollment' = [enrollment EXCEPT ![s] = row]
    BY <1>9 DEF Refund, TypeOK
  <2> HIDE DEF row
  <2> QED
    BY <1>1, <1>9, <2>2, <2>3, ConstantsAssumption DEF Refund, TypeOK
<1>10. ASSUME EditCurriculum
       PROVE  TypeOK'
  BY <1>1, <1>10, TypeCurriculum DEF TypeOK
<1>11. ASSUME NEW w \in Workers, ReadEnrollment(w) \/ ReadSections(w) \/ ReadLessons(w)
       PROVE  TypeOK'
  <2>1. /\ UNCHANGED <<section, lesson, enrollment, done, certificate, edits, faults>>
        /\ \E j \in Jobs : job' = [job EXCEPT ![w] = j]
    BY <1>11, ReadSteps
  <2>2. job' \in [Workers -> Jobs]
    BY <2>1 DEF TypeOK
  <2> QED
    BY <1>1, <2>1, <2>2 DEF TypeOK
<1> QED
  BY <1>2, <1>3, <1>4, <1>5, <1>6, <1>7, <1>8, <1>9, <1>10, <1>11
     DEF Next, Step, Report, Proceed

-----------------------------------------------------------------------------
(* What no step takes back *)

LEMMA Monotone ==
    ASSUME TypeOK, JobsStillJustified, Next
    PROVE  /\ \A s \in Students :
                /\ enrollment[s] # NoRow => enrollment'[s] # NoRow
                /\ HasCompleted(s) => HasCompleted(s)'
           /\ certificate \subseteq certificate'
           /\ finishers \subseteq finishers'
           /\ faults > 0 => faults' > 0
<1>1. finishers \subseteq finishers'
  BY DEF Next, History
<1>2. ASSUME NEW w \in Workers, UpdateEnrollment(w), NEW s \in Students
      PROVE  /\ enrollment[s] # NoRow => enrollment'[s] # NoRow
             /\ HasCompleted(s) => HasCompleted(s)'
  <2>1. CASE s # job[w].student
    BY <1>2, <2>1 DEF UpdateEnrollment, TypeOK, HasCompleted
  <2>2. CASE s = job[w].student
    <3>1. TypeOK'
      BY TypeStep
    <3>2. enrollment[s] # NoRow
      BY <1>2, <2>2 DEF UpdateEnrollment, JobsStillJustified
    <3>3. /\ enrollment'[s].completedAt =
               enrollment[s].completedAt + (IF job[w].first THEN 1 ELSE 0)
          /\ enrollment'[s] = [status |-> enrollment'[s].status,
                               percent |-> enrollment'[s].percent,
                               completedAt |-> enrollment'[s].completedAt]
      BY <1>2, <2>2 DEF UpdateEnrollment, TypeOK
    <3>4. enrollment'[s] # NoRow
      <4>1. /\ job[w].percent \in Nat /\ job[w].complete \in BOOLEAN /\ job[w].first \in BOOLEAN
        BY <1>2, JobFields DEF UpdateEnrollment
      <4>2. enrollment[s].completedAt \in Nat
        BY <3>2, RowFields
      <4>3. enrollment'[s] \in Rows
        BY <1>2, <2>2, <4>1, <4>2 DEF UpdateEnrollment, TypeOK, Rows
      <4> QED
        BY <4>3, RowsExist
    <3>5. enrollment[s].completedAt \in Nat
      BY <3>2, RowFields
    <3> QED
      BY <3>2, <3>3, <3>4, <3>5 DEF HasCompleted
  <2> QED
    BY <2>1, <2>2
<1>3. ASSUME NEW x \in Students, Enroll(x), NEW s \in Students
      PROVE  /\ enrollment[s] # NoRow => enrollment'[s] # NoRow
             /\ HasCompleted(s) => HasCompleted(s)'
  BY <1>3 DEF Enroll, HasCompleted, TypeOK
<1>4. ASSUME NEW x \in Students, Refund(x), NEW s \in Students
      PROVE  /\ enrollment[s] # NoRow => enrollment'[s] # NoRow
             /\ HasCompleted(s) => HasCompleted(s)'
  <2>1. CASE s # x
    BY <1>4, <2>1 DEF Refund, TypeOK, HasCompleted
  <2>2. CASE s = x
    <3>1. enrollment[s] \in Rows /\ enrollment[s] # NoRow
      BY <1>4, <2>2, RowFields DEF Refund
    <3>2. enrollment'[s] = [enrollment[s] EXCEPT !.status = "REFUNDED"]
      BY <1>4, <2>2 DEF Refund, TypeOK
    <3>3. enrollment'[s] \in Rows /\ enrollment'[s].completedAt = enrollment[s].completedAt
      BY <3>1, <3>2 DEF Rows
    <3> QED
      BY <3>1, <3>3, RowsExist DEF HasCompleted
  <2> QED
    BY <2>1, <2>2
<1>5. CASE UNCHANGED enrollment
  <2>1. \A s \in Students : HasCompleted(s)' = HasCompleted(s)
    BY <1>5 DEF HasCompleted
  <2>2. certificate \subseteq certificate' /\ (faults > 0 => faults' > 0)
    <3>1. certificate \subseteq certificate' /\ (faults' = faults \/ faults' = faults + 1)
      BY DEF Next, Step, Report, Proceed, ReportProgress, UpsertProgress, ReadEnrollment,
     ReadSections, ReadLessons, Recalculate,
         UpdateEnrollment, GenerateCertificate, Crash, Enroll, Refund, EditCurriculum, Edit
    <3>2. faults \in Nat
      BY ConstantsAssumption DEF TypeOK
    <3> QED
      BY <3>1, <3>2
  <2> QED
    BY <1>1, <1>5, <2>1, <2>2
<1>6. \/ UNCHANGED enrollment
      \/ /\ UNCHANGED <<certificate, faults>>
         /\ \/ \E w \in Workers : UpdateEnrollment(w)
            \/ \E s \in Students : Enroll(s) \/ Refund(s)
  BY DEF Next, Step, Report, Proceed, ReportProgress, UpsertProgress, ReadEnrollment,
     ReadSections, ReadLessons, Recalculate,
     UpdateEnrollment, GenerateCertificate, Crash, Enroll, Refund, EditCurriculum, Edit
<1> QED
  BY <1>1, <1>2, <1>3, <1>4, <1>5, <1>6

-----------------------------------------------------------------------------
(* Requests in flight *)

Justified(w) ==
    /\ job[w] # Idle => enrollment[job[w].student] # NoRow
    /\ At(w, "lessons") => \A l \in standing[w] : /\ l \in Visible
                                                /\ SectionOf[l] \in job[w].sections
    /\ At(w, "progress") => standing[w] \subseteq job[w].listed
    /\ At(w, "update") =>
         /\ job[w].complete => job[w].student \in finishers
         /\ job[w].first => job[w].complete
         /\ job[w].percent <= 10000
    /\ At(w, "certify") => HasCompleted(job[w].student)

LEMMA StudentOfJob ==
    ASSUME TypeOK, NEW w \in Workers, job[w] # Idle
    PROVE  job[w].student \in Students
  BY JobFields DEF Jobs

LEMMA JustifiedSame ==
    ASSUME IInv, Next, NEW v \in Workers, job'[v] = job[v]
    PROVE  Justified(v)'
<1>1. TypeOK /\ JobsStillJustified
  BY DEF IInv
<1>2. Justified(v)
  BY <1>1 DEF JobsStillJustified, Justified
<1>3. CASE job[v] = Idle
  BY <1>3 DEF Justified
<1>4. CASE job[v] # Idle
  <2>1. job[v].student \in Students
    BY <1>1, <1>4, StudentOfJob
  <2>2. /\ enrollment'[job[v].student] # NoRow
        /\ HasCompleted(job[v].student) => HasCompleted(job[v].student)'
        /\ finishers \subseteq finishers'
    BY <1>1, <1>2, <1>4, <2>1, Monotone DEF Justified
  <2>3. /\ At(v, "lessons") => standing'[v] = standing[v] \cap Visible'
        /\ At(v, "progress") => standing'[v] = standing[v]
    BY DEF Next, History, Stand
  <2> QED
    BY <1>2, <1>4, <2>2, <2>3 DEF Justified, HasCompleted
<1> QED
  BY <1>3, <1>4

LEMMA IdleIsJustified ==
    ASSUME NEW v \in Workers, job'[v] = Idle
    PROVE  Justified(v)'
  BY DEF Justified

LEMMA JustifiedStep ==
    ASSUME IInv, Next
    PROVE  JobsStillJustified'
<1>1. TypeOK /\ JobsStillJustified /\ Covering
  BY DEF IInv
<1>2. SUFFICES ASSUME NEW v \in Workers PROVE Justified(v)'
  BY DEF JobsStillJustified, Justified
<1>3. CASE job'[v] = job[v]
  BY <1>3, JustifiedSame
<1>4. CASE job'[v] = Idle
  BY <1>4, IdleIsJustified
<1>5. ASSUME NEW s \in Students, NEW l \in Lessons, NEW c \in BOOLEAN, ReportProgress(v, s, l, c)
      PROVE  Justified(v)'
  <2>1. job'[v] = [at |-> "upsert", student |-> s, lesson |-> l, completed |-> c]
    BY <1>1, <1>5 DEF ReportProgress, TypeOK
  <2>2. enrollment'[s] # NoRow
    BY <1>5 DEF ReportProgress
  <2> QED
    BY <2>1, <2>2 DEF Justified
<1>6. ASSUME UpsertProgress(v), job'[v] # Idle
      PROVE  Justified(v)'
  <2>1. job'[v] = [at |-> "recalculate", student |-> job[v].student]
    BY <1>1, <1>6 DEF UpsertProgress, TypeOK
  <2>2. enrollment'[job[v].student] # NoRow
    BY <1>1, <1>6 DEF UpsertProgress, JobsStillJustified
  <2> QED
    BY <2>1, <2>2 DEF Justified
<1>7. ASSUME Recalculate(v)
      PROVE  Justified(v)'
  <2> DEFINE s == job[v].student
             ls == job[v].listed
             p == Percent(Cardinality(CompletedLessons(s, ls)), Cardinality(ls))
             c == IsNowComplete(s, ls)
             f == c /\ ~job[v].already
  <2>1. /\ s \in Students /\ ls \in SUBSET Lessons /\ enrollment[s] # NoRow
        /\ standing[v] \subseteq ls
    BY <1>1, <1>7, JobFields DEF Recalculate, JobsStillJustified
  <2>2. p <= 10000 /\ (c => ls # {} /\ ls \subseteq done[s])
    <3> HIDE DEF s, ls
    <3> QED
      BY <2>1, CompleteMeansAll, PercentOfStudent
  <2>3. c => s \in finishers
    <3>1. SUFFICES ASSUME c PROVE Covered(s)
      BY <1>1, <2>1 DEF Covering
    <3>2. done[s] # {} /\ standing[v] \subseteq done[s] /\ At(v, "progress")
      BY <1>7, <2>1, <2>2, <3>1 DEF Recalculate
    <3> HIDE DEF c, ls
    <3> QED
      BY <3>2 DEF Covered
  <2>4. /\ job'[v] = [at |-> "update", student |-> s, percent |-> p,
                      complete |-> c, first |-> f]
        /\ enrollment' = enrollment
    BY <1>1, <1>7 DEF Recalculate, TypeOK
  <2>5. finishers \subseteq finishers'
    BY <1>1, Monotone
  <2>6. f => c
    OBVIOUS
  <2> HIDE DEF s, ls, p, c, f
  <2> QED
    BY <2>1, <2>2, <2>3, <2>4, <2>5, <2>6 DEF Justified
<1>8. ASSUME UpdateEnrollment(v), job'[v] # Idle
      PROVE  Justified(v)'
  <2> DEFINE s == job[v].student
  <2>1. s \in Students /\ enrollment[s] # NoRow
    BY <1>1, <1>8, JobFields DEF UpdateEnrollment, JobsStillJustified
  <2>2. enrollment'[s] # NoRow /\ enrollment[s].completedAt \in Nat
    BY <1>1, <2>1, Monotone, RowFields
  <2>3. job'[v] = [at |-> "certify", student |-> s] /\ job[v].first
    BY <1>1, <1>8 DEF UpdateEnrollment, TypeOK
  <2>4. enrollment'[s].completedAt = enrollment[s].completedAt + 1
    BY <1>1, <1>8, <2>1, <2>3 DEF UpdateEnrollment, TypeOK
  <2> HIDE DEF s
  <2> QED
    BY <2>2, <2>3, <2>4 DEF Justified, HasCompleted
<1>9. ASSUME NEW w \in Workers, w # v,
             \/ Proceed(w) \/ Crash(w)
             \/ \E s \in Students, l \in Lessons, c \in BOOLEAN : ReportProgress(w, s, l, c)
      PROVE  job'[v] = job[v]
  <2>1. \E j : job' = [job EXCEPT ![w] = j]
    BY <1>9 DEF Proceed, Crash, ReportProgress, UpsertProgress, ReadEnrollment,
     ReadSections, ReadLessons, Recalculate,
       UpdateEnrollment, GenerateCertificate
  <2> QED
    BY <1>1, <1>9, <2>1 DEF TypeOK
<1>10. ASSUME GenerateCertificate(v) \/ Crash(v)
       PROVE  job'[v] = Idle
  BY <1>1, <1>10 DEF GenerateCertificate, Crash, TypeOK
<1>11. ASSUME \/ \E s \in Students : Enroll(s) \/ Refund(s)
              \/ EditCurriculum
       PROVE  job'[v] = job[v]
  BY <1>11 DEF Enroll, Refund, EditCurriculum, Edit
<1>14. ASSUME ReadEnrollment(v) \/ ReadSections(v) \/ ReadLessons(v)
       PROVE  Justified(v)'
  <2>1. PICK j \in Jobs : /\ job'[v] = j
                          /\ job[v] # Idle
                          /\ j # Idle
                          /\ j.student = job[v].student
                          /\ j.at \in {"sections", "lessons", "progress"}
                          /\ UNCHANGED <<section, lesson, enrollment>>
    BY <1>1, <1>14, ReadSteps DEF TypeOK
  <2>2. enrollment'[job'[v].student] # NoRow
    BY <1>1, <2>1 DEF JobsStillJustified
  <2>3. ASSUME At(v, "lessons")'
        PROVE  \A l \in standing'[v] : l \in Visible' /\ SectionOf[l] \in job'[v].sections
    <3>1. ReadSections(v)
      BY <1>1, <1>14, <2>3 DEF ReadEnrollment, ReadLessons, TypeOK
    <3>2. standing'[v] = Lessons \cap Visible'
      BY <2>3, <3>1 DEF Next, History, Stand, ReadSections
    <3>3. job'[v].sections = {x \in Sections : section[x] = "published"}
      BY <1>1, <3>1 DEF ReadSections, TypeOK
    <3>4. \A l \in Visible' : SectionOf[l] \in job'[v].sections
      BY <2>1, <3>3, ConstantsAssumption DEF Visible
    <3> QED
      BY <3>2, <3>4
  <2>4. ASSUME At(v, "progress")'
        PROVE  standing'[v] \subseteq job'[v].listed
    <3>1. ReadLessons(v)
      BY <1>1, <1>14, <2>4 DEF ReadEnrollment, ReadSections, TypeOK
    <3>2. standing'[v] = standing[v]
      BY <2>4 DEF Next, History, Stand
    <3>3. \A l \in standing[v] : l \in Visible /\ SectionOf[l] \in job[v].sections
      BY <1>1, <3>1 DEF ReadLessons, JobsStillJustified
    <3>4. job'[v].listed = {l \in Lessons : lesson[l] = "published"
                                           /\ SectionOf[l] \in job[v].sections}
      BY <1>1, <3>1 DEF ReadLessons, TypeOK
    <3> QED
      BY <3>2, <3>3, <3>4 DEF Visible
  <2> QED
    BY <2>1, <2>2, <2>3, <2>4 DEF Justified
<1>12. CASE \E w \in Workers : Proceed(w) \/ Crash(w)
  BY <1>14, <1>3, <1>4, <1>6, <1>7, <1>8, <1>9, <1>10, <1>12 DEF Proceed
<1>13. CASE \E w \in Workers, s \in Students, l \in Lessons, c \in BOOLEAN :
              ReportProgress(w, s, l, c)
  BY <1>3, <1>5, <1>9, <1>13
<1> QED
  BY <1>3, <1>11, <1>12, <1>13 DEF Next, Step, Report

-----------------------------------------------------------------------------
(* Certificates, completion and percentages *)

LEMMA RowSteps ==
    ASSUME Next
    PROVE  \/ UNCHANGED enrollment
           \/ /\ UNCHANGED certificate
              /\ \/ \E w \in Workers : UpdateEnrollment(w)
                 \/ \E s \in Students : Enroll(s) \/ Refund(s)
  BY DEF Next, Step, Report, Proceed, ReportProgress, UpsertProgress, ReadEnrollment,
     ReadSections, ReadLessons, Recalculate,
     UpdateEnrollment, GenerateCertificate, Crash, Enroll, Refund, EditCurriculum, Edit

LEMMA EarnedStep ==
    ASSUME IInv, Next
    PROVE  CertificateIsEarned'
<1>1. TypeOK /\ JobsStillJustified /\ CertificateIsEarned
  BY DEF IInv
<1>2. ASSUME NEW s \in certificate'
      PROVE  HasCompleted(s)'
  <2>1. s \in certificate \/ \E w \in Workers : At(w, "certify") /\ s = job[w].student
    BY DEF Next, Step, Report, Proceed, ReportProgress, UpsertProgress, ReadEnrollment,
     ReadSections, ReadLessons, Recalculate,
       UpdateEnrollment, GenerateCertificate, Crash, Enroll, Refund, EditCurriculum, Edit
  <2>2. s \in Students /\ HasCompleted(s)
    BY <1>1, <2>1, JobFields DEF CertificateIsEarned, JobsStillJustified, TypeOK
  <2> QED
    BY <1>1, <2>2, Monotone
<1>3. ASSUME NEW s \in Students, HasCompleted(s)'
      PROVE  s \in finishers'
  <2>1. finishers \subseteq finishers'
    BY <1>1, Monotone
  <2>2. CASE HasCompleted(s)
    BY <1>1, <2>1, <2>2 DEF CertificateIsEarned
  <2>3. ASSUME NEW w \in Workers, UpdateEnrollment(w), ~HasCompleted(s)
        PROVE  s \in finishers
    <3>1. s = job[w].student
      BY <1>1, <1>3, <2>3 DEF UpdateEnrollment, TypeOK, HasCompleted
    <3>2. enrollment[s] # NoRow /\ enrollment[s].completedAt \in Nat
      BY <1>1, <2>3, <3>1, RowFields DEF UpdateEnrollment, JobsStillJustified
    <3>3. enrollment'[s].completedAt =
            enrollment[s].completedAt + (IF job[w].first THEN 1 ELSE 0)
      BY <1>1, <2>3, <3>1 DEF UpdateEnrollment, TypeOK
    <3>4. job[w].first
      BY <1>3, <2>3, <3>2, <3>3 DEF HasCompleted
    <3> QED
      BY <1>1, <2>3, <3>1, <3>4 DEF UpdateEnrollment, JobsStillJustified
  <2>4. ASSUME NEW x \in Students, Enroll(x)
        PROVE  HasCompleted(s)
    BY <1>1, <1>3, <2>4 DEF Enroll, TypeOK, HasCompleted
  <2>5. ASSUME NEW x \in Students, Refund(x)
        PROVE  HasCompleted(s)
    <3>1. enrollment[x] \in Rows /\ enrollment[x] # NoRow
      BY <1>1, <2>5, RowFields DEF Refund
    <3>2. enrollment'[x].completedAt = enrollment[x].completedAt
      BY <1>1, <2>5, <3>1 DEF Refund, TypeOK, Rows
    <3>3. s # x => enrollment'[s] = enrollment[s]
      BY <1>1, <2>5 DEF Refund, TypeOK
    <3> QED
      BY <1>3, <3>1, <3>2, <3>3 DEF HasCompleted
  <2>6. CASE UNCHANGED enrollment
    BY <1>3, <2>2, <2>6 DEF HasCompleted
  <2> QED
    BY <2>1, <2>2, <2>3, <2>4, <2>5, <2>6, RowSteps
<1> QED
  BY <1>2, <1>3 DEF CertificateIsEarned

LEMMA PercentStep ==
    ASSUME IInv, Next
    PROVE  PercentInRange'
<1>1. TypeOK /\ JobsStillJustified /\ PercentInRange
  BY DEF IInv
<1>2. SUFFICES ASSUME NEW s \in Students, enrollment'[s] # NoRow
               PROVE  enrollment'[s].percent <= 10000
  BY DEF PercentInRange
<1>3. ASSUME NEW w \in Workers, UpdateEnrollment(w)
      PROVE  enrollment'[s].percent <= 10000
  BY <1>1, <1>2, <1>3 DEF UpdateEnrollment, JobsStillJustified, PercentInRange, TypeOK
<1>4. ASSUME NEW x \in Students, Enroll(x)
      PROVE  enrollment'[s].percent <= 10000
  BY <1>1, <1>2, <1>4 DEF Enroll, PercentInRange, TypeOK
<1>5. ASSUME NEW x \in Students, Refund(x)
      PROVE  enrollment'[s].percent <= 10000
  <2>1. enrollment[x] \in Rows /\ enrollment[x].percent <= 10000
    BY <1>1, <1>5, RowFields DEF Refund, PercentInRange
  <2>2. enrollment'[x].percent = enrollment[x].percent
    BY <1>1, <1>5, <2>1 DEF Refund, TypeOK, Rows
  <2> QED
    BY <1>1, <1>2, <1>5, <2>1, <2>2 DEF Refund, PercentInRange, TypeOK
<1>6. CASE UNCHANGED enrollment
  BY <1>1, <1>2, <1>6 DEF PercentInRange
<1> QED
  BY <1>3, <1>4, <1>5, <1>6, RowSteps

\* A request about to certify does so, dies or waits.
LEMMA CertifyOutcome ==
    ASSUME TypeOK, Next, NEW w \in Workers, At(w, "certify")
    PROVE  \/ job'[w] = job[w]
           \/ job[w].student \in certificate'
           \/ faults' > 0
<1>1. ASSUME NEW v \in Workers, NEW s \in Students, NEW l \in Lessons, NEW c \in BOOLEAN,
             ReportProgress(v, s, l, c)
      PROVE  job'[w] = job[w]
  BY <1>1 DEF ReportProgress, TypeOK
<1>2. ASSUME NEW v \in Workers, Proceed(v), ~GenerateCertificate(v)
      PROVE  job'[w] = job[w]
  <2>1. v # w
    BY <1>2 DEF Proceed, UpsertProgress, ReadEnrollment,
     ReadSections, ReadLessons, Recalculate, UpdateEnrollment
  <2>2. \E j : job' = [job EXCEPT ![v] = j]
    BY <1>2 DEF Proceed, UpsertProgress, ReadEnrollment,
     ReadSections, ReadLessons, Recalculate, UpdateEnrollment
  <2> QED
    BY <2>1, <2>2 DEF TypeOK
<1>3. ASSUME NEW v \in Workers, GenerateCertificate(v)
      PROVE  job'[w] = job[w] \/ job[w].student \in certificate'
  BY <1>3 DEF GenerateCertificate, TypeOK
<1>4. ASSUME NEW v \in Workers, Crash(v)
      PROVE  faults' > 0
  BY <1>4, ConstantsAssumption DEF Crash, TypeOK
<1>5. ASSUME \/ \E s \in Students : Enroll(s) \/ Refund(s)
             \/ EditCurriculum
      PROVE  job'[w] = job[w]
  BY <1>5 DEF Enroll, Refund, EditCurriculum, Edit
<1> QED
  BY <1>1, <1>2, <1>3, <1>4, <1>5 DEF Next, Step, Report, Proceed

LEMMA ComingStep ==
    ASSUME IInv, Next
    PROVE  CertificateIsComing'
<1>1. /\ TypeOK /\ JobsStillJustified /\ CertificateIsComing
      /\ certificate \subseteq certificate'
      /\ faults > 0 => faults' > 0
  BY Monotone DEF IInv
<1>2. SUFFICES ASSUME NEW s \in Students, HasCompleted(s)'
               PROVE  \/ s \in certificate'
                      \/ \E w \in Workers : At(w, "certify")' /\ job'[w].student = s
                      \/ faults' > 0
  BY DEF CertificateIsComing
<1>3. CASE HasCompleted(s)
  <2>1. \/ s \in certificate
        \/ \E w \in Workers : At(w, "certify") /\ job[w].student = s
        \/ faults > 0
    BY <1>1, <1>3 DEF CertificateIsComing
  <2> QED
    BY <1>1, <2>1, CertifyOutcome
<1>4. ASSUME NEW w \in Workers, UpdateEnrollment(w), ~HasCompleted(s)
      PROVE  At(w, "certify")' /\ job'[w].student = s
  <2>1. s = job[w].student
    BY <1>1, <1>2, <1>4 DEF UpdateEnrollment, TypeOK, HasCompleted
  <2>2. enrollment[s] # NoRow /\ enrollment[s].completedAt \in Nat
    BY <1>1, <1>4, <2>1, RowFields DEF UpdateEnrollment, JobsStillJustified
  <2>3. enrollment'[s].completedAt =
          enrollment[s].completedAt + (IF job[w].first THEN 1 ELSE 0)
    BY <1>1, <1>4, <2>1 DEF UpdateEnrollment, TypeOK
  <2>4. job[w].first
    BY <1>2, <1>4, <2>2, <2>3 DEF HasCompleted
  <2> QED
    BY <1>1, <1>4, <2>1, <2>4 DEF UpdateEnrollment, TypeOK
<1>5. ASSUME NEW x \in Students, Enroll(x)
      PROVE  HasCompleted(s)
  BY <1>1, <1>2, <1>5 DEF Enroll, TypeOK, HasCompleted
<1>6. ASSUME NEW x \in Students, Refund(x)
      PROVE  HasCompleted(s)
  <2>1. enrollment[x] \in Rows /\ enrollment[x] # NoRow
    BY <1>1, <1>6, RowFields DEF Refund
  <2>2. enrollment'[x].completedAt = enrollment[x].completedAt
    BY <1>1, <1>6, <2>1 DEF Refund, TypeOK, Rows
  <2>3. s # x => enrollment'[s] = enrollment[s]
    BY <1>1, <1>6 DEF Refund, TypeOK
  <2> QED
    BY <1>2, <2>1, <2>2, <2>3 DEF HasCompleted
<1>7. CASE UNCHANGED enrollment
  BY <1>2, <1>3, <1>7 DEF HasCompleted
<1> QED
  BY <1>3, <1>4, <1>5, <1>6, <1>7, RowSteps

LEMMA CoveringStep == ASSUME Next PROVE Covering'
  BY DEF Next, History, Covering

-----------------------------------------------------------------------------
(* The theorems *)

LEMMA IInvInit == Init => IInv
<1> SUFFICES ASSUME Init PROVE IInv
  OBVIOUS
<1>1. TypeOK
  BY ConstantsAssumption DEF Init, TypeOK, Jobs
<1>2. \A s \in Students : ~HasCompleted(s)
  BY DEF Init, HasCompleted
<1>3. JobsStillJustified /\ CertificateIsEarned /\ PercentInRange /\ CertificateIsComing
  BY <1>2 DEF Init, JobsStillJustified, CertificateIsEarned, PercentInRange,
     CertificateIsComing
<1>4. Covering
  BY DEF Init, Covering, Covered
<1> QED
  BY <1>1, <1>3, <1>4 DEF IInv

LEMMA IInvStep == IInv /\ [Next]_vars => IInv'
<1> SUFFICES ASSUME IInv, [Next]_vars PROVE IInv'
  OBVIOUS
<1>1. CASE Next
  <2>1. TypeOK'
    BY <1>1, TypeStep DEF IInv
  <2> QED
    BY <1>1, <2>1, JustifiedStep, EarnedStep, PercentStep, ComingStep, CoveringStep DEF IInv
<1>2. CASE UNCHANGED vars
  BY <1>2 DEF vars, IInv, TypeOK, JobsStillJustified, CertificateIsEarned, PercentInRange,
     CertificateIsComing, Covering, Covered, Visible, HasCompleted
<1> QED
  BY <1>1, <1>2

LEMMA ProgressInvariance == Spec => []IInv
  BY IInvInit, IInvStep, PTL DEF Spec

\* Every reachable state is well typed.
THEOREM ProgressTypes == Spec => []TypeOK
<1>1. IInv => TypeOK
  BY DEF IInv
<1> QED
  BY <1>1, ProgressInvariance, PTL

\* Every certificate stands for a completed enrolment, and every completed
\* enrolment for a student who, at one moment, had completed something and every
\* lesson that stood published while a recalculation listed the course: neither
\* its reading table by table nor any edit of the curriculum makes it up.
THEOREM EarnedCertificates == Spec => []CertificateIsEarned
<1>1. IInv => CertificateIsEarned
  BY DEF IInv
<1> QED
  BY <1>1, ProgressInvariance, PTL

\* progressPercentage stays within 0..100, whatever is unpublished or deleted
\* after it was completed.
THEOREM PercentStays == Spec => []PercentInRange
<1>1. IInv => PercentInRange
  BY DEF IInv
<1> QED
  BY <1>1, ProgressInvariance, PTL

\* A completed enrolment has its certificate, or a request that will make it,
\* or a request died.
THEOREM ComingCertificates == Spec => []CertificateIsComing
<1>1. IInv => CertificateIsComing
  BY DEF IInv
<1> QED
  BY <1>1, ProgressInvariance, PTL

\* Certificates stand for completions, completions for a moment in which all that
\* stood published while it was listed was done, and only a request that died
\* loses one.
THEOREM SoundCertificates == Spec => []CertificatesAreSound
<1>1. IInv => CertificatesAreSound
  BY DEF IInv, CertificatesAreSound
<1> QED
  BY <1>1, ProgressInvariance, PTL

\* What a request carries to its write holds good: a list has all that stood
\* published since its sections were read, a completion is of a student who had
\* done all that, and a percentage is one.
THEOREM StaleReadsAreJustified == Spec => []JobsStillJustified
<1>1. IInv => JobsStillJustified
  BY DEF IInv
<1> QED
  BY <1>1, ProgressInvariance, PTL

\* Only a deletion of the lesson takes the progress away.
LEMMA DoneStays ==
    ASSUME TypeOK, Next, NEW s \in Students, NEW l \in done[s], Exists(lesson'[l])
    PROVE  l \in done'[s]
<1>1. l \in Lessons
  BY DEF TypeOK
<1>2. CASE UNCHANGED done
  BY <1>2
<1>3. ASSUME NEW w \in Workers, UpsertProgress(w)
      PROVE  l \in done'[s]
  BY <1>3 DEF UpsertProgress, TypeOK
<1>4. ASSUME NEW x \in Sections, DeleteSection(x)
      PROVE  l \in done'[s]
  BY <1>1, <1>4 DEF DeleteSection, Exists
<1>5. ASSUME NEW k \in Lessons, DeleteLesson(k)
      PROVE  l \in done'[s]
  BY <1>1, <1>5 DEF DeleteLesson, Exists, TypeOK
<1>6. \/ UNCHANGED done
      \/ \E w \in Workers : UpsertProgress(w)
      \/ \E x \in Sections : DeleteSection(x)
      \/ \E k \in Lessons : DeleteLesson(k)
  BY DEF Next, Step, Report, Proceed, ReportProgress, ReadEnrollment, ReadSections,
     ReadLessons, Recalculate, UpdateEnrollment,
     GenerateCertificate, Crash, Enroll, Refund, EditCurriculum, CreateSection,
     UpdateSection, CreateLesson, UpdateLesson, ApproveCourse
<1> QED
  BY <1>2, <1>3, <1>4, <1>5, <1>6

\* Completed lessons, completed enrolments and certificates are never undone by
\* a report, a recalculation, a refund or an edit that leaves the lesson.
THEOREM NothingIsTakenBack == Spec => NothingIsUnlearnt
<1> DEFINE Keeps == \A s \in Students :
                      /\ \A l \in done[s] : Exists(lesson'[l]) => l \in done'[s]
                      /\ HasCompleted(s) => HasCompleted(s)'
                      /\ s \in certificate => s \in certificate'
<1>1. IInv /\ [Next]_vars => [Keeps]_vars
  <2> SUFFICES ASSUME IInv, Next PROVE Keeps
    OBVIOUS
  <2> QED
    BY Monotone, DoneStays DEF IInv
<1>2. Spec => [][Keeps]_vars
  BY <1>1, ProgressInvariance, PTL DEF Spec
<1> QED
  BY <1>2 DEF NothingIsUnlearnt

-----------------------------------------------------------------------------
(* The course implements the register *)

milestones == [s \in Students |-> Milestone(s)]

\* While the progress stays and no worker gets hold of a list, nobody new
\* finishes.
LEMMA NobodyFinishes ==
    ASSUME IInv, Next, UNCHANGED done, NEW w \in Workers, NEW j, j.at # "progress",
           job' = [job EXCEPT ![w] = j]
    PROVE  finishers' = finishers
<1>1. finishers' = finishers \cup {s \in Students : Covered(s)'}
  BY DEF Next, History
<1>2. \A s \in Students : Covered(s) => s \in finishers
  BY DEF IInv, Covering
<1>3. ASSUME NEW s \in Students, NEW v \in Workers,
             At(v, "progress")', job'[v].student = s, done'[s] # {}, standing'[v] \subseteq done'[s]
      PROVE  Covered(s)
  <2>1. job'[v] = job[v]
    BY <1>3 DEF IInv, TypeOK
  <2>2. standing'[v] = standing[v]
    BY <1>3 DEF Next, History, Stand
  <2> QED
    BY <1>3, <2>1, <2>2 DEF Covered
<1>4. \A s \in Students : Covered(s)' => Covered(s)
  BY <1>3 DEF Covered
<1> QED
  BY <1>1, <1>2, <1>4

LEMMA RefineUpdate ==
    ASSUME IInv, Next, NEW w \in Workers, UpdateEnrollment(w)
    PROVE  (\E s \in Students : Register!Complete(s)) \/ UNCHANGED milestones
<1>1. TypeOK /\ JobsStillJustified
  BY DEF IInv
<1>2. PICK x \in Students : /\ x = job[w].student /\ enrollment[x] # NoRow
                            /\ enrollment[x].completedAt \in Nat
  BY <1>1, JobFields, RowFields DEF UpdateEnrollment, JobsStillJustified
<1>3. finishers' = finishers /\ certificate' = certificate
  <2>1. /\ UNCHANGED <<done, certificate>>
        /\ \/ job' = [job EXCEPT ![w] = [at |-> "certify", student |-> x]]
           \/ job' = [job EXCEPT ![w] = Idle]
    BY <1>2 DEF UpdateEnrollment
  <2>2. Idle.at # "progress" /\ [at |-> "certify", student |-> x].at # "progress"
    OBVIOUS
  <2> QED
    BY <2>1, <2>2, NobodyFinishes
<1>4. \A s \in Students : s # x => HasCompleted(s)' = HasCompleted(s)
  BY <1>1, <1>2 DEF UpdateEnrollment, TypeOK, HasCompleted
<1>5. CASE HasCompleted(x)' = HasCompleted(x)
  <2>1. \A s \in Students : Milestone(s)' = Milestone(s)
    BY <1>3, <1>4, <1>5 DEF Milestone
  <2> QED
    BY <2>1 DEF milestones
<1>6. CASE HasCompleted(x)' # HasCompleted(x)
  <2>1. ~HasCompleted(x) /\ HasCompleted(x)'
    BY <1>1, <1>2, <1>6, Monotone DEF HasCompleted
  <2>2. enrollment'[x].completedAt =
          enrollment[x].completedAt + (IF job[w].first THEN 1 ELSE 0)
    BY <1>1, <1>2 DEF UpdateEnrollment, TypeOK
  <2>3. x \in finishers
    BY <1>1, <1>2, <2>1, <2>2 DEF UpdateEnrollment, JobsStillJustified, HasCompleted
  <2>4. x \notin certificate
    BY <2>1 DEF IInv, CertificateIsEarned
  <2>5. Milestone(x) = "finished" /\ Milestone(x)' = "completed"
    BY <1>3, <2>1, <2>3, <2>4 DEF Milestone
  <2>6. \A s \in Students : s # x => Milestone(s)' = Milestone(s)
    BY <1>3, <1>4 DEF Milestone
  <2>7. milestones' = [milestones EXCEPT ![x] = "completed"]
    BY <1>2, <2>5, <2>6 DEF milestones
  <2> QED
    BY <1>2, <2>5, <2>7 DEF Register!Complete, milestones
<1> QED
  BY <1>5, <1>6

LEMMA RefineCertify ==
    ASSUME IInv, Next, NEW w \in Workers, GenerateCertificate(w)
    PROVE  (\E s \in Students : Register!Certify(s)) \/ UNCHANGED milestones
<1>1. TypeOK /\ JobsStillJustified
  BY DEF IInv
<1>2. PICK x \in Students : x = job[w].student /\ HasCompleted(x)
  BY <1>1, JobFields DEF GenerateCertificate, JobsStillJustified
<1>3. /\ finishers' = finishers /\ certificate' = certificate \cup {x}
      /\ \A s \in Students : HasCompleted(s)' = HasCompleted(s)
  <2>1. /\ UNCHANGED <<done, enrollment>>
        /\ certificate' = certificate \cup {x}
        /\ job' = [job EXCEPT ![w] = Idle]
    BY <1>2 DEF GenerateCertificate
  <2>2. Idle.at # "progress"
    OBVIOUS
  <2>3. finishers' = finishers
    BY <2>1, <2>2, NobodyFinishes
  <2> QED
    BY <2>1, <2>3 DEF HasCompleted
<1>4. \A s \in Students : s # x => Milestone(s)' = Milestone(s)
  BY <1>3 DEF Milestone
<1>5. CASE x \in certificate
  <2>1. Milestone(x)' = Milestone(x)
    BY <1>3, <1>5 DEF Milestone
  <2> QED
    BY <1>4, <2>1 DEF milestones
<1>6. CASE x \notin certificate
  <2>1. Milestone(x) = "completed" /\ Milestone(x)' = "certified"
    BY <1>2, <1>3, <1>6 DEF Milestone
  <2>2. milestones' = [milestones EXCEPT ![x] = "certified"]
    BY <1>2, <1>4, <2>1 DEF milestones
  <2> QED
    BY <1>2, <2>1, <2>2 DEF Register!Certify, milestones
<1> QED
  BY <1>5, <1>6

\* Every other step leaves rows and certificates as they are to the register,
\* and may make students finish.
LEMMA RefineRest ==
    ASSUME IInv, Next, UNCHANGED certificate,
           \A s \in Students : HasCompleted(s)' = HasCompleted(s)
    PROVE  \E group \in SUBSET Students : Register!Finish(group)
<1> DEFINE group == {s \in Students : Milestone(s) = "learning" /\ s \in finishers'}
<1>1. finishers \subseteq finishers'
  BY Monotone DEF IInv
<1>2. ASSUME NEW s \in Students
      PROVE  Milestone(s)' = IF s \in group THEN "finished" ELSE Milestone(s)
  BY <1>1 DEF Milestone
<1>3. Register!Finish(group)
  <2>1. \A s \in group : milestones[s] = "learning"
    BY DEF milestones
  <2>2. milestones' = [s \in Students |-> IF s \in group THEN "finished" ELSE milestones[s]]
    BY <1>2 DEF milestones
  <2> HIDE DEF group
  <2> QED
    BY <2>1, <2>2 DEF Register!Finish, milestones
<1> QED
  BY <1>3

LEMMA RefineStep == IInv /\ [Next]_vars => [Register!Next]_milestones
<1> SUFFICES ASSUME IInv, [Next]_vars PROVE Register!Next \/ UNCHANGED milestones
  BY DEF milestones
<1>1. CASE UNCHANGED vars
  BY <1>1 DEF vars, milestones, Milestone, HasCompleted
<1>2. CASE Next
  <2>1. TypeOK
    BY DEF IInv
  <2>2. ASSUME NEW x \in Students, Enroll(x)
        PROVE  UNCHANGED certificate /\ \A s \in Students : HasCompleted(s)' = HasCompleted(s)
    BY <2>1, <2>2 DEF Enroll, TypeOK, HasCompleted
  <2>3. ASSUME NEW x \in Students, Refund(x)
        PROVE  UNCHANGED certificate /\ \A s \in Students : HasCompleted(s)' = HasCompleted(s)
    <3>1. enrollment[x] \in Rows /\ enrollment[x] # NoRow
      BY <2>1, <2>3, RowFields DEF Refund
    <3>2. enrollment'[x].completedAt = enrollment[x].completedAt /\ enrollment'[x] \in Rows
      BY <2>1, <2>3, <3>1 DEF Refund, TypeOK, Rows
    <3>3. \A s \in Students : s # x => enrollment'[s] = enrollment[s]
      BY <2>1, <2>3 DEF Refund, TypeOK
    <3>4. enrollment'[x] # NoRow
      BY <3>2, RowsExist
    <3> QED
      BY <2>3, <3>1, <3>2, <3>3, <3>4 DEF HasCompleted, Refund
  <2>4. CASE UNCHANGED <<enrollment, certificate>>
    BY <1>2, <2>4, RefineRest DEF HasCompleted, Register!Next
  <2>5. \/ UNCHANGED <<enrollment, certificate>>
        \/ \E w \in Workers : UpdateEnrollment(w) \/ GenerateCertificate(w)
        \/ \E s \in Students : Enroll(s) \/ Refund(s)
    BY <1>2 DEF Next, Step, Report, Proceed, ReportProgress, UpsertProgress, ReadEnrollment,
     ReadSections, ReadLessons, Recalculate,
       Crash, EditCurriculum, Edit
  <2> QED
    BY <1>2, <2>2, <2>3, <2>4, <2>5, RefineUpdate, RefineCertify, RefineRest
       DEF Register!Next
<1> QED
  BY <1>1, <1>2

\* A student's milestones are passed in the order of CompletionRegister: nothing
\* is completed that was not finished, nothing certified that was not completed,
\* and no milestone is lost.
THEOREM RegisterRefinement == Spec => ImplementsRegister
<1>1. Init => Register!Init
  BY DEF Init, Register!Init, Milestone, HasCompleted
<1>2. IInv /\ [Next]_vars => [Register!Next]_milestones
  BY RefineStep
<1> QED
  BY <1>1, <1>2, ProgressInvariance, PTL DEF Spec, ImplementsRegister, Register!Spec, milestones

=============================================================================
