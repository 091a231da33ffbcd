------------------------------- MODULE Catalogue -------------------------------
(***************************************************************************)
(* Courses from draft to removal (modules/courses, the course and category *)
(* handlers of modules/admin), and the cache-aside reads of courses,       *)
(* modules/search and modules/admin/system-settings.service.ts over        *)
(* common/cache.                                                           *)
(*                                                                         *)
(* A request is a task: what it read, then what it writes, then the keys   *)
(* it deletes from the cache.  A reader that misses asks the database and  *)
(* stores the answer, two awaits later.                                    *)
(***************************************************************************)
EXTENDS Naturals, FiniteSets

CONSTANTS
    Courses, Categories,
    Handlers,       \* requests in flight at once (a bound)
    MaxCourseEdits, \* edits of a title, a lesson or a setting, enrolments, refunds (a bound)
    NoCourse, NoEntry

ASSUME CatalogueAssumption == MaxCourseEdits \in Nat /\ IsFiniteSet(Handlers)

VARIABLES
    course,         \* Course rows
    category,       \* Category rows: absent, active or inactive
    setting,        \* the value of one system setting
    students,       \* courses with an Enrollment row that is ACTIVE or COMPLETED
    enrolled,       \* courses with an Enrollment row, REFUNDED ones too
    contents,       \* how often changed what a course is shown with ...
    figures,        \* ... and, of that, what the lists show: counts, ratings, names
    videos,         \* courses whose lessons have their videos
    cache,          \* the entries of Redis
    handler,
    edited,         \* how often the environment acted
    approved,       \* history: courses an administrator let through
    late,           \* history: courses that got a student while they were being removed
    doubt           \* history: keys with a reason to be stale

around == <<students, enrolled, contents, figures>>
catalogueRows == <<course, category, setting, around, videos>>
catalogueHistory == <<approved, late, doubt>>
catalogueVars == <<catalogueRows, cache, handler, edited, catalogueHistory>>

-----------------------------------------------------------------------------
\* REJECTED and SUSPENDED, which no handler but an update sets, are as DRAFT.
CourseStatuses == {"DRAFT", "UNDER_REVIEW", "PUBLISHED", "ARCHIVED"}

CourseRows == [status : CourseStatuses, isPublished : BOOLEAN, deleted : BOOLEAN,
               title : 0..MaxCourseEdits, category : Categories]

ASSUME CatalogueRowsAssumption == NoCourse \notin CourseRows

CourseChanges ==
    [title : {TRUE}, status : {"keep"}] \cup [title : {FALSE}, status : CourseStatuses]

DetailKey(c) == <<"course", c>>
Keys == {DetailKey(c) : c \in Courses}
            \cup {<<"list">>, <<"search">>, <<"featured">>, <<"categories">>, <<"settings">>}

Created(c) == course[c] # NoCourse
Visible(c) == Created(c) /\ course[c].isPublished /\ course[c].status = "PUBLISHED"
Titles(S) == {<<c, course[c].title, figures[c]>> : c \in S}
CoursesOf(k) == {c \in Courses : Created(c) /\ course[c].category = k}

\* A course is kept with its published sections and lessons, its reviews and the
\* number of its students.
Detail(c) == [row |-> course[c], contents |-> contents[c]]

\* findOne keeps published courses only, the lists of the catalogue leave out
\* removed ones, those of the search do not.
\* Fault: drafts are kept as well.
CacheableAny(c) == Created(c) /\ ~course[c].deleted
Cacheable(c) == Created(c) /\ ~course[c].deleted /\ course[c].isPublished

View(key) ==
    CASE key \in {DetailKey(c) : c \in Courses} ->
            IF Cacheable(key[2]) THEN Detail(key[2]) ELSE NoEntry
      [] key = <<"list">> -> Titles({c \in Courses : Visible(c) /\ ~course[c].deleted})
      [] key \in {<<"search">>, <<"featured">>} -> Titles({c \in Courses : Visible(c)})
      [] key = <<"categories">> ->
            {<<k, CoursesOf(k)>> : k \in {j \in Categories : category[j] = "active"}}
      [] OTHER -> setting

\* What update, remove and publish delete; the pages of the search are stored
\* under the same prefix.
\* Fault: the lists are forgotten.
KeysOfOne(c) == {DetailKey(c)}
KeysOf(c) == {DetailKey(c), <<"list">>, <<"search">>}

\* What may be an entry: a course, a list of titles, categories, a setting.
Details == [row : CourseRows, contents : Nat]
Entries == Details \cup (SUBSET (Courses \X (0..MaxCourseEdits) \X Nat))
              \cup (SUBSET (Categories \X SUBSET Courses)) \cup Nat

NoHandler == [at |-> "none"]
HandlerRows ==
    {NoHandler}
    \cup [at : {"insert"}, course : Courses, category : Categories]
    \cup [at : {"update"}, course : Courses, change : CourseChanges]
    \cup [at : {"publish", "remove", "approve", "gut", "erase", "enrol"}, course : Courses]
    \cup [at : {"invalidate"}, keys : SUBSET Keys]
    \cup [at : {"query"}, key : Keys]
    \cup [at : {"store"}, key : Keys, value : Entries]

CatalogueInit ==
    /\ course = [c \in Courses |-> NoCourse]
    /\ category \in [Categories -> {"absent", "active"}]
    /\ setting = 0
    /\ students = {} /\ enrolled = {}
    /\ contents = [c \in Courses |-> 0] /\ figures = [c \in Courses |-> 0]
    /\ videos = {}
    /\ cache = [k \in Keys |-> NoEntry]
    /\ handler = [x \in Handlers |-> NoHandler]
    /\ edited = 0
    /\ approved = {} /\ late = {} /\ doubt = {}

Proceed(x, r) == handler' = [handler EXCEPT ![x] = r]
Answer(x) == Proceed(x, NoHandler)
Free(x) == handler[x] = NoHandler
Reached(x, stage) == handler[x].at = stage
Edit == edited < MaxCourseEdits /\ edited' = edited + 1

SetCourse(c, row) == course' = [course EXCEPT ![c] = row]
Invalidating(x, keys) == Proceed(x, [at |-> "invalidate", keys |-> keys])

\* What the courses in S are shown with changes, and no key is deleted for it.
Reshow(S) ==
    /\ contents' = [c \in Courses |-> contents[c] + (IF c \in S THEN 1 ELSE 0)]
    /\ figures' = [c \in Courses |-> figures[c] + (IF c \in S THEN 1 ELSE 0)]
    /\ doubt' = doubt \cup UNION {KeysOf(c) : c \in S}

-----------------------------------------------------------------------------
(* Courses *)

\* create finds the category active; it may be gone when the row is inserted,
\* which is counted with the category from then on.
CreateCourse(x, c, k) ==
    /\ Free(x)
    /\ ~Created(c) /\ c \notin approved
    /\ category[k] = "active"
    /\ Proceed(x, [at |-> "insert", course |-> c, category |-> k])
    /\ UNCHANGED <<catalogueRows, cache, edited, catalogueHistory>>

InsertCourse(x) ==
    /\ Reached(x, "insert")
    /\ LET c == handler[x].course
           k == handler[x].category IN
         IF ~Created(c) /\ category[k] # "absent"
         THEN /\ SetCourse(c, [status |-> "DRAFT", isPublished |-> FALSE, deleted |-> FALSE,
                               title |-> 0, category |-> k])
              /\ videos' = videos \cup {c}
              /\ doubt' = doubt \cup {<<"categories">>}
         ELSE UNCHANGED <<course, videos, doubt>>
    /\ Answer(x)
    /\ UNCHANGED <<category, setting, around, cache, edited, approved, late>>

\* update, publish and remove check the owner's row and write it later.
UpdateCourse(x, c, change) ==
    /\ Free(x)
    /\ Created(c)
    /\ Edit
    /\ Proceed(x, [at |-> "update", course |-> c, change |-> change])
    /\ UNCHANGED <<catalogueRows, cache, catalogueHistory>>

\* Fault: the status decides what is published.
ChangedLive(row, change) ==
    [row EXCEPT !.title = IF change.title THEN @ + 1 ELSE @,
                !.isPublished = @ \/ change.status = "PUBLISHED",
                !.status = IF change.status = "keep" THEN @ ELSE change.status]
Changed(row, change) ==
    [row EXCEPT !.title = IF change.title THEN @ + 1 ELSE @,
                !.status = IF change.status = "keep" THEN @ ELSE change.status]

StoreChange(x) ==
    /\ Reached(x, "update")
    /\ LET c == handler[x].course IN
         IF Created(c)
         THEN SetCourse(c, Changed(course[c], handler[x].change)) /\ Invalidating(x, KeysOf(c))
         ELSE Answer(x) /\ UNCHANGED course
    /\ UNCHANGED <<category, setting, around, videos, cache, edited, catalogueHistory>>

\* Submits a course for review, whatever it was, with the lessons it has.
Publish(x, c) ==
    /\ Free(x)
    /\ Created(c)
    /\ Proceed(x, [at |-> "publish", course |-> c])
    /\ UNCHANGED <<catalogueRows, cache, edited, catalogueHistory>>

StoreSubmission(x) ==
    /\ Reached(x, "publish")
    /\ LET c == handler[x].course IN
         IF Created(c)
         THEN /\ SetCourse(c, [course[c] EXCEPT !.status = "UNDER_REVIEW", !.isPublished = FALSE])
              /\ Invalidating(x, KeysOf(c))
         ELSE Answer(x) /\ UNCHANGED course
    /\ UNCHANGED <<category, setting, around, videos, cache, edited, catalogueHistory>>

\* A refunded enrolment does not keep a course.
\* Fault: nobody looks for students.
HasNoStudentsAnyway(c) == TRUE
HasNoStudents(c) == c \notin students

Remove(x, c) ==
    /\ Free(x)
    /\ Created(c) /\ ~course[c].deleted
    /\ HasNoStudents(c)
    /\ Proceed(x, [at |-> "remove", course |-> c])
    /\ UNCHANGED <<catalogueRows, cache, edited, catalogueHistory>>

\* The row stays.
StoreRemoval(x) ==
    /\ Reached(x, "remove")
    /\ LET c == handler[x].course IN
         IF Created(c)
         THEN /\ SetCourse(c, [course[c] EXCEPT !.deleted = TRUE, !.isPublished = FALSE,
                                                !.status = "ARCHIVED"])
              /\ Invalidating(x, KeysOf(c))
         ELSE Answer(x) /\ UNCHANGED course
    /\ UNCHANGED <<category, setting, around, videos, cache, edited, catalogueHistory>>

\* enrollFree and a payment ask for the row alone.
Enrol(x, c) ==
    /\ Free(x)
    /\ Created(c)
    /\ Edit
    /\ Proceed(x, [at |-> "enrol", course |-> c])
    /\ UNCHANGED <<catalogueRows, cache, catalogueHistory>>

Admit(c) ==
    /\ students' = students \cup {c}
    /\ late' = IF \E y \in Handlers : Reached(y, "remove") /\ handler[y].course = c
               THEN late \cup {c} ELSE late

\* The enrolment is counted with the course.
InsertEnrollment(x) ==
    /\ Reached(x, "enrol")
    /\ LET c == handler[x].course IN
         IF Created(c)
         THEN Admit(c) /\ enrolled' = enrolled \cup {c} /\ Reshow({c})
         ELSE UNCHANGED <<around, late, doubt>>
    /\ Answer(x)
    /\ UNCHANGED <<course, category, setting, videos, cache, edited, approved>>

\* The last student that paid has the money back; the row stays.
RefundStudent(c) ==
    /\ c \in students
    /\ Edit
    /\ students' = students \ {c}
    /\ Reshow({c})
    /\ UNCHANGED <<course, category, setting, enrolled, videos, cache, handler, approved, late>>

\* A report of progress makes a refunded enrolment ACTIVE or COMPLETED again.
Readmit(c) ==
    /\ c \in enrolled \ students
    /\ Admit(c)
    /\ UNCHANGED <<course, category, setting, enrolled, contents, figures, videos, cache,
                   handler, edited, approved, doubt>>

\* Lessons and the texts of reviews, which the course alone is shown with ...
ChangeContents(c) ==
    /\ Created(c)
    /\ Edit
    /\ contents' = [contents EXCEPT ![c] = @ + 1]
    /\ doubt' = doubt \cup {DetailKey(c)}
    /\ UNCHANGED <<course, category, setting, students, enrolled, figures, videos, cache,
                   handler, approved, late>>

\* ... and sections, ratings and the owner's profile, which the lists show too.
ChangeFigures(c) ==
    /\ Created(c)
    /\ Edit
    /\ Reshow({c})
    /\ UNCHANGED <<course, category, setting, students, enrolled, videos, cache, handler,
                   approved, late>>

-----------------------------------------------------------------------------
(* Administrators; what they decide about a course deletes no key. *)

ApproveCourse(x, c) ==
    /\ Free(x)
    /\ Created(c) /\ course[c].status = "UNDER_REVIEW"
    /\ Proceed(x, [at |-> "approve", course |-> c])
    /\ UNCHANGED <<catalogueRows, cache, edited, catalogueHistory>>

StoreCourseApproval(x) ==
    /\ Reached(x, "approve")
    /\ LET c == handler[x].course IN
         IF Created(c)
         THEN /\ SetCourse(c, [course[c] EXCEPT !.status = "PUBLISHED", !.isPublished = TRUE])
              /\ approved' = approved \cup {c}
              /\ doubt' = doubt \cup KeysOf(c)
         ELSE UNCHANGED <<course, approved, doubt>>
    /\ Answer(x)
    /\ UNCHANGED <<category, setting, around, videos, cache, edited, late>>

\* The videos are deleted one by one, and then the course ...
RejectCourse(x, c) ==
    /\ Free(x)
    /\ Created(c) /\ course[c].status = "UNDER_REVIEW"
    /\ Proceed(x, [at |-> "gut", course |-> c])
    /\ UNCHANGED <<catalogueRows, cache, edited, catalogueHistory>>

DeleteCourseVideos(x) ==
    /\ Reached(x, "gut")
    /\ videos' = videos \ {handler[x].course}
    /\ Proceed(x, [at |-> "erase", course |-> handler[x].course])
    /\ UNCHANGED <<course, category, setting, around, cache, edited, catalogueHistory>>

\* Fault: as the comment has it, "cascades to ... enrollments".
EraseCourseWhole(x) ==
    /\ Reached(x, "erase")
    /\ SetCourse(handler[x].course, NoCourse)
    /\ Answer(x)
    /\ doubt' = doubt \cup KeysOf(handler[x].course) \cup {<<"categories">>}
    /\ UNCHANGED <<category, setting, around, videos, cache, edited, approved, late>>

\* ... which its enrolments keep: the foreign key of enrollments restricts.
EraseCourse(x) ==
    /\ Reached(x, "erase")
    /\ LET c == handler[x].course IN
         IF Created(c) /\ c \notin enrolled
         THEN /\ SetCourse(c, NoCourse)
              /\ doubt' = doubt \cup KeysOf(c) \cup {<<"categories">>}
         ELSE UNCHANGED <<course, doubt>>
    /\ Answer(x)
    /\ UNCHANGED <<category, setting, around, videos, cache, edited, approved, late>>

SuspendCourse(c) ==
    /\ Created(c)
    /\ SetCourse(c, [course[c] EXCEPT !.status = "ARCHIVED", !.isPublished = FALSE])
    /\ doubt' = doubt \cup KeysOf(c)
    /\ UNCHANGED <<category, setting, around, videos, cache, handler, edited, approved, late>>

\* createCategory, updateCategory and deleteCategory; one with courses, which
\* are shown with it, stays.
EditCategory(x, k, state) ==
    /\ Free(x)
    /\ category[k] # state
    /\ Edit
    /\ state = "absent" => CoursesOf(k) = {}
    /\ category' = [category EXCEPT ![k] = state]
    /\ Reshow(CoursesOf(k))
    /\ Invalidating(x, {<<"categories">>})
    /\ UNCHANGED <<course, setting, students, enrolled, videos, cache, approved, late>>

UpdateSetting(x) ==
    /\ Free(x)
    /\ Edit
    /\ setting' = setting + 1
    /\ Invalidating(x, {<<"settings">>})
    /\ UNCHANGED <<course, category, around, videos, cache, catalogueHistory>>

-----------------------------------------------------------------------------
(* The cache *)

\* del and delPattern swallow the errors of Redis.
Invalidate(x) ==
    /\ Reached(x, "invalidate")
    /\ LET keys == handler[x].keys IN
         \/ /\ cache' = [k \in Keys |-> IF k \in keys THEN NoEntry ELSE cache[k]]
            /\ doubt' = doubt \ keys
         \/ UNCHANGED cache /\ doubt' = doubt \cup keys
    /\ Answer(x)
    /\ UNCHANGED <<catalogueRows, edited, approved, late>>

\* Only a reader that misses goes to the database.
Get(x, key) ==
    /\ Free(x)
    /\ cache[key] = NoEntry
    /\ Proceed(x, [at |-> "query", key |-> key])
    /\ UNCHANGED <<catalogueRows, cache, edited, catalogueHistory>>

Query(x) ==
    /\ Reached(x, "query")
    /\ LET value == View(handler[x].key) IN
         IF value = NoEntry
         THEN Answer(x)
         ELSE Proceed(x, [at |-> "store", key |-> handler[x].key, value |-> value])
    /\ UNCHANGED <<catalogueRows, cache, edited, catalogueHistory>>

\* setEx, whatever was deleted meanwhile.
StoreEntry(x) ==
    /\ Reached(x, "store")
    /\ LET key == handler[x].key
           value == handler[x].value IN
         /\ cache' = [cache EXCEPT ![key] = value]
         /\ doubt' = IF value = View(key) THEN doubt \ {key} ELSE doubt \cup {key}
    /\ Answer(x)
    /\ UNCHANGED <<catalogueRows, edited, approved, late>>

\* Redis drops an entry at the end of its time to live.
Expire(key) ==
    /\ cache[key] # NoEntry
    /\ cache' = [cache EXCEPT ![key] = NoEntry]
    /\ doubt' = doubt \ {key}
    /\ UNCHANGED <<catalogueRows, handler, edited, approved, late>>

\* The process dies; what it had to delete stays.
DieInRequest(x) ==
    /\ ~Free(x)
    /\ Answer(x)
    /\ doubt' = IF Reached(x, "invalidate") THEN doubt \cup handler[x].keys ELSE doubt
    /\ UNCHANGED <<catalogueRows, cache, edited, approved, late>>

CatalogueNext ==
    \/ \E x \in Handlers :
         \/ \E c \in Courses :
              \/ \E k \in Categories : CreateCourse(x, c, k)
              \/ \E change \in CourseChanges : UpdateCourse(x, c, change)
              \/ Publish(x, c) \/ Remove(x, c) \/ Enrol(x, c)
              \/ ApproveCourse(x, c) \/ RejectCourse(x, c)
         \/ InsertCourse(x) \/ StoreChange(x) \/ StoreSubmission(x) \/ StoreRemoval(x)
         \/ InsertEnrollment(x) \/ StoreCourseApproval(x)
         \/ DeleteCourseVideos(x) \/ EraseCourse(x)
         \/ \E k \in Categories, state \in {"absent", "active", "inactive"} :
              EditCategory(x, k, state)
         \/ UpdateSetting(x)
         \/ Invalidate(x) \/ Query(x) \/ StoreEntry(x) \/ DieInRequest(x)
         \/ \E key \in Keys : Get(x, key)
    \/ \E c \in Courses :
         \/ SuspendCourse(c) \/ RefundStudent(c) \/ Readmit(c)
         \/ ChangeContents(c) \/ ChangeFigures(c)
    \/ \E key \in Keys : Expire(key)

CatalogueSpec == CatalogueInit /\ [][CatalogueNext]_catalogueVars

-----------------------------------------------------------------------------
(* Properties *)

\* Every row and entry keeps its type; a title counts the edits.
CatalogueTypeOK ==
    /\ course \in [Courses -> CourseRows \cup {NoCourse}]
    /\ category \in [Categories -> {"absent", "active", "inactive"}]
    /\ students \subseteq enrolled /\ enrolled \subseteq Courses /\ videos \subseteq Courses
    /\ contents \in [Courses -> Nat] /\ figures \in [Courses -> Nat]
    /\ \A c \in Courses :
         \/ cache[DetailKey(c)] = NoEntry
         \/ cache[DetailKey(c)] \in Details /\ cache[DetailKey(c)].row.isPublished
    /\ \A x \in Handlers : Reached(x, "update") => handler[x].change \in CourseChanges
    /\ doubt \subseteq Keys /\ edited \in 0..MaxCourseEdits

\* A stranger is shown, from the database or the cache, only courses that an
\* administrator approved, whatever their owner writes into them.
StrangersSeeApproved ==
    /\ \A c \in Courses :
         \/ c \in approved
         \/ cache[DetailKey(c)] = NoEntry /\ ~(Created(c) /\ course[c].isPublished)
    /\ \A key \in {<<"list">>, <<"search">>, <<"featured">>} :
         cache[key] # NoEntry => \A entry \in cache[key] : entry[1] \in approved

\* An entry is stale only for a reason the code has: the deletion is still to
\* come, was lost or failed, an administrator, a student or another module wrote
\* without one, or a reader was overtaken.  No one deletes the featured courses.
FreshUnlessExcused ==
    \A key \in Keys \ {<<"featured">>} :
        \/ cache[key] = NoEntry
        \/ cache[key] = View(key)
        \/ key \in doubt
        \/ \E x \in Handlers : Reached(x, "invalidate") /\ key \in handler[x].keys

\* Who enrolled keeps the course, refunded or not: no rejection erases it ...
StudentsKeepCourse == \A c \in enrolled : Created(c)

\* ... nor is it removed from a student, except one who came, or came back from a
\* refund, during the removal.
RemovalSparesStudents ==
    [][\A c \in students : Created(c) /\ ~course[c].deleted =>
            ~course'[c].deleted \/ c \in late]_catalogueVars

\* What is shown was approved and is what is stored, and a sale outlives what
\* instructor and administrator do with the course.
CatalogueIsSound ==
    [](StrangersSeeApproved /\ FreshUnlessExcused /\ StudentsKeepCourse)
        /\ RemovalSparesStudents
================================================================================
