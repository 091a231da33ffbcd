# EduBridge backend: a TLA+ verification project

EduBridge is a NestJS backend for an e-learning marketplace: courses, mobile-money
payments, progress and certificates, live classes, video processing, chat and
notifications over PostgreSQL (Prisma), Redis and BullMQ. The source is TypeScript under
`src/src`, the schema is `src/prisma/schema.prisma`.

The program has almost no data structures of its own; what can go wrong is
**interleaving**. Node runs one callback at a time, but every `await` hands control to other
requests, several instances may run against one database, and most handlers read, decide
and write in separate awaits. The modules here therefore share one way of modelling:

* a request is a *job* of a *worker*; what it read before an await is kept in the job record;
* an action is what happens between two awaits that touch something another job can touch:
  one query, one provider call, or one Prisma transaction. Queries of one request that
  nothing can tell apart are merged;
* a `$transaction` is one action when its first write locks a row that serialises it with
  every transaction it conflicts with and its inserts are checked by a unique index (READ
  COMMITTED is PostgreSQL's default, and the code does not change it); the removal of a class and
  the reordering of a curriculum are not of that kind and go statement by statement;
* a `findUnique` with nested includes is one SELECT per table, and an action each where a property
  can tell (the recalculation of progress);
* numbers computed in binary floating point and then rounded are a choice where the exact value lies
  halfway between two results;
* in-place updates (`increment`, `updateMany ... where status`) are evaluated on the current row;
* a crash, or an await that throws, ends the job and undoes nothing that was committed.

## Inventory

| component | state | operations | hard behaviour | what makes it correct |
|---|---|---|---|---|
| payments (`modules/payments`) | Payment, Enrollment, totals of Course and InstructorProfile, Coupon.usedCount, UserAnalytics | enrollFree, createPaymentIntent, webhook, poll, refundPayment | concurrent finalizations, late or early webhooks, crash between the provider and the database, refund races | money and seats agree; totals agree with rows; a paid purchase is settled |
| nkwa (`common/nkwa`) | external provider | collect, disburse, getPayment | lost answers, refusals | external: modelled by what callers rely on |
| enrollments (`modules/enrollments`) | LessonProgress, Enrollment progress/status/completedAt, Certificate | updateLessonProgress and its two private steps | stale recalculation, crash before the certificate, overwriting REFUNDED | one certificate, only for a completed course, and for each of them |
| lessons (`modules/lessons`) | Section, Lesson | create/update/delete/reorder | curriculum edited while progress is recalculated; two reorderings at once | progress counts what is published; the order is one that was chosen |
| payouts (`modules/payouts`) | Payout, InstructorProfile.payoutPhone | requestPayout, savePayoutPhone | balance read before the money leaves; crash before the record | rows and disbursements match; the overdraft is bounded |
| auth (`modules/auth`), users | User, UserAuth (lockout, refresh hash, reset code, 2FA) | register, login, Google login, refresh, reset, change, 2FA, erasure | read-modify-write across bcrypt, credentials written after the account was erased, codes used twice | a lock is earned, a code is spent, an erased account stays dead |
| applications (`modules/applications`), user administration | InstructorApplication, User.role, InstructorProfile | apply, submit, approve, reject, role and account edits | two reviews of one application, promotion and marking in separate queries | whoever was approved is an instructor, whole |
| live sessions, availability (`modules/live-sessions`) | LiveSession, SessionRequest, AvailabilitySlot | create, move, delete, apply, accept, reject, request, confirm, join, end; weekly slots | capacity checks against concurrent writers, joins against ends and sweeps | overbooking is bounded; what hangs on a class goes with it |
| classroom gateway | participants, sharer, whiteboard, in memory | join, leave, signalling, disconnect | sockets closing during an awaited join, several sockets per user | everyone in the room sees what the server keeps |
| scheduler | none of its own | reminders (not modelled), stalled videos, ended sessions, old notices, statistics | a sweep works on a snapshot; minutes are missed | what it is to remove goes away, and nothing else |
| video processing (`modules/video-processing`) | Video, VideoVariant, objects, BullMQ jobs | upload, confirm, process, transcode, finalize, retry, delete | retries beside running jobs, finalization over an approval, crash between steps | what is shown is complete and reviewed; no video is processed for ever |
| courses, admin, cache (`modules/courses`, `modules/admin`, `common/cache`) | Course, Category, SystemSetting, cache entries | create, update, publish, approve, reject, suspend, remove; cached reads | check-then-act against purchases, cache refilled with stale rows | strangers see approved courses; a stale entry has a known reason |
| chat, discussions | Chat, ChatParticipant, ChatMessage; sockets and rooms in memory | rooms, members, messages, threads, support, course chat | membership read before the room is joined; sockets that close meanwhile | rooms and lists agree with participants; messages reach who listens |
| notifications, announcements | Notification, DeviceToken, CourseAnnouncement, BullMQ jobs | single notices, broadcasts, devices, announcements | retries, stale devices, a dead worker, a broadcast after the response | everyone is told, once |
| quizzes, reviews, coupons | their rows, Course.averageRating | attempts, scoring, ratings, quotes | double submissions, older averages written last, two computations of one price | results, ratings and quotes agree with what they stand for |
| analytics, statistics (`modules/analytics`) | none of its own | pages of figures over enrolments, payments and lessons | rates from separate queries, the same rows counted on several pages | no rate above one; pages agree |
| search (`modules/search`) | cached pages and suggestions | search by text and filters, order, pages, suggestions | one cached page answers different questions; off-by-one of pages | an answer is what was asked for; every match is on one page |
| one-time codes (`common/utils/totp.ts`) | the secret | base 32 there and back, verification | overflow of a 32-bit accumulator, a clock that moves | the secret survives; codes are timely |
| certificates, wishlist, notes, reports, email, health, metrics | read-only or single-row | | | not modelled |

Interaction: all services share the database and call each other directly. payments and
payouts call nkwa; payments writes the enrolments that enrollments updates and the revenue
that payouts pays out; the coupon a payment applies is quoted by coupons; the administrator's
approval of a course finishes its videos; announcements dispatch notifications; the scheduler
sweeps the rows of live sessions, videos, notices and ratings; gateways keep per-process
memory that no transaction protects.

## Modules

### Payments (core)

`Payments.tla` models `payments.service.ts` whole, except its two read-only endpoints.

| action | code |
|---|---|
| EnrollFreeRead, EnrollFreeCommit | `enrollFree`: price and row checks; the transaction, whose insert the unique index may refuse |
| IntentCheck, IntentCollect, IntentRecord | `createPaymentIntent`: row, coupon and amount; `nkwa.collect`; `payment.create` |
| FinalizeRead, FinalizeAsk, FinalizeMarkFailed | `finalizeFromNkwa`, called by the webhook and by the poll |
| GrantReadPayment, GrantReadEnrollment, GrantSettle, GrantEnroll, GrantAbort, GrantNotify | `grantEnrollment`: two reads; the transaction when a row was found, when none was, and when it rolls back; the notifications |
| RefundRead, RefundDisburse, RefundReverse | `refundPayment`: the check; `nkwa.disburse`; the transaction |
| CreateProfile | `users.service` `updateInstructorProfile`, the only repair for a missing profile |
| ProviderSettles, ProviderRefuses, Crash | environment |

State: `collection` and `disbursed` are the provider's books, `order` is the metadata of a
payment, `status` and `enrollment` the rows (`enrollment[s].via` is ghost: what bought the
row), `course`, `profile`, `usedCount`, `analytics` the totals the transactions increment,
`reversed` the disbursements a refund transaction recorded, `job` the requests in flight.
A coupon is its discount and its limit; a price is any the course may have when read, so
that repricing is a choice at each read. XAF amounts are integers; the instructor's share
is a percentage, so `profile[i].revenue` is in hundredths.

`PurchaseLedger.tla` is what all of that promises: a seat is taken once and never changes
hands, settling follows paying and takes the seat unless taken, only settled purchases are
repaid. `Payments` implements it (`ImplementsLedger`, refinement mapping `Ledger`).

| run | instance | question |
|---|---|---|
| payments | 1 user, 2 courses of 2 sellers (one at 10, one free or 4), 1 one-use coupon, 2 payments, 2 disbursements, 2 workers, 1 fault | Does everything agree when payments, free enrolments and refunds race for a seat, and is each sale booked on the right course, seller, coupon and buyer? |
| payments_live | 1 user, 1 course at 10, 2 payments, 1 fault, fairness | Is a collected, recorded payment settled in the end? |
| payments_refund_once | 1 payment, 2 disbursements, no fault | a claim of the code it does not keep (below) |

The run `payments` goes beyond one refund, and uses its fault, only in behaviours that sell one
course alone (the state constraint `Bounded` in MCPayments); with both courses on sale there is one
refund and no fault.
SalesAreSound says that money and seats agree, StudentsReconcile and TotalsReconcile that the
counters are what the rows add up to, ImplementsLedger that all of it is PurchaseLedger.

Two payments and two workers are the smallest instance in which each read of a request can
be overtaken by a second request of the same or of another payment of the same seat; a
third repeats the same races. One fault is enough to lose each answer and to kill each
request once. Deadlock is not checked: the system may stop, with every seat taken and every
payment settled or failed for good.

Fairness (`FairSpec`): a started request proceeds (weak, per worker), and the client polls,
or the provider repeats its webhook, as long as a payment is not COMPLETED (strong, because
workers may be busy whenever it tries). Nothing is assumed of buyers, refunds or new
purchases.

A claim the code does not keep: "Only completed payments can be refunded" (`:186`) is read before the
disbursement, so two requests refund twice (RefundPaysOnce). The totals stay right even so.

### CourseProgress

`CourseProgress.tla` models one course: the progress of its students
(`enrollments.service.ts`), while its curriculum is edited (`lessons.service.ts`, and
`approveCourse` of `admin.service.ts`) and refunds write the same enrolment rows
(`payments.service.ts`).

| action | code |
|---|---|
| ReportProgress | `updateLessonProgress`: the lesson and the enrolment row exist |
| UpsertProgress | its upsert, which never clears isCompleted; a lesson deleted meanwhile fails the foreign key |
| ReadEnrollment, ReadSections, ReadLessons, Recalculate | `updateCourseProgress`: the enrolment, the published sections, their published lessons and the progress rows are read, by one SELECT after the other; percentage, completeness and "first time" are computed from them |
| UpdateEnrollment | the update, with what was computed then |
| GenerateCertificate | `generateCertificate`, whose insert `Certificate.enrollmentId @unique` may refuse |
| Enroll, Refund | the writes of `grantEnrollment` and `refundPayment` |
| CreateSection .. DeleteLesson, ApproveCourse | the instructor's edits and the admin's approval; deletions cascade to progress rows |
| Crash | a request that dies between two awaits |

State: `section` and `lesson` are the rows with their publication, `enrollment` the row of
each student, `done` the progress rows with isCompleted, `certificate` who has one, `job`
the requests. `completedAt` is 0 while the column is null and then counts its writes, which the
concurrent reports may repeat. `standing` and `finishers` are history: the lessons students could see all the
while from a worker's SELECT of the sections to its SELECT of their lessons, and who had, while such
a list was held, completed something and all of these. That is what a certificate stands for. It is not
quite "has completed everything published": a lesson that is published, or whose section is,
while the course is being read may be passed over, or be completed when another is already
published, so that at no moment everything was.
`percent` is in hundredths, rounded as `toFixed(2)` does.

`CompletionRegister.tla` is the promise: each student is learning, then finished, then
completed, then certified, and never goes back. `CourseProgress` implements it
(`ImplementsRegister`); an edit may make several students finish at once.

| run | instance | question |
|---|---|---|
| progress | 1 student, 2 sections of 1 lesson, 2 workers, 3 edits, 1 fault | Is what is certified earned, and nothing lost, under stale recalculations, edits, a refund and a crash? |
| progress_live | 1 student, 1 section of 2 lessons, 2 workers, 1 edit, no fault, fairness | Is everyone who completes everything published certified and shown as COMPLETED? |
| progress_refund | 1 worker, 1 section, no fault | a claim of the code it does not keep |

Students share nothing but the curriculum and the workers, so one student and two workers
show every race of two reports; two lessons are needed for "one of two", which is where a
stale percentage differs; two sections are needed for a published lesson in an unpublished
section. Three edits allow publishing, hiding and publishing again around one recalculation, and an edit
between any two of its SELECTs.
The initial curriculum is any an instructor can have created so far.

Fairness: requests proceed (weak, per worker) and the player goes on reporting each lesson it
shows (strong, because workers may be busy); a report need not claim completion. LearningSettles asks
for both, the certificate and the row. Edits and
refunds are bounded and not fair. Without the reports nothing would repair a stale write: a
recalculation that read before another report's upsert may write its older percentage, and
ACTIVE over COMPLETED, after it.

CertificatesAreSound: a certificate stands for a completion, a completion for all that stood
published while it was counted, and only a fault loses one. JobsStillJustified says what a recalculation relies on
between its queries. PercentInRange bounds what stale lists of lessons can count.

A claim the code does not keep: a refund is to reverse the enrolment (`payments.service.ts:178`), and
the next report makes it ACTIVE or COMPLETED again (RefundStays).

### Payouts

`Payouts.tla` models `requestPayout` and `savePayoutPhone`, against revenue that sales
and refunds move (the shares `payments.service.ts` books).

| action | code |
|---|---|
| RequestPayout | the profile, with its revenue and number, is read |
| CheckBalance | the payouts are summed and the amount compared |
| Disburse, LoseAnswer | `nkwa.disburse`: refused, accepted, or accepted with the answer lost ("Payout failed") |
| RecordPayout | the row is created, as 'paid' |
| SavePayoutPhone | `savePayoutPhone` |
| Sell, Refund | what the payments service adds to and takes from `totalRevenue` |
| Crash | a request that dies between two awaits |

| run | instance | question |
|---|---|---|
| payouts | 1 instructor, 2 workers, 3 disbursements, 3 sales or refunds, 1 fault | Do rows and disbursements match, and how much can be overdrawn? |

RowsMatchDisbursements: rows and disbursements are the same, but for faults. The code claims that the
balance is validated (`payouts.service.ts:126`), and two overlapping requests defeat it. What it does
keep is OverdraftIsBounded: an instructor gets at most what was
ever earned, once for every request that can be in flight and once for every fault, so that a
single request at a time, and no fault, keeps the balance. Rows are written as 'paid' when the
provider accepts, and nothing reads a disbursement again: one that fails later stays 'paid',
and its later verdict is not modelled. Two requests are the smallest overlap and three disbursements allow a third
payout after both; amounts 1 and 2 tell a partial payout from a full one. Revenue is moved by
any share, which subsumes the order of purchases in Payments; MaxSales bounds how often.

### Reports

`Reports.tla` models `analytics.service.ts` and `getSystemStats` of `admin.service.ts`: each page
is an operator over the rows (`seat`, an enrolment with its progress; `receipt`, a payment; `shelf`,
`lessons`), and the rows are moved by sales, refunds, progress, edits of courses, deletions of lessons
and the calendar. A page with two queries that a rate depends on (AskPage, CountEnrollments,
CountCompletions) is read in two steps; `disturbed` is history. Ratings and watch times, which no other
page shows, are left out.

The run `payouts` takes it along (`focus`): two students, two free courses with pages read in two
steps, or two priced courses of two instructors in one category over two days on both sides of the end
of a week. ReportsAgree: no page shows more than all of something as done, unless a student enrolled or
completed between its two counts; and the revenue and the enrolments shown by day, week, month,
instructor, category, course and student add up to what the platform shows. The lists of the best
(`TopInstructors`, of the users with the role INSTRUCTOR; `TopCourses`) are cut to a length, the sort does not say who
comes first of equals, and a limit may be negative: for every such list, what is shown and what those have that
it leaves out add up. Who has the role is any subset, because roles change. A comment in
`getInstructorAnalytics` tells of the filter that was once missing, without which every instructor was
shown the revenue of all; that is one of the mutants. What does not agree, and is not claimed, is that
trends, categories and the ranking of instructors price an enrolment at what its course costs today.

### Accounts: Auth, Onboarding and Totp

`Auth.tla` models the whole of `auth.service.ts` for each user: the `UserAuth` row (password,
attempts and lock, refresh hash, reset code and token, two-factor secret), and `authReq`, what
a request read before it waits for bcrypt or the next query. Reading and writing are always
two actions (Login then CountFailure, ResetLockout or VerifyTwoFactor; RefreshToken then
GenerateTokens or EndSession; VerifyResetOtp then ExchangeCode; ResetPassword then
StorePassword; and so on). An update of a row that is gone fails, as Prisma's does, and
`Erase` (`deleteAccount`) may come between. Hashes and tokens are the passwords and counters
they stand for; the expiry of a lock, a code or a counting window may happen at any time.

`Onboarding.tla` models `applications.service.ts` and the edits of users by administrators:
a review reads (Review), promotes or provisions the account (Promote, Provision), and marks
the application (Approve, Reject) in separate steps of a desk, which may stop (Abandon).

`Totp.tla` is `totp.ts`: base 32 in both directions with the shifts of 32-bit integers JavaScript
does, and `verifyTotp`, which reads the clock again for every code it compares. The hash of a time step
is abstracted to the step.

Run `accounts`: one account with two requests at once, two passwords, two failures, two codes;
and two persons, two applications, two desks, one edit; every secret of up to six bytes over four values with
high and low bits (five bytes fill eight letters, and the accumulator overflows at the fifth byte); and
eight seconds of a clock with steps of two. The modules share no variable, and in a behaviour one of
them moves (`focus`).

* ErasedHasNoCredentials: no request on its way revives an erased account;
* LockIsEarned: concurrent attempts never count more failures than happened;
* ResetsAreSpent: a code or a token resets once, but for requests that overlap, each once;
* InstructorsAreWhole: an approval leaves an account with a profile, and one application per
  account, whatever two desks did;
* SecretSurvives: the letters hold the bits of the secret and nothing else, and are decoded to the key
  that the authenticator was shown;
* CodesAreTimely: a code is accepted exactly if it is within the window of some moment of its
  verification, but for a step that begins meanwhile.

### Live classes: LiveSessions, Classroom and Slots

`LiveSessions.tla` is one instructor's calendar: classes, the applications and private
requests, starting and ending, and the scheduler's clean-up. `calls` holds what a handler read before
it writes, and `calls[None]` what the clean-up selected. A class is removed by two statements of
one transaction (DeleteApplications, RemoveEnded): between them its applications are still there for everybody
else but locked, an application may be filed that the second statement only unlinks (`late`), and
two removals, or a removal and a deletion by the instructor, may wait for each other's rows, of which the
database ends one. The clock counts minutes up to MaxTime; Restart loses the requests in flight and undoes
the transactions that were not finished. `offered`, `withdrawn` and `late` are history. Reminders are
not modelled: nothing records that one was sent, each run of the job takes a window of one minute from the
moment it runs, in every process, and so neither once nor at least once is promised.

`Classroom.tla` is the gateway. `open`, `joining` and `room` are the sockets, `present`,
`sharer`, `board` what the process keeps, `told[k]` what socket k has been sent: events change
it, a join and `get_session_state` replace it. Only `join_session` awaits.

`Slots.tla` is the weekly availability of one instructor; a replacement of a day is a
`deleteMany` that locks the rows it found and a `createMany`, in one transaction.

Run `live`: two requests at once on one class with two applications, or on two classes; and
three sockets of two members. `clock` runs to 4, enough to start, finish and sweep every class;
a board keeps two strokes of three, so that the cap is passed. Overlap and moving need two
starts; one edit is an update or a restart.

* OverbookingIsBounded: a class is overbooked by at most the acceptances that overlapped;
* SessionsAreSound: one session per request, a started class has its room, and applications outlive
  a class only if the instructor deleted it or they were made while it was being removed;
* RoomIsSeen (with ShareIsKnown), ParticipantsAreConnected: every socket of the room sees the people
  and the board the server keeps, the two records of who shares agree, and a participant without
  a socket is one whose join was overtaken by a disconnection.

### Media: VideoPipeline, Catalogue and Search

`VideoPipeline.tla`: `jobs` is a bag of queued and running jobs, each at the await it has
reached; `Work` takes a job one await further. `mode` is the configuration: with a queue,
without one (jobs run in the process and die with it) or playing uploads directly. A crash
returns queued jobs, with one attempt less, and loses the others. Retry and the six-hourly sweep
act beside running jobs; administrators approve and reject at any time. What the endpoints answer are
operators: StreamUrls (a ready video), PreviewUrls (the administrator's preview, playlists opened by a token) and
StatusUrls (`getVideoStatus`, `getHLSManifest`), the last two whatever the status.

`Catalogue.tla`: a course from draft to removal, and cache entries by kind of key (detail, list,
search, featured, categories, settings). A course is kept with its sections, lessons, reviews and counts, which
other modules change (`contents`, and `figures` for what the lists show of it: counts of changes), and
categories with their courses. `enrolled` are the courses with an enrolment, `students` those with one that is ACTIVE
or COMPLETED, which is what a removal asks for. `View(key)` is what the database would answer; a reader
that misses stores, two awaits later, what it read. `doubt` collects the reasons for which a key
may be stale, and FreshUnlessExcused says there is no other.

`Search.tla`: the courses rest, and visitors search them with up to two of seven filters, an order, a
page and a limit. `Results` are the pages the database may answer, one for each order it may choose
between ties. A search without text, category, level and prices is kept under its page alone, and
answers every owner, language, order and limit that is asked for with that page until it expires.

Run `media`: one video of two qualities, two attempts, at most three jobs and two retries or
crashes, one without a queue; one course with every request that touches it and two handlers at once. Two qualities
are needed for "one of two is ready", two handlers for every read overtaken by one write. Readers
ask for one key in a behaviour, because entries do not influence each other; what a key does not show rests
meanwhile, and students come and go where the course itself is asked for.

* PlaybackIsWhole: what reviewers and students are shown has all qualities and their files;
* ReadyWasReviewed: no video is ready, and streamed by those who ask for that, before an administrator let it
  or its course through; direct play goes without. The endpoints that do not ask are listed below;
* CatalogueIsSound: strangers see only courses that were approved, through database and cache
  (StrangersSeeApproved); FreshUnlessExcused; a course with an enrolment, refunded or not, is not erased by a
  rejection, and one with a student is not removed but for one who came, or came back from a refund, meanwhile;
* SearchIsSound: an answer meets what its cache key tells apart, and everything asked for when it comes
  from the database; turning the pages meets each match once if no two tie; suggestions are of a text
  with the same beginning. Three courses differ in every trait and two tie in one order.

### Community: Chat, Notices, Quizzes, Reviews, Coupons, Slots, Curriculum

`Chat.tla`: rooms, participants and messages with the gateway's rooms (`listening`) and lists
(`tracked`); a call that has read waits in `call`. The controller passes a query parameter where
the service expects a user: RecruitRequester is the call whose parameter is a course's name, RecruitNamed the
one whose parameter happens to be the id of a user. `Notices.tla`: `dispatch[o][u]` is how far the
notice of an occasion to a user has come, by the queue or by the caller; `due` and `pushed` are
the devices it must and did reach. Each query may fail: the students of an announcement (LoseBroadcast), the
job (Refused), the row (LoseNotice, or LoseStored when only the answer is lost), the devices (LoseTokens,
LoseAllTokens), the push. `Quizzes.tla`, `Reviews.tla` and `Coupons.tla` are one quiz, the
reviews of one course, and the quote against the charge. An update of a question is not validated and
may store any points, zero and less among them (`AmendedPoints`); a score that is exactly the passing score
may be found below it, and one of four digits fails the transaction (FitsColumn). Money is in
ten-thousandths of a cent; a half may be rounded either way (`Nearest`).

`Curriculum.tla`: the order of sections and lessons. A reordering is a transaction that updates row by row
and keeps the locks (`undo` holds what its rows were); creations, moves and deletions come between, and
two transactions may wait for each other, one of which the database undoes. `CourseOrder.tla` is what readers
and other requests are promised of it: an order of rows, and reorderings that are asked for and then take
effect in one step, if all their rows are there, or are abandoned. `Curriculum` implements it (`ImplementsOrder`);
the order is mapped to what a query finds committed.

Run `community`: the modules share no row, and in a behaviour one moves, with chats, notices and
quizzes divided into topics (see the module). Two calls, two users, two sockets of one user, two
devices, two submissions, two questions, two reviewers: two of everything that can race. Coupons
take six offers that reach each branch (a capped and an uncapped percentage, a cap of zero, all of the price,
a fixed amount with a minimum, one above the price), and an update below zero, on a price that does not divide evenly.

* ChatIsSound: who listens takes part or left while listening or joining; the
  list of online users is right for users of one socket; a course has one chat but for
  simultaneous first calls; a message reaches every socket that listens;
* NoticesArrive: a notice is stored again only after a lost answer or query or a dead worker; devices of an
  absent user are all pushed; a working token is removed by its user only; who may read an
  announcement was told, is being told, was not to be told (not enrolled then, or a draft), or one thing named
  in `GivenUp` or `excused` went wrong: the students could not be read, the queue refused the job,
  its attempts or stalls are used up, or without a queue the only attempt failed;
* ResultsAreSound: a result is that of one submission's answers, a second set is kept only after a
  race, a pass rate exceeds 1 only by passes between its two queries. That no result earns more than there is
  holds but for questions of negative points, and is part of the types;
* RatingAgrees: at rest the rating is the average of the reviews, unless an older average was
  stored last or a request died;
* QuotesAreHonoured: what is saved and what remains are the price, to a cent more or less (2.01 at 50% is quoted as
  1.00 and 1.00); the payment asks what was quoted, to the nearest franc;
* SlotsAreSound: slots begin before they end and a day shows one replacement, but for overlapping
  updates;
* ImplementsOrder: of all the steps of a reordering a student finds all or none, never part of two or of one
  that failed, met a deleted lesson or was cut off. Two requests that reorder two sections or two lessons
  are what it takes to lock rows in opposite orders, and an id may be given twice.

### Background

`MCBackground.tla` runs LiveSessions and VideoPipeline under fairness (run `background`), one of them
moving in each behaviour.

* ClassesGoAway: the clean-up takes every class, started or not, although the process restarts.
  Fairness: minutes pass, the job, due every quarter of an hour, is run again, and a transaction that has
  begun ends, because the database runs both its statements (`LiveFairness`);
* VideosSettle: a video is not PROCESSING for ever. Fairness: the six-hourly sweep alone
  (`VideoFairness`); jobs may be lost, retried late or never end.

That a stale entry of the cache ends is no property here: it is what a time to live is.

Requests by users and administrators are never fair.

## Where code and comments part

Two runs expect a violation, `payments_refund_once` and `progress_refund` (above). Reading the code
for the models showed more of the kind, which no run pins down; the properties are stated so that
they hold beside them, and say by how much:

* payments: `finalizeFromNkwa` is called idempotent (`payments.service.ts:294`), but a late webhook
  makes a REFUNDED payment COMPLETED; a coupon's limit is compared when the intent is created and
  counted when it is granted (`:377`), so intents in flight together exceed it.
* enrollments: "Issue certificate exactly once" (`enrollments.service.ts:246`): a request that dies
  after completedAt was stored loses the certificate for good. Its number is a millisecond and six
  characters of the user id (`:264`). The course is read table by table, so that a student may complete it
  although at no moment everything published was completed.
* payouts: "Validate available balance" (`payouts.service.ts:126`) reads what two requests both see;
  a payout is recorded as paid when the provider accepts it (`:158`).
* accounts: a stale failed login can lift a lock, a confirmation of two-factor overlapping its removal
  leaves it enabled without a secret, and approval and rejection of one application overwrite each
  other; an approval that stops half way leaves it pending. `updateUser` and `changeUserRole`
  make instructors without a profile.
* live sessions: two overlapping sessions are accepted when both were compared before either was stored;
  applications are compared with seats by how many are pending; deleting a class orphans its
  applications, and so does ending or sweeping one those that arrive between the two statements
  (`live-sessions.service.ts:517`); two reminders of one class are possible, and none; two applications of one student both pass; any participant may end a class. No code
  writes COMPLETED or CANCELLED. The gateway never drops the state of a class that ended, and a user
  with two sockets leaves with either. Two updates of a slot may leave it ending before it begins.
* videos: a job that finishes late moves an approved video back to PENDING_REVIEW or FAILED; a crash
  between PROCESSING and the jobs stalls until the sweep; an interrupted deletion leaves a row
  without files. "superadmin must approve before students can stream" (`video-processing.service.ts:1114`) holds of
  the endpoints that ask for READY; playlists opened by a token, `getVideoStatus` (`:456`), which lists
  the URLs of the variants, and `getHLSManifest` (`:622`) answer anyone signed in before the decision.
* search: a page kept for one order, limit, language or instructor answers the others
  (`search.service.ts:56`), and the pages of two searches with ties may repeat and miss a course.
* catalogue: approval, rejection and suspension delete no key, nor do lessons, reviews, enrolments and
  refunds, and the featured list is never deleted; a course whose enrolments are all refunded can be removed;
  rejection deletes the videos before it fails for a course with enrolments; an update may set any
  status.
* chat: the course chat cannot be opened once it exists, because the controller passes the course's name
  as the requester (`chat.controller.ts:159-170`), unless the name is the id of a user, who is then added, and no
  later student is; events about created
  and deleted messages and about participants have no listener; replies of a thread may name any chat.
* notifications: an announcement published by an update notifies nobody; the errors of a broadcast are dropped
  (`announcements.service.ts:51`, `:123`), and no one tries again; the queue's worker and
  broadcasts never remove stale devices.
* quizzes: an empty answer is contained in every short answer and counts as right; a double submission
  keeps two sets of answers; the update of a question (`quizzes.controller.ts:81`) is typed as a Partial, which
  the pipe cannot validate, so that points may be zero or negative and a result earn more than there is.
* reviews: `syncCourseStats` and `refreshInstructorRatings` query tables named "Enrollment" and "Review",
  which are mapped to other names, so that nothing repairs a rating.
* coupons: payments looks codes up as typed, quotes in capitals; only quotes respect the minimum; a
  free quote is charged one franc; an update may set a limit of 0, which is none.

## Proofs

The theorems hold for every value of the constants under the named assumptions of the modules
(shapes of the parameters, model values that are no data; finiteness where something is counted).
Each module follows one plan: an inductive invariant that adds to the checked properties what
requests and jobs still rely on after an await; lemmas that put the actions into a few normal forms
and show what such a step preserves; one step per action; PTL at the end.

| proofs | of |
|---|---|
| `SumTheorems` | sums over finite sets |
| `PaymentsProofs`, `CourseProgressProofs` | the modules they are named for |
| `PayoutsProofs` | Payouts, Reports |
| `AccountsProofs` | Auth, Onboarding, Totp, and MCAccounts |
| `LiveProofs` | LiveSessions, Classroom, and MCLive |
| `MediaProofs` | VideoPipeline, Catalogue, Search, and MCMedia |
| `CommunityProofs` | Curriculum, Slots, Coupons, Quizzes, Reviews, Chat, Notices, and MCCommunity |

Every safety property of a passing run is a theorem: each invariant, each action property, and the three
refinements, of PurchaseLedger, CompletionRegister and CourseOrder.

### Sums

Revenue, payouts, points and ratings are sums, which the models take with `MapThenSumSet`: a fold over
the subsets of a finite set in the order CHOOSE gives. `SumTheorems.tla` proves what the order does not
matter for (`SumAdd`, `SumRemove`, sums of equal terms, of a changed term, of bounded terms). The
library's induction over finite sets takes an operator and is of no use to the installed provers; the
induction is made first-order instead: among the subsets that fail a claim there is a smallest one
(`SmallestSubset`, from the well-foundedness of strict subsets), and the claim holds for that one
as it does for the set with an element less. Each module shows once that its own sum is a
partial sum of that kind (`PointsAdd`, `StarsAdd` and the like). `SumPartition` and `CardinalityPartition`:
the sums, or counts, of the parts that a key makes of a set add up to that of the set. `AllNumbers` does for
numbers what `SmallestSubset` does for sets: a set of naturals with 0 and the successor of each of its members
has them all. Inductions on the steps of a recursive function are instances of it.

### Payments

`PaymentsProofs.tla` (`ConstantsAssumption`; `FiniteAssumption` only where cardinalities occur):

* `Invariance`: `IInv` is inductive. SettledWasPaid, SettledIsEnrolled and EnrollmentIsEarned
  are not inductive by themselves: whether a transaction may settle a payment depends on what
  its job read before. `JobsStillJustified` states, per stage of a job, what is still true of
  what it carries; the parts that could be spoilt by others are the two uniqueness claims (the
  row a job will insert and the disbursement it will record belong to no other job), proved
  from the provider's identifiers being fresh. `RecordsJustified` ties rows to the provider.
* the frame lemmas `Monotone` (what no step undoes) and `Moves` (what can bring a job to a
  stage) keep the preservation proofs short: each part needs only the actions that write it;
* `TypeCorrect`, `PaidBeforeSettled`, `EnrolledWhenSettled`, `EarnedEnrollment`,
  `StaleReadsAreSafe`, `SettledIsFinal` follow from `IInv`; `NotifiedStep` adds that only the job that
  settled a payment tells its buyer (`WhoNotifies`), and `SoundSales` is all of SalesAreSound;
* `Refinement`: every step of Payments is a step of PurchaseLedger or a stutter;
* `HeadCountsReconcile`: the head counts equal cardinalities of rows minus refunds;
* `MoneyReconciles` is TotalsReconcile. `Totals` adds the columns to `IInv`; a payment is in one
  of the sums from the transaction that settles it and never leaves (`Sold` grows by one or not at
  all), what it cost does not change any more, and a disbursement is reversed once. So each action
  adds one term to the sums of one course, seller, coupon and buyer, or leaves all as they are.

### CourseProgress

`CourseProgressProofs.tla` proves every safety property of the run `progress`, and its refinement, for
any students, curriculum, workers and number of edits and faults. `IInv` adds to the invariants
*Covering*: who now has completed all that stood published while a worker listed the lessons is among the
finishers. That is what makes stale reads harmless: the list of a worker has everything that stood published
(`ReadSteps`, JobsStillJustified), a recalculation that finds its list complete has it all among the completed
(`CompleteMeansAll`, from the code's comparison of two counts, with cardinalities of finite sets), which
proves its student a finisher; finishers only grow, and so does everything a job may rely on (`Monotone`).
`PercentBound` bounds the rounded quotient; `SoundCertificates` is CertificatesAreSound.
`RegisterRefinement` is the refinement, step by step: curriculum edits and upserts are `Finish` of a
group (possibly empty), an update with "first" is `Complete`, the certificate is `Certify`; a second
completion and a refund stutter.

### Payouts

`PayoutsProofs.tla` proves the types and RowsMatchDisbursements (`RowsMatchMoney`) for any number of
instructors, requests, disbursements and faults. The case to see is a request turning to "record": its
identifier is fresh at the provider, so no row and no other request holds it. `FiniteAssumption` is
used to count what was lost.

`OverdraftBounded` is OverdraftIsBounded. `WithinCredit`: no amount that was checked exceeds what its
instructor had ever earned by then, because revenue never does. `WithinCharge`: what is booked and what
requests past the check are about to pay stay below that, once for every worker. It is inductive
because a request that passes the check (`Checked`) saw the sum of what was booked when it read: its own
amount fits beside what was booked then, and whatever was booked or checked since belongs to another worker,
which is counted. What no row shows are faults (`LossesAreFaults`), and each costs at most one amount.

### Reports

Also in `PayoutsProofs.tla`: any users, courses, prices and calendar. Of the two queries of a page
`CountsStand` says that a count read alone still is the count of the rows, unless the page was
disturbed; what the second finds is then part of what the first found, or holds it (`CountsRest`,
`CountsDisturbed`, `RatesHold`), and a part of a whole rounds to no more than one (`RoundedIsPart`). Where pages
must agree, each shows the parts that a key makes of the same rows: the teacher in the payment's
metadata or of the course, the course, the student, the category, the day, week or month; a list of the best and those it leaves out are such parts, too. `CountsAddUp` and
`AmountsAddUp` (from `SumPartition`) give the equations of PagesAgree one by one; that every enrolment falls on
a day of the calendar and every payment names a teacher there is comes from the types.

### Auth

`AccountsProofs.tla`: any users, passwords, requests in flight, limits and codes. `AuthInv` adds to the
types `FailureIsKnown`: the count a failed login carries over bcrypt does not exceed the failures that
happened, which is why a lost update can only lower the stored count (`LocksAreEarned`). Actions are of
four forms: `Asks` reads, `Amends` writes one row that is there, `Creates` inserts, `Administers`
changes an account and never gives it credentials (`ErasedStaysOut`). `CodesAreSpent` needs an
invariant of its own, `Spent`: a secret on file is worth one reset for every request that may have found
it, and one of them less is left for each that resets.

### Onboarding

Also in `AccountsProofs.tla`: any persons, applications and desks. InstructorsAreWhole rests on what a desk
carries between its queries (`Sound`: the profile it upserted is there), on applications naming an
account that exists (`ApplicantsExist`), and on users that only grow (`UsersGrowStep`), so that the
second of two reviews finds what the first one relied on. `ApplicationsAreApart` states without counting
that an account has one application.

### Totp

Also there: any secret, window, length of a step and clock (`CodesAreTimely`). `LoginFits`: while no step has begun
since the code was entered, none of the offsets compared so far matched; steps follow the seconds in order
(`StepsGrow`), so a step that is the same at both ends was the same in between.

`SecretsSurvive` is SecretSurvives, for every secret however long. Both directions are one construction: numbers of
a width are put into an accumulator at its low end and numbers of another width are taken from its high end.
`Encoding` and `Decoding`, recursive functions of the number of steps made, have the invariant `Packed`: the bits put
out so far are those read in so far (`Bit` counts them over a sequence), those not yet put out are the low ones
of the accumulator, and fewer wait than make a number. It is proved by `AllNumbers`, from what reading in and
putting out do to single bits (`ReadIn`, `PutOut`, from `BitsShifted` and `FieldBit`). The accumulator is cut to
32 bits by every shift, and never holds more than twelve that matter, so that what overflows is already out.
That the letters hold the bits of the secret (`EncodedLetters`) and that whatever holds them is decoded to it
(`DecodedBytes`) give the theorem; two sequences of numbers of one width with equal bits are equal.

### LiveSessions

`LiveProofs.tla`: any classes, applications, requests, students and length of time. `RowsInv`
adds to SessionsAreSound what calls in flight rely on, that applications belong to a class that is
there, and that what is filed for a class after a transaction has deleted its applications is known to be late
(`RemovalsKnow`: the reason why nothing else outlives the class, whichever of two removals is ended). Actions touch, insert or remove a session,
insert or change a request, or only begin. `BoundedOverbooking` adds `SeatsHold`: acceptances stored and
on their way stay below the seats ever offered plus the calls there can be. Only three actions can raise
that sum or lower what bounds it; all others are `Calm`.

### Classroom

In the same module: any members, sockets and cap of the board. Every handler changes the server's state
and tells sockets about it; `Agrees` says that a view shows the state, one lemma per event that applying
it to both keeps that, and `Informed` that it holds of every socket in the room. RoomIsSeen,
ShareIsKnown and ParticipantsAreConnected follow.

### VideoPipeline

`MediaProofs.tla`: any videos, qualities, attempts, jobs, retries and crashes. `Justified` says what a job
knows after each await (its file is uploaded; all variants were found; the decision to publish was an
administrator's), `Decided` the same of requests. All of it is lasting: variants and files only
grow until a removal begins, and a removed video does not come back (`WholeStays`, `UploadedStays`). Rows
change in five ways (`ChangedVideo`), none of which shows a video that is not whole or not reviewed: so a
finalization that overtakes an approval, or a job of an earlier batch, does no harm to
PlaybackIsWhole and ReadyWasReviewed.

`VideoTypesHold` has a part that no single job shows: the bag of jobs never exceeds MaxJobs. `Count` is the
library's BagCardinality as a sum over the kinds of jobs (`CardinalityIsCount`), taking one from a bag and adding
one change it by one (`TakingOne`, `AddingOne`), and one whose elements are replaced, so
that some become alike, has no more than before (`Regrouped`), which is what a crash does to queued jobs. `JobsFit`
then goes through the actions.

### Catalogue

In the same module: any courses, categories, handlers and edits (`CatalogueAssumption`: finitely many handlers, which
a title counts). `Writes`, `Asks` and `Settles` sort the actions, and `CourseWritten` what a write does: it inserts, or
rewrites a row and then has its keys to delete, or to be in doubt. An entry, and what a reader is
about to make one, shows approved courses (`EntriesFit`, `ReadersFit`), and approval is never undone.
Freshness (`Fresh`) is kept because whoever changes what a key shows is on his way to delete
it, or leaves it in doubt (`ReshownViews` for what other modules change). `RemovalsAreLate`: a removal that found no student
and finds one now was crossed by the enrolment or by a return from a refund. `TitlesAreCounted` bounds what the types bound: edits made, and edits
on their way, never exceed those begun.

### Search

In the same module: any courses, texts, filters, orders, limits and pages. `AnswerStands`: an answer from the cache was kept for
a key that leaves out nothing but owner and language (`Keepable`), any other is a result of what was
asked. An order is a bijection of places and matches, and a page is an interval of its places
(`Held`), so full but for the last; the intervals of all pages cut the places without gap or
overlap, and with one order to choose from that is PagesCover. `HintsStand`: kept suggestions begin as their key.

### Curriculum

`CommunityProofs.tla`: any items and editors. `OrderInv` says of every transaction that what it has written
so far is what its ids say (`WritesItsIds`: an item that occurs twice stands where it was last put), that
what it keeps for its undoing is the order last committed, and that rows nobody holds show that order.
A transaction that waits for a lock, fails or is chosen as the victim of a deadlock gives its rows
back as it found them; one that commits makes its ids the order (`OrderIsChosen`: what a query finds is at
every moment the order that the finished requests ask for, one after another).

`OrderImplemented` is the refinement. The update of a row changes nothing that CourseOrder shows, a rollback abandons, a
commit arranges; for the last all rows must be there although nobody compares: `WereThere`, a row that a
transaction wrote was there before it, and stays because it is locked. For the same reason a request
that adds, moves or erases a row sees the same rows as a reader (`ThereIsPresent`).

### Slots

Any windows, rows and days. `UpdateFits`: an update that compared its hours with the row still finds what
it compared, or another update of that row is on its way, and then both are noted as crossed
(`EditsMeet`). `ReplacesAll`: a replacement has found every slot that earlier ones left on its day.

### Coupons

Any codes, prices and offers. `QuoteStands` and `BillStands` keep what a quote and a charge were computed
from until coupon or price change. The rest is arithmetic (`NearestIs`): discounts in ten-thousandths of a cent, rounded to
cents by the quote and to francs by the payment, halves either way, differ by half a franc at most but for
the least payment of one (`Payable`), for every price and discount.

### Quizzes and Reviews

Any questions, attempts and submissions; any reviewers, requests and stars. `EarnsItsAnswers`: what a
submission computed is the sum of what its answers earn. Points may be any integers. `TakenOnce`: two submissions that read or
answered one attempt overlapped. `PassesWereCounted` relates the two queries of a pass rate: passes that the second
counts and the first did not are exactly those noted as late.
RatingAgrees is not inductive: a rating is wrong while a request is on its way. `RatingInv` adds that there is then
one whose storing mends it, or that is known to be overtaken (`Mends`, `Pending`), and that computing never
leaves the last such request without a successor.

### Chat

Any users, rooms, posts, sockets and calls. `ChatInv`: whatever is under way in a
room is a participant's or of one who left since (`EngagedTakePart`), a room that listens exists, and course
chats together with calls that are about to open one stay below one plus the crossings (`ChatsAreCounted`).
`OwedListen`: who is owed a message listens in its room, so that the delivery, which goes to those who
listen then, misses nobody. `WritersStep` is the action property.

### Notices

Any readers, devices and occasions, any attempts and stalls of the queue. `Fits` relates the step a notice
has reached, its attempts, stalls and lapses to the number of rows stored for it: the row after the first
needs a lapse (an answer or a query that was lost, or a worker that died), whichever of the queue's retries made it.
`Reaches`: devices due are among those the job has read, then among those pushed; `DueWorks`: they
work and their user is absent, or they are no longer due. `ToldOrExcused`: of an announcement that may be read
everyone is excused or has a dispatch, and `Accounted` says of every dispatch what it leaves behind: a row stored,
an attempt to come, or one given up. `TokenRemoved` is the action property.

### Modules together

The runs `accounts`, `live`, `media` and `community` take several modules at once, of which one moves in a
behaviour. `AccountsTogether`, `CommunityTogether` and the theorems beside them show that a behaviour of the MC module is a behaviour
of each component, so that what is proved of a component holds there, and the types of all follow
(`AccountsTypes`, `LiveTypesTogether`, `MediaTypes`, `CommunityTypes`). MCLive begins in more states than LiveSessions does, with some of
its classes or requests taken away; `InstanceBegins` shows that the inductive invariants hold in those as well.

### Only model-checked

* PaidIsSettled, LearningSettles and the properties of the run `background`: liveness under fairness is out of
  the prover's reach, and so is ENABLED.

## Not modelled

* certificates, health and metrics only read, or cache what they rendered;
* wishlist, notes, reports, email preferences, and the profile edits of users write one row by its key:
  no step of another actor can come between;
* email, push, Cloudinary, S3, LiveKit and ffmpeg are I/O: a call succeeds or fails where a model says so;
* Nkwa is external, modelled by what `payments.service.ts` and `payouts.service.ts` rely on;
* of lessons, content and release dates; of courses, slugs, whose uniqueness the database
  keeps; of administration, listings and edits that set one column no property reads;
* the seed, the modules that wire the application, configuration, guards and DTO validation: a guard on
  who may call is kept where a property depends on it.

## Plan

Done: the modules above, their runs, and the proofs of their safety properties. Left, in this order:

1. refinements: a seat register for acceptances of LiveSessions, a room register for Classroom, an
   at-least-once queue for VideoPipeline and Notices, and a cache of some recent version for Catalogue;
2. compositions: Payments with the enrolment rows of CourseProgress (a refund against a recalculation is
   so far an action of CourseProgress), Payments with Payouts through the revenue, VideoPipeline with the
   lessons of CourseProgress;
3. lessons: release dates as far as they decide what a student is shown.
