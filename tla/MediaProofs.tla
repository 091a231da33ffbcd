------------------------------ MODULE MediaProofs ------------------------------
(***************************************************************************)
(* Proofs about VideoPipeline, for any number of videos, qualities,        *)
(* attempts, jobs and requests in flight; about Catalogue, for any number  *)
(* of courses, entries and edits; about Search, for any rows, filters and  *)
(* pages; and about the three together.                                    *)
(***************************************************************************)
EXTENDS MCMedia, SumTheorems, SequenceTheorems, TLAPS

-----------------------------------------------------------------------------
(***************************************************************************)
(* VideoPipeline                                                           *)
(***************************************************************************)

Jobs == ProcessJobs \cup TranscodeJobs \cup DirectJobs

VideoTypes ==
    /\ video \in [Videos -> VideoRows \cup {NoVideo}]
    /\ files \in [Videos -> SUBSET Qualities]
    /\ BagToSet(jobs) \subseteq Jobs
    /\ tasks \in [Tasks -> VideoTasks]
    /\ reviewed \subseteq Videos /\ halved \subseteq Videos
    /\ retries \in Nat

\* What requests and jobs carry across their awaits; each stays true once it
\* is, although jobs overlap and a removal may come between.
Whole(v) == IF Stored(v) THEN Complete(v) ELSE v \in halved
Reviewable(v) == Whole(v) \/ mode = "play"
Uploaded(v, q) == v \in halved \/ q \in files[v]

\* A job that has stored a file, found all variants, and may publish.
Justified(j) ==
    Transcodes(j) =>
        /\ j.at \notin {"waiting", "run"} => Uploaded(j.video, j.quality)
        /\ j.at \in {"READY", "PENDING_REVIEW"} => Whole(j.video)
        /\ j.at = "READY" => j.video \in reviewed

JobsAreJustified == \A j \in BagToSet(jobs) : Justified(j)

\* A request that stores a decision, or ends a removal.
Decided(t) ==
    /\ t.at = "play" => mode = "play"
    /\ t.at = "approve" => Reviewable(t.video)
    /\ t.at = "approveAll" => \A v \in t.left : Reviewable(v)
    /\ t.at = "erase" => t.video \in halved

TasksAreJustified == \A x \in Tasks : Decided(tasks[x])

\* ServedHasFile of the records, whoever asks for the files.
VariantsHaveFiles ==
    \A v \in Videos : Stored(v) => v \in halved \/ video[v].variants \subseteq files[v]

ReadyIsReviewed ==
    \A v \in Videos : Stored(v) /\ Status(v) = "READY" => v \in reviewed \/ mode = "play"

VideoInv ==
    /\ VideoTypes
    /\ JobsAreJustified
    /\ TasksAreJustified
    /\ ShownIsComplete
    /\ VariantsHaveFiles
    /\ ReadyIsReviewed

-----------------------------------------------------------------------------
(* Bags and jobs *)

\* What is taken leaves nothing new, and what is added is what was given.
LEMMA Taken == ASSUME NEW job PROVE DOMAIN Take(job) \subseteq DOMAIN jobs
  BY DEF Take, (-), SetToBag

LEMMA Added ==
    ASSUME NEW b, NEW s PROVE DOMAIN (b (+) SetToBag(s)) = DOMAIN b \cup s
  BY DEF (+), SetToBag

LEMMA Became ==
    ASSUME NEW job, NEW next, Become(job, next)
    PROVE  DOMAIN jobs' \subseteq DOMAIN jobs \cup {next}
  BY Taken, Added DEF Become

LEMMA Finished ==
    ASSUME NEW job, Finish(job) PROVE DOMAIN jobs' \subseteq DOMAIN jobs
  BY Taken DEF Finish

\* A job that has not transcoded anything yet.
Early(j) == j \in Jobs /\ (Transcodes(j) => j.at \in {"waiting", "run"})

\* The same job, but for its attempt or for being told to keep quiet.
Alike(i, j) ==
    /\ j \in Jobs
    /\ Transcodes(i) /\ Transcodes(j)
    /\ j.at = i.at /\ j.video = i.video /\ j.quality = i.quality

LEMMA JobShapes ==
    ASSUME NEW j \in Jobs
    PROVE  /\ j.video \in Videos
           /\ j.kind \in {"process", "request", "begin", "transcode", "direct"}
           /\ j.kind \in {"process", "request"} => j \in ProcessJobs
           /\ j.kind = "transcode" => j \in TranscodeJobs
           /\ j.kind = "direct" =>
                j \in [kind : {"direct"}, video : Videos, quality : Qualities,
                       quiet : BOOLEAN, batch : Nat,
                       at : {"run", "stored", "check", "READY", "PENDING_REVIEW"}]
           /\ Transcodes(j) =>
                /\ j.quality \in Qualities
                /\ j.at \in {"waiting", "run", "stored", "check", "READY", "PENDING_REVIEW"}
  BY DEF Jobs, ProcessJobs, TranscodeJobs, DirectJobs, Transcodes

-----------------------------------------------------------------------------
(* What a step may do *)

\* The row of a video is created, marked, shown, given a variant or erased.
ChangedVideo(v) ==
    \/ video'[v] = video[v]
    \/ /\ ~Stored(v) /\ v \notin halved
       /\ video'[v] \in VideoRows
       /\ video'[v].status = "UPLOADED" /\ video'[v].variants = {}
    \/ /\ Stored(v) /\ video'[v] \in VideoRows
       /\ video'[v].variants = video[v].variants
       /\ video'[v].status \in {"PENDING_REVIEW", "READY"} => Reviewable(v)
       /\ video'[v].status = "READY" => v \in reviewed' \/ mode = "play"
    \/ /\ Stored(v) /\ video'[v] \in VideoRows
       /\ video'[v].status = video[v].status
       /\ \E q \in Qualities :
            video'[v].variants = video[v].variants \cup {q} /\ Uploaded(v, q)
    \/ Stored(v) /\ video'[v] = NoVideo /\ v \in halved

VideosStep ==
    /\ DOMAIN video' = Videos /\ video' = [v \in Videos |-> video'[v]]
    /\ \A v \in Videos : ChangedVideo(v)

FilesStep ==
    /\ files' \in [Videos -> SUBSET Qualities]
    /\ \A v \in Videos : files[v] \subseteq files'[v] \/ v \in halved'

\* History only grows.
RecordStep ==
    /\ mode' = mode
    /\ halved \subseteq halved' /\ halved' \subseteq Videos
    /\ reviewed \subseteq reviewed' /\ reviewed' \subseteq Videos
    /\ retries' \in Nat

JobsStep ==
    \A j \in BagToSet(jobs') :
        \/ j \in BagToSet(jobs)
        \/ Early(j)
        \/ \E i \in BagToSet(jobs) : Alike(i, j)
        \/ j \in Jobs /\ (Justified(j))'

TasksStep ==
    /\ DOMAIN tasks' = Tasks /\ tasks' = [x \in Tasks |-> tasks'[x]]
    /\ \A x \in Tasks :
         \E t \in VideoTasks : tasks'[x] = t /\ (t = tasks[x] \/ (Decided(t))')

VideoStep == VideosStep /\ FilesStep /\ RecordStep /\ JobsStep /\ TasksStep

\* Rows are records or absent.
LEMMA Rows ==
    ASSUME VideoTypes, NEW v \in Videos
    PROVE  /\ Stored(v) <=> video[v] \in VideoRows
           /\ ~Stored(v) <=> video[v] = NoVideo
           /\ Stored(v) => video[v].variants \subseteq Qualities
  BY VideoRowsAssumption DEF VideoTypes, Stored, VideoRows

LEMMA WholeStays ==
    ASSUME VideoTypes, VideosStep, RecordStep, NEW v \in Videos, Whole(v)
    PROVE  (Whole(v))'
<1>1. ChangedVideo(v)
  BY DEF VideosStep
<1> QED
  BY <1>1, VideoRowsAssumption, Rows DEF ChangedVideo, Whole, Complete, Stored, RecordStep

LEMMA ReviewableStays ==
    ASSUME VideoTypes, VideosStep, RecordStep, NEW v \in Videos, Reviewable(v)
    PROVE  (Reviewable(v))'
  BY WholeStays DEF Reviewable, RecordStep

LEMMA UploadedStays ==
    ASSUME FilesStep, RecordStep, NEW v \in Videos, NEW q, Uploaded(v, q)
    PROVE  (Uploaded(v, q))'
  BY DEF FilesStep, RecordStep, Uploaded

LEMMA JustifiedStays ==
    ASSUME VideoTypes, VideosStep, FilesStep, RecordStep, NEW j \in Jobs, Justified(j)
    PROVE  (Justified(j))'
<1>1. j.video \in Videos
  BY JobShapes
<1>2. Uploaded(j.video, j.quality) => (Uploaded(j.video, j.quality))'
  BY <1>1, UploadedStays
<1>3. Whole(j.video) => (Whole(j.video))'
  BY <1>1, WholeStays
<1> QED
  BY <1>2, <1>3 DEF Justified, RecordStep, Transcodes

LEMMA TaskShapes ==
    ASSUME NEW t \in VideoTasks
    PROVE  /\ t.at \in {"enqueue", "retry", "requeue", "play", "approve", "erase", "delete"} =>
                t.video \in Videos
           /\ t.at = "approveAll" => t.left \subseteq Videos
           /\ t.at = "delete" => t.keys \subseteq Qualities
  BY DEF VideoTasks, NoTask

LEMMA DecidedStays ==
    ASSUME VideoTypes, VideosStep, RecordStep, NEW t \in VideoTasks, Decided(t)
    PROVE  (Decided(t))'
<1>1. t.at = "approve" => (Reviewable(t.video))'
  BY ReviewableStays, TaskShapes DEF Decided
<1>2. t.at = "approveAll" => \A v \in t.left : (Reviewable(v))'
  BY ReviewableStays, TaskShapes DEF Decided
<1> QED
  BY <1>1, <1>2 DEF Decided, RecordStep

\* A step of this form keeps the invariant.
LEMMA StepKeeps == VideoInv /\ VideoStep => VideoInv'
<1> SUFFICES ASSUME VideoInv, VideoStep PROVE VideoInv'
  OBVIOUS
<1> USE DEF VideoInv, VideoStep
<1>1. VideoTypes'
  <2>1. \A v \in Videos : video'[v] \in VideoRows \cup {NoVideo}
    BY DEF VideosStep, ChangedVideo, VideoTypes
  <2>2. BagToSet(jobs') \subseteq Jobs
    BY DEF JobsStep, Early, Alike, VideoTypes
  <2>3. \A x \in Tasks : tasks'[x] \in VideoTasks
    BY DEF TasksStep
  <2> QED
    BY <2>1, <2>2, <2>3 DEF VideoTypes, VideosStep, FilesStep, RecordStep, TasksStep
<1>2. JobsAreJustified'
  <2> SUFFICES ASSUME NEW j \in BagToSet(jobs') PROVE (Justified(j))'
    BY DEF JobsAreJustified
  <2>1. CASE j \in BagToSet(jobs)
    BY <2>1, JustifiedStays DEF JobsAreJustified, VideoTypes
  <2>2. CASE Early(j)
    BY <2>2 DEF Early, Justified, Transcodes
  <2>3. CASE \E i \in BagToSet(jobs) : Alike(i, j)
    <3>1. PICK i \in BagToSet(jobs) : Alike(i, j)
      BY <2>3
    <3>2. (Justified(i))'
      BY JustifiedStays DEF JobsAreJustified, VideoTypes
    <3> QED
      BY <3>1, <3>2 DEF Alike, Justified, Whole, Uploaded, Stored, Complete
  <2> QED
    BY <2>1, <2>2, <2>3 DEF JobsStep
<1>3. TasksAreJustified'
  <2> SUFFICES ASSUME NEW x \in Tasks PROVE (Decided(tasks[x]))'
    BY DEF TasksAreJustified
  <2>1. PICK t \in VideoTasks : tasks'[x] = t /\ (t = tasks[x] \/ (Decided(t))')
    BY DEF TasksStep
  <2>2. (Decided(t))'
    BY <2>1, DecidedStays DEF TasksAreJustified
  <2> QED
    BY <2>1, <2>2 DEF Decided
<1>4. ShownIsComplete' /\ VariantsHaveFiles' /\ ReadyIsReviewed'
  <2> SUFFICES ASSUME NEW v \in Videos, video'[v] # NoVideo
               PROVE  /\ video'[v].status \in {"PENDING_REVIEW", "READY"} /\ mode # "play" =>
                            Qualities \subseteq video'[v].variants
                      /\ v \in halved' \/ video'[v].variants \subseteq files'[v]
                      /\ video'[v].status = "READY" => v \in reviewed' \/ mode = "play"
    BY DEF ShownIsComplete, VariantsHaveFiles, ReadyIsReviewed, Stored, Status, RecordStep
  <2>1. ChangedVideo(v)
    BY DEF VideosStep
  <2>2. Stored(v) => /\ Status(v) \in {"PENDING_REVIEW", "READY"} /\ mode # "play" =>
                            Qualities \subseteq video[v].variants
                     /\ v \in halved \/ video[v].variants \subseteq files[v]
                     /\ Status(v) = "READY" => v \in reviewed \/ mode = "play"
    BY DEF ShownIsComplete, VariantsHaveFiles, ReadyIsReviewed
  <2>3. files[v] \subseteq files'[v] \/ v \in halved'
    BY DEF FilesStep
  <2>4. halved \subseteq halved' /\ reviewed \subseteq reviewed'
    BY DEF RecordStep
  <2> QED
    BY <2>1, <2>2, <2>3, <2>4
       DEF ChangedVideo, Stored, Status, Reviewable, Whole, Complete, Uploaded
<1> QED
  BY <1>1, <1>2, <1>3, <1>4

-----------------------------------------------------------------------------
(* The parts of a step *)

LEMMA SameRows == ASSUME VideoTypes, video' = video PROVE VideosStep
  BY DEF VideoTypes, VideosStep, ChangedVideo

LEMMA SameFiles == ASSUME VideoTypes, files' = files PROVE FilesStep
  BY DEF VideoTypes, FilesStep

LEMMA SameJobs == ASSUME jobs' = jobs PROVE JobsStep
  BY DEF JobsStep

LEMMA SameTasks == ASSUME VideoTypes, tasks' = tasks PROVE TasksStep
  BY DEF VideoTypes, TasksStep

LEMMA SameRecord ==
    ASSUME VideoTypes, mode' = mode, halved' = halved, reviewed' = reviewed,
           retries' = retries \/ Again
    PROVE  RecordStep
  BY DEF VideoTypes, RecordStep, Again

\* A request asks for something whose outcome is justified.
LEMMA TaskGiven ==
    ASSUME VideoTypes, NEW x \in Tasks, NEW t \in VideoTasks, Task(x, t), (Decided(t))'
    PROVE  TasksStep
  BY DEF VideoTypes, TasksStep, Task

LEMMA TaskEnded == ASSUME VideoTypes, NEW x \in Tasks, Done(x) PROVE TasksStep
<1>1. NoTask \in VideoTasks /\ (Decided(NoTask))'
  BY DEF NoTask, VideoTasks, Decided
<1> QED
  BY <1>1, TaskGiven DEF Done

\* The requests that decide nothing.
LEMMA TaskBegun ==
    ASSUME VideoTypes, NEW x \in Tasks, NEW t \in VideoTasks, Task(x, t),
           t.at \in {"none", "enqueue", "retry", "requeue", "delete", "pending"}
    PROVE  TasksStep
<1>1. (Decided(t))'
  BY DEF Decided
<1> QED
  BY <1>1, TaskGiven

LEMMA JobsAdded ==
    ASSUME NEW s, Add(s), \A j \in s : Early(j) PROVE JobsStep
  BY Added DEF Add, JobsStep, BagToSet

LEMMA JobMoved ==
    ASSUME NEW job \in BagToSet(jobs), NEW next, Become(job, next),
           Early(next) \/ Alike(job, next) \/ (next \in Jobs /\ (Justified(next))')
    PROVE  JobsStep
<1>1. DOMAIN jobs' \subseteq DOMAIN jobs \cup {next}
  BY Became
<1> QED
  BY <1>1 DEF JobsStep, BagToSet, Justified, Whole, Uploaded, Stored, Complete

LEMMA JobEnded == ASSUME NEW job, Finish(job) PROVE JobsStep
  BY Finished DEF JobsStep, BagToSet

LEMMA JobSplit ==
    ASSUME NEW job, NEW s, jobs' = Take(job) (+) SetToBag(s), \A j \in s : Early(j)
    PROVE  JobsStep
  BY Taken, Added DEF JobsStep, BagToSet

LEMMA Marked ==
    ASSUME VideoTypes, NEW v \in Videos, Stored(v),
           NEW s \in {"UPLOADED", "PROCESSING", "PENDING_REVIEW", "READY", "FAILED"},
           SetStatus(v, s),
           s \in {"PENDING_REVIEW", "READY"} => Reviewable(v),
           s = "READY" => v \in reviewed' \/ mode = "play"
    PROVE  VideosStep
<1>1. video[v] \in VideoRows
  BY Rows
<1>2. PICK row \in VideoRows :
         /\ video' = [video EXCEPT ![v] = row]
         /\ row.status = s /\ row.variants = video[v].variants
  <2>1. [video[v] EXCEPT !.status = s] \in VideoRows
    BY <1>1 DEF VideoRows
  <2>2. /\ [video[v] EXCEPT !.status = s].status = s
        /\ [video[v] EXCEPT !.status = s].variants = video[v].variants
    BY <1>1 DEF VideoRows
  <2>3. video' = [video EXCEPT ![v] = [video[v] EXCEPT !.status = s]]
    BY DEF SetStatus
  <2> QED
    BY <2>1, <2>2, <2>3
<1>3. ChangedVideo(v)
  BY <1>2 DEF ChangedVideo, VideoTypes
<1>4. \A w \in Videos : w # v => ChangedVideo(w)
  BY <1>2 DEF ChangedVideo, VideoTypes
<1> QED
  BY <1>2, <1>3, <1>4 DEF VideosStep, VideoTypes

\* A job of the queue that is tried again.
LEMMA TriedAgain ==
    ASSUME NEW job \in Jobs, job.kind \notin {"begin", "direct"}, job.attempt < Attempts
    PROVE  Early([job EXCEPT !.attempt = @ + 1, !.at = "waiting"])
<1> DEFINE next == [job EXCEPT !.attempt = @ + 1, !.at = "waiting"]
<1>1. CASE job.kind = "transcode"
  <2>1. /\ job \in TranscodeJobs
        /\ job.attempt \in 1..Attempts /\ Attempts \in Nat
    BY <1>1, JobShapes, VideoPipelineAssumption DEF TranscodeJobs
  <2>2. job.attempt + 1 \in 1..Attempts
    BY <2>1
  <2>3. next \in TranscodeJobs /\ next.at = "waiting"
    BY <2>1, <2>2 DEF TranscodeJobs
  <2> QED
    BY <2>3 DEF Early, Jobs
<1>2. CASE job.kind \in {"process", "request"}
  <2>1. job \in ProcessJobs /\ Attempts \in Nat
    BY <1>2, JobShapes, VideoPipelineAssumption
  <2>2. job \in [kind : {"process"}, video : Videos, attempt : 1..Attempts,
                 at : {"waiting", "mark", "spawn"}, qualities : {Qualities}]
    BY <2>1 DEF ProcessJobs
  <2>3. job.attempt + 1 \in 1..Attempts
    BY <2>1, <2>2
  <2>4. next \in [kind : {"process"}, video : Videos, attempt : 1..Attempts,
                  at : {"waiting", "mark", "spawn"}, qualities : {Qualities}]
    BY <2>2, <2>3
  <2>5. next \in Jobs /\ next.kind = "process"
    BY <2>4 DEF Jobs, ProcessJobs
  <2> QED
    BY <2>5 DEF Early, Transcodes
<1> QED
  BY <1>1, <1>2, JobShapes

\* A status that shows nothing.
LEMMA Hidden ==
    ASSUME VideoTypes, NEW v \in Videos, Stored(v),
           NEW s \in {"UPLOADED", "PROCESSING", "FAILED"}, SetStatus(v, s)
    PROVE  VideosStep
  BY Marked

\* A failure leaves jobs that have to begin again, or are told to keep quiet.
LEMMA FailedJob ==
    ASSUME VideoTypes, NEW job \in BagToSet(jobs), job.kind # "begin", Fail(job)
    PROVE  VideosStep /\ JobsStep
<1>1. job \in Jobs /\ job.video \in Videos
  BY JobShapes DEF VideoTypes
<1>2. CASE job.kind = "direct"
  <2> DEFINE quiet == [j \in BagToSet(Take(job)) |->
                        IF j.kind = "direct" /\ j.batch = job.batch /\ j.video = job.video
                        THEN [j EXCEPT !.quiet = TRUE] ELSE j]
  <2>1. DOMAIN jobs' = {quiet[i] : i \in DOMAIN quiet}
    BY <1>2 DEF Fail
  <2>2. \A i \in DOMAIN quiet : i \in BagToSet(jobs) /\ i \in Jobs
    BY Taken DEF BagToSet, VideoTypes
  <2>3. \A i \in DOMAIN quiet : quiet[i] = i \/ Alike(i, quiet[i])
    <3> SUFFICES ASSUME NEW i \in DOMAIN quiet, i.kind = "direct"
                 PROVE  Alike(i, [i EXCEPT !.quiet = TRUE])
      OBVIOUS
    <3>1. i \in [kind : {"direct"}, video : Videos, quality : Qualities,
                 quiet : BOOLEAN, batch : Nat,
                 at : {"run", "stored", "check", "READY", "PENDING_REVIEW"}]
      BY <2>2, JobShapes
    <3> HIDE DEF quiet
    <3> QED
      BY <3>1 DEF Alike, Jobs, DirectJobs, Transcodes
  <2>4. JobsStep
    <3> HIDE DEF quiet
    <3> QED
      BY <2>1, <2>2, <2>3 DEF JobsStep, BagToSet
  <2>5. VideosStep
    BY <1>1, <1>2, SameRows, Hidden DEF Fail
  <2> QED
    BY <2>4, <2>5
<1>3. CASE job.kind # "direct" /\ job.attempt < Attempts
  <2>1. Early([job EXCEPT !.attempt = @ + 1, !.at = "waiting"])
    BY <1>1, <1>3, TriedAgain
  <2>2. Become(job, [job EXCEPT !.attempt = @ + 1, !.at = "waiting"]) /\ video' = video
    BY <1>3 DEF Fail
  <2> QED
    BY <2>1, <2>2, JobMoved, SameRows
<1>4. CASE job.kind # "direct" /\ ~(job.attempt < Attempts)
  BY <1>1, <1>4, JobEnded, Hidden, SameRows DEF Fail
<1> QED
  BY <1>2, <1>3, <1>4

-----------------------------------------------------------------------------
(* One lemma for every operation *)

LEMMA StageMoved ==
    ASSUME NEW job \in Jobs, Transcodes(job),
           NEW a \in {"run", "stored", "check", "READY", "PENDING_REVIEW"}
    PROVE  \E next \in Jobs :
             /\ next = [job EXCEPT !.at = a]
             /\ next.at = a /\ next.kind = job.kind
             /\ next.video = job.video /\ next.quality = job.quality
<1> DEFINE next == [job EXCEPT !.at = a]
           Result == /\ next \in Jobs
                     /\ next.at = a /\ next.kind = job.kind
                     /\ next.video = job.video /\ next.quality = job.quality
<1>1. CASE job.kind = "transcode"
  <2>1. job \in TranscodeJobs
    BY <1>1, JobShapes
  <2>2. Result
    BY <2>1 DEF TranscodeJobs, Jobs
  <2> QED
    BY <2>2
<1>2. CASE job.kind = "direct"
  <2>1. job \in [kind : {"direct"}, video : Videos, quality : Qualities,
                 quiet : BOOLEAN, batch : Nat,
                 at : {"run", "stored", "check", "READY", "PENDING_REVIEW"}]
    BY <1>2, JobShapes
  <2>2. Result
    BY <2>1 DEF DirectJobs, Jobs
  <2> QED
    BY <2>2
<1> QED
  BY <1>1, <1>2 DEF Transcodes

LEMMA ProcessMoved ==
    ASSUME NEW job \in Jobs, job.kind \in {"process", "request"}, NEW a \in {"mark", "spawn"}
    PROVE  Early([job EXCEPT !.at = a])
<1>1. CASE job.kind = "process"
  <2>1. job \in [kind : {"process"}, video : Videos, attempt : 1..Attempts,
                 at : {"waiting", "mark", "spawn"}, qualities : {Qualities}]
    BY <1>1, JobShapes DEF ProcessJobs
  <2> QED
    BY <2>1 DEF Early, Jobs, ProcessJobs, Transcodes
<1>2. CASE job.kind = "request"
  <2>1. job \in [kind : {"request"}, video : Videos, attempt : {Attempts},
                 at : {"mark", "spawn"}, qualities : SUBSET Qualities]
    BY <1>2, JobShapes DEF ProcessJobs
  <2> QED
    BY <2>1 DEF Early, Jobs, ProcessJobs, Transcodes
<1> QED
  BY <1>1, <1>2

LEMMA WaitingAgain ==
    ASSUME NEW job \in Jobs, job.kind \in {"process", "transcode"}
    PROVE  Early([job EXCEPT !.at = "waiting"])
<1>1. CASE job.kind = "process"
  <2>1. job \in [kind : {"process"}, video : Videos, attempt : 1..Attempts,
                 at : {"waiting", "mark", "spawn"}, qualities : {Qualities}]
    BY <1>1, JobShapes DEF ProcessJobs
  <2> QED
    BY <2>1 DEF Early, Jobs, ProcessJobs, Transcodes
<1>2. CASE job.kind = "transcode"
  <2>1. job \in TranscodeJobs
    BY <1>2, JobShapes
  <2> QED
    BY <2>1 DEF Early, Jobs, TranscodeJobs
<1> QED
  BY <1>1, <1>2

\* The jobs that are started.
LEMMA StartedJobs ==
    ASSUME NEW v \in Videos, NEW n \in Nat, NEW a \in {1, Attempts}
    PROVE  /\ Early([kind |-> "process", video |-> v, attempt |-> a, at |-> "waiting",
                     qualities |-> Qualities])
           /\ \A qs \in SUBSET Qualities :
                Early([kind |-> "request", video |-> v, attempt |-> Attempts, at |-> "mark",
                       qualities |-> qs])
           /\ Early([kind |-> "begin", video |-> v, batch |-> n])
           /\ \A q \in Qualities :
                /\ Early([kind |-> "transcode", video |-> v, quality |-> q, attempt |-> 1,
                          at |-> "waiting"])
                /\ Early([kind |-> "direct", video |-> v, quality |-> q, quiet |-> FALSE,
                          batch |-> n, at |-> "run"])
<1>1. a \in 1..Attempts /\ 1 \in 1..Attempts
  BY VideoPipelineAssumption
<1>2. Early([kind |-> "process", video |-> v, attempt |-> a, at |-> "waiting",
             qualities |-> Qualities])
  BY <1>1 DEF Early, Jobs, ProcessJobs, Transcodes
<1>3. \A qs \in SUBSET Qualities :
        Early([kind |-> "request", video |-> v, attempt |-> Attempts, at |-> "mark",
               qualities |-> qs])
  BY DEF Early, Jobs, ProcessJobs, Transcodes
<1>4. Early([kind |-> "begin", video |-> v, batch |-> n])
  BY DEF Early, Jobs, DirectJobs, Transcodes
<1>5. \A q \in Qualities :
        Early([kind |-> "transcode", video |-> v, quality |-> q, attempt |-> 1,
               at |-> "waiting"])
  BY <1>1 DEF Early, Jobs, TranscodeJobs, Transcodes
<1>6. \A q \in Qualities :
        Early([kind |-> "direct", video |-> v, quality |-> q, quiet |-> FALSE,
               batch |-> n, at |-> "run"])
  BY DEF Early, Jobs, DirectJobs, Transcodes
<1> QED
  BY <1>2, <1>3, <1>4, <1>5, <1>6

LEMMA JobKnown ==
    ASSUME VideoInv, NEW job \in BagToSet(jobs)
    PROVE  job \in Jobs /\ job.video \in Videos /\ Justified(job)
  BY JobShapes DEF VideoInv, VideoTypes, JobsAreJustified

LEMMA ProcessVideoStep ==
    ASSUME VideoInv, NEW job \in BagToSet(jobs), ProcessVideo(job) PROVE VideoStep
<1> USE DEF VideoInv
<1>1. job \in Jobs /\ job.video \in Videos /\ job.kind \in {"process", "request"}
  BY JobKnown DEF ProcessVideo
<1>2. FilesStep /\ RecordStep /\ TasksStep
  BY SameFiles, SameRecord, SameTasks DEF ProcessVideo
<1>3. CASE Fail(job)
  BY <1>1, <1>2, <1>3, FailedJob DEF VideoStep
<1>4. CASE Become(job, [job EXCEPT !.at = "mark"]) /\ video' = video
  BY <1>1, <1>2, <1>4, ProcessMoved, JobMoved, SameRows DEF VideoStep
<1>5. CASE /\ Stored(job.video) /\ SetStatus(job.video, "PROCESSING")
           /\ Become(job, [job EXCEPT !.at = "spawn"])
  <2>1. VideosStep
    BY <1>1, <1>5, Hidden
  <2>2. JobsStep
    BY <1>1, <1>5, ProcessMoved, JobMoved
  <2> QED
    BY <1>2, <2>1, <2>2 DEF VideoStep
<1> QED
  BY <1>3, <1>4, <1>5 DEF ProcessVideo

LEMMA QueueTranscodingStep ==
    ASSUME VideoInv, NEW job \in BagToSet(jobs), QueueTranscoding(job) PROVE VideoStep
<1> USE DEF VideoInv
<1>1. job \in Jobs /\ job.video \in Videos /\ job.kind \in {"process", "request"}
  BY JobKnown DEF QueueTranscoding
<1>2. job.qualities \subseteq Qualities
  BY <1>1, JobShapes DEF ProcessJobs
<1>3. FilesStep /\ RecordStep /\ TasksStep /\ VideosStep
  BY SameFiles, SameRecord, SameTasks, SameRows DEF QueueTranscoding
<1>4. JobsStep
  <2> DEFINE s == {[kind |-> "transcode", video |-> job.video, quality |-> q,
                    attempt |-> 1, at |-> "waiting"] : q \in job.qualities}
  <2>1. \A j \in s : Early(j)
    BY <1>1, <1>2, StartedJobs
  <2>2. jobs' = Take(job) (+) SetToBag(s)
    BY DEF QueueTranscoding
  <2> HIDE DEF s
  <2> QED
    BY <2>1, <2>2, JobSplit
<1> QED
  BY <1>3, <1>4 DEF VideoStep

LEMMA ProcessVideoDirectlyStep ==
    ASSUME VideoInv, NEW job \in BagToSet(jobs), ProcessVideoDirectly(job) PROVE VideoStep
<1> USE DEF VideoInv
<1>1. job \in Jobs /\ job.video \in Videos /\ job.kind = "begin"
  BY JobKnown DEF ProcessVideoDirectly
<1>2. FilesStep /\ RecordStep /\ TasksStep
  BY SameFiles, SameRecord, SameTasks DEF ProcessVideoDirectly
<1>3. CASE Stored(job.video)
  <2> DEFINE s == {[kind |-> "direct", video |-> job.video, quality |-> q,
                    quiet |-> FALSE, batch |-> job.batch, at |-> "run"] : q \in Qualities}
  <2>1. job.batch \in Nat
    BY <1>1 DEF Jobs, ProcessJobs, TranscodeJobs, DirectJobs
  <2>2. \A j \in s : Early(j)
    BY <1>1, <2>1, StartedJobs
  <2>3. jobs' = Take(job) (+) SetToBag(s) /\ SetStatus(job.video, "PROCESSING")
    BY <1>3 DEF ProcessVideoDirectly
  <2> HIDE DEF s
  <2> QED
    BY <1>1, <1>2, <1>3, <2>2, <2>3, JobSplit, Hidden DEF VideoStep
<1>4. CASE Finish(job) /\ video' = video
  BY <1>2, <1>4, JobEnded, SameRows DEF VideoStep
<1> QED
  BY <1>3, <1>4 DEF ProcessVideoDirectly

LEMMA TranscodeVideoStep ==
    ASSUME VideoInv, NEW job \in BagToSet(jobs), TranscodeVideo(job) PROVE VideoStep
<1> USE DEF VideoInv
<1>1. /\ job \in Jobs /\ job.video \in Videos /\ Transcodes(job)
      /\ job.quality \in Qualities
  BY JobKnown, JobShapes DEF TranscodeVideo
<1>2. RecordStep /\ TasksStep /\ VideosStep
  BY SameRecord, SameTasks, SameRows DEF TranscodeVideo
<1>3. CASE Become(job, [job EXCEPT !.at = "run"]) /\ files' = files
  <2>1. Early([job EXCEPT !.at = "run"])
    BY <1>1, StageMoved DEF Early
  <2> QED
    BY <1>2, <1>3, <2>1, JobMoved, SameFiles DEF VideoStep
<1>4. CASE /\ Become(job, [job EXCEPT !.at = "stored"])
           /\ files' = [files EXCEPT ![job.video] = @ \cup {job.quality}]
  <2>1. PICK next \in Jobs :
          /\ next = [job EXCEPT !.at = "stored"]
          /\ next.at = "stored"
          /\ next.video = job.video /\ next.quality = job.quality
    BY <1>1, StageMoved
  <2>2. FilesStep /\ job.quality \in files'[job.video]
    BY <1>1, <1>4 DEF FilesStep, VideoTypes
  <2>3. (Justified(next))'
    BY <2>1, <2>2 DEF Justified, Uploaded
  <2>4. JobsStep
    BY <1>4, <2>1, <2>3, JobMoved
  <2> QED
    BY <1>2, <2>2, <2>4 DEF VideoStep
<1> QED
  BY <1>3, <1>4 DEF TranscodeVideo

LEMMA CreateVariantStep ==
    ASSUME VideoInv, NEW job \in BagToSet(jobs), CreateVariant(job) PROVE VideoStep
<1> USE DEF VideoInv
<1>1. /\ job \in Jobs /\ job.video \in Videos /\ Transcodes(job)
      /\ job.quality \in Qualities /\ Uploaded(job.video, job.quality)
  BY JobKnown, JobShapes DEF CreateVariant, Justified
<1>2. FilesStep /\ RecordStep /\ TasksStep
  BY SameFiles, SameRecord, SameTasks DEF CreateVariant
<1>3. CASE /\ Stored(job.video)
           /\ video' = [video EXCEPT ![job.video].variants = @ \cup {job.quality}]
           /\ Become(job, [job EXCEPT !.at = "check"])
  <2>1. PICK next \in Jobs :
          /\ next = [job EXCEPT !.at = "check"]
          /\ next.at = "check"
          /\ next.video = job.video /\ next.quality = job.quality
    BY <1>1, StageMoved
  <2>2. (Justified(next))'
    BY <1>1, <1>2, <2>1, UploadedStays DEF Justified
  <2>3. JobsStep
    BY <1>3, <2>1, <2>2, JobMoved
  <2>4. video[job.video] \in VideoRows
    BY <1>1, <1>3, Rows
  <2>5. PICK row \in VideoRows :
          /\ row = [video[job.video] EXCEPT !.variants = @ \cup {job.quality}]
          /\ row.status = video[job.video].status
          /\ row.variants = video[job.video].variants \cup {job.quality}
    <3> DEFINE row == [video[job.video] EXCEPT !.variants = @ \cup {job.quality}]
    <3>1. row \in VideoRows
      BY <1>1, <2>4 DEF VideoRows
    <3>2. /\ row.status = video[job.video].status
          /\ row.variants = video[job.video].variants \cup {job.quality}
      BY <2>4 DEF VideoRows
    <3> QED
      BY <3>1, <3>2
  <2>6. video' = [video EXCEPT ![job.video] = row]
    BY <1>3, <2>5
  <2>7. ChangedVideo(job.video)
    BY <1>1, <1>3, <2>5, <2>6 DEF ChangedVideo, VideoTypes
  <2>8. VideosStep
    BY <2>6, <2>7 DEF VideosStep, ChangedVideo, VideoTypes
  <2> QED
    BY <1>2, <2>3, <2>8 DEF VideoStep
<1>4. CASE Fail(job)
  BY <1>1, <1>2, <1>4, FailedJob DEF VideoStep, Transcodes
<1> QED
  BY <1>3, <1>4 DEF CreateVariant

LEMMA CheckAndFinalizeVideoStep ==
    ASSUME VideoInv, NEW job \in BagToSet(jobs), CheckAndFinalizeVideo(job) PROVE VideoStep
<1> USE DEF VideoInv
<1>1. /\ job \in Jobs /\ job.video \in Videos /\ Transcodes(job)
      /\ Uploaded(job.video, job.quality)
  BY JobKnown DEF CheckAndFinalizeVideo, Justified
<1>2. FilesStep /\ TasksStep /\ VideosStep
  BY SameFiles, SameTasks, SameRows DEF CheckAndFinalizeVideo
<1>3. RecordStep
  BY <1>1 DEF CheckAndFinalizeVideo, RecordStep, VideoTypes
<1>4. CASE Stored(job.video) /\ Complete(job.video) /\ Become(job, [job EXCEPT !.at = Outcome])
  <2>1. PICK a \in {"READY", "PENDING_REVIEW"} : a = Outcome
    BY DEF Outcome
  <2>2. PICK next \in Jobs :
          /\ next = [job EXCEPT !.at = a]
          /\ next.at = a
          /\ next.video = job.video /\ next.quality = job.quality
    BY <1>1, StageMoved
  <2>3. (Whole(job.video))'
    BY <1>1, <1>2, <1>3, <1>4, WholeStays DEF Whole
  <2>4. a = "READY" => job.video \in reviewed'
    BY <2>1 DEF Outcome, CheckAndFinalizeVideo
  <2>5. (Uploaded(job.video, job.quality))'
    BY <1>1, <1>2, <1>3, UploadedStays
  <2>6. (Justified(next))'
    BY <2>2, <2>3, <2>4, <2>5 DEF Justified
  <2> QED
    BY <1>2, <1>3, <1>4, <2>1, <2>2, <2>6, JobMoved DEF VideoStep
<1>5. CASE Finish(job)
  BY <1>2, <1>3, <1>5, JobEnded DEF VideoStep
<1> QED
  BY <1>4, <1>5 DEF CheckAndFinalizeVideo

LEMMA FinalizeVideoStep ==
    ASSUME VideoInv, NEW job \in BagToSet(jobs), FinalizeVideo(job) PROVE VideoStep
<1> USE DEF VideoInv
<1>1. /\ job \in Jobs /\ job.video \in Videos /\ Transcodes(job)
      /\ Whole(job.video) /\ (job.at = "READY" => job.video \in reviewed)
  BY JobKnown DEF FinalizeVideo, Justified
<1>2. FilesStep /\ RecordStep /\ TasksStep
  BY SameFiles, SameRecord, SameTasks DEF FinalizeVideo
<1>3. CASE Stored(job.video) /\ SetStatus(job.video, job.at) /\ Finish(job)
  <2>1. PICK s \in {"PENDING_REVIEW", "READY"} : s = job.at
    BY DEF FinalizeVideo
  <2>2. s = "READY" => job.video \in reviewed'
    BY <1>1, <1>2, <2>1 DEF RecordStep
  <2>3. SetStatus(job.video, s)
    BY <1>3, <2>1
  <2>4. VideosStep
    BY <1>1, <1>3, <2>2, <2>3, Marked DEF Reviewable
  <2> QED
    BY <1>2, <1>3, <2>4, JobEnded DEF VideoStep
<1>4. CASE Fail(job)
  BY <1>1, <1>2, <1>4, FailedJob DEF VideoStep, Transcodes
<1> QED
  BY <1>3, <1>4 DEF FinalizeVideo

LEMMA TranscodeFailsStep ==
    ASSUME VideoInv, NEW job \in BagToSet(jobs), TranscodeFails(job) PROVE VideoStep
<1> USE DEF VideoInv
<1>1. FilesStep /\ RecordStep /\ TasksStep
  BY SameFiles, SameRecord, SameTasks DEF TranscodeFails
<1> QED
  BY <1>1, FailedJob DEF VideoStep, TranscodeFails, Transcodes

-----------------------------------------------------------------------------
(* Requests *)

LEMMA CreatedRow ==
    ASSUME VideoTypes, NEW v \in Videos, CreateVideo(v) PROVE VideosStep
<1>1. PICK row \in VideoRows :
        /\ video' = [video EXCEPT ![v] = row]
        /\ row.status = "UPLOADED" /\ row.variants = {}
  <2>1. [status |-> "UPLOADED", variants |-> {}] \in VideoRows
    BY DEF VideoRows
  <2> QED
    BY <2>1 DEF CreateVideo
<1>2. ChangedVideo(v)
  BY <1>1 DEF ChangedVideo, CreateVideo, VideoTypes
<1> QED
  BY <1>1, <1>2 DEF VideosStep, ChangedVideo, VideoTypes

\* What a request holds, once it has begun.
LEMMA Given ==
    ASSUME VideoInv, NEW x \in Tasks
    PROVE  tasks[x] \in VideoTasks /\ Decided(tasks[x])
  BY DEF VideoInv, VideoTypes, TasksAreJustified

LEMMA UploadSteps ==
    ASSUME VideoInv, NEW x \in Tasks, NEW v \in Videos,
           UploadVideo(x, v) \/ CompleteUpload(x, v) \/ RetryFailedVideo(x, v)
    PROVE  VideoStep
<1> USE DEF VideoInv
<1>1. FilesStep /\ RecordStep /\ JobsStep
  BY SameFiles, SameRecord, SameJobs DEF UploadVideo, CompleteUpload, RetryFailedVideo
<1>2. VideosStep
  BY CreatedRow, SameRows DEF UploadVideo, CompleteUpload, RetryFailedVideo
<1>3. \A a \in {"enqueue", "retry"} : Task(x, [at |-> a, video |-> v]) => TasksStep
  <2> SUFFICES ASSUME NEW a \in {"enqueue", "retry"}, Task(x, [at |-> a, video |-> v])
               PROVE  TasksStep
    OBVIOUS
  <2>1. [at |-> a, video |-> v] \in VideoTasks
    BY DEF VideoTasks
  <2> QED
    BY <2>1, TaskBegun
<1>4. Task(x, [at |-> "play", video |-> v]) /\ mode = "play" => TasksStep
  <2> SUFFICES ASSUME Task(x, [at |-> "play", video |-> v]), mode = "play"
               PROVE  TasksStep
    OBVIOUS
  <2>1. [at |-> "play", video |-> v] \in VideoTasks
    BY DEF VideoTasks
  <2>2. (Decided([at |-> "play", video |-> v]))'
    BY <1>1 DEF Decided, RecordStep
  <2> QED
    BY <2>1, <2>2, TaskGiven
<1>5. \/ Task(x, [at |-> "enqueue", video |-> v])
      \/ Task(x, [at |-> "retry", video |-> v])
      \/ Task(x, [at |-> "play", video |-> v]) /\ mode = "play"
  BY DEF UploadVideo, CompleteUpload, RetryFailedVideo
<1> QED
  BY <1>1, <1>2, <1>3, <1>4, <1>5 DEF VideoStep

LEMMA DirectPlayStep ==
    ASSUME VideoInv, NEW x \in Tasks, DirectPlay(x) PROVE VideoStep
<1> USE DEF VideoInv
<1>1. tasks[x].video \in Videos /\ mode = "play"
  BY Given, TaskShapes DEF DirectPlay, Is, Decided
<1>2. FilesStep /\ RecordStep /\ JobsStep /\ TasksStep
  BY SameFiles, SameRecord, SameJobs, TaskEnded DEF DirectPlay
<1>3. VideosStep
  BY <1>1, Marked, SameRows DEF DirectPlay, Reviewable
<1> QED
  BY <1>2, <1>3 DEF VideoStep

LEMMA EnqueueSteps ==
    ASSUME VideoInv, NEW x \in Tasks, Enqueue(x) \/ Requeue(x) PROVE VideoStep
<1> USE DEF VideoInv
<1> DEFINE v == tasks[x].video
<1>1. v \in Videos /\ retries \in Nat
  BY Given, TaskShapes DEF Enqueue, Requeue, Is, VideoTypes
<1>2. FilesStep /\ RecordStep /\ VideosStep /\ TasksStep
  BY SameFiles, SameRecord, SameRows, TaskEnded DEF Enqueue, Requeue
<1>3. PICK a \in {1, Attempts} :
        \/ Add({[kind |-> "process", video |-> v, attempt |-> a, at |-> "waiting",
                 qualities |-> Qualities]})
        \/ Add({[kind |-> "begin", video |-> v, batch |-> retries]})
        \/ jobs' = jobs
  BY DEF Enqueue, Requeue
<1>4. JobsStep
  <2>1. /\ Early([kind |-> "process", video |-> v, attempt |-> a, at |-> "waiting",
                  qualities |-> Qualities])
        /\ Early([kind |-> "begin", video |-> v, batch |-> retries])
    BY <1>1, StartedJobs
  <2> HIDE DEF v
  <2> QED
    BY <1>3, <2>1, JobsAdded, SameJobs
<1> QED
  BY <1>2, <1>4 DEF VideoStep

LEMMA StoreRetryStep ==
    ASSUME VideoInv, NEW x \in Tasks, StoreRetry(x) PROVE VideoStep
<1> USE DEF VideoInv
<1>1. tasks[x].video \in Videos
  BY Given, TaskShapes DEF StoreRetry, Is
<1>2. FilesStep /\ RecordStep /\ JobsStep
  BY SameFiles, SameRecord, SameJobs DEF StoreRetry
<1>3. VideosStep
  BY <1>1, Hidden, SameRows DEF StoreRetry
<1>4. TasksStep
  <2>1. [at |-> "requeue", video |-> tasks[x].video] \in VideoTasks
    BY <1>1 DEF VideoTasks
  <2> QED
    BY <2>1, TaskBegun, TaskEnded DEF StoreRetry
<1> QED
  BY <1>2, <1>3, <1>4 DEF VideoStep

LEMMA InitiateSteps ==
    ASSUME VideoInv, NEW v \in Videos,
           \/ InitiateUpload(v)
           \/ \E qualities \in SUBSET Qualities : InitiateProcessing(v, qualities)
    PROVE  VideoStep
<1> USE DEF VideoInv
<1>1. FilesStep /\ RecordStep /\ TasksStep
  BY SameFiles, SameRecord, SameTasks DEF InitiateUpload, InitiateProcessing
<1>2. VideosStep
  BY CreatedRow, SameRows DEF InitiateUpload, InitiateProcessing
<1>3. JobsStep
  BY StartedJobs, JobsAdded, SameJobs DEF InitiateUpload, InitiateProcessing
<1> QED
  BY <1>1, <1>2, <1>3 DEF VideoStep

LEMMA CleanupStep == ASSUME VideoInv, CleanupStalledVideos PROVE VideoStep
<1> USE DEF VideoInv
<1>1. FilesStep /\ RecordStep /\ JobsStep /\ TasksStep
  BY SameFiles, SameRecord, SameJobs, SameTasks DEF CleanupStalledVideos
<1>2. \A v \in Videos : ChangedVideo(v)
  <2> SUFFICES ASSUME NEW v \in Videos, Stalled(v) PROVE ChangedVideo(v)
    BY DEF CleanupStalledVideos, ChangedVideo
  <2>1. Stored(v) /\ video[v] \in VideoRows
    BY Rows DEF Stalled
  <2>2. video'[v] = [video[v] EXCEPT !.status = "FAILED"]
    BY DEF CleanupStalledVideos
  <2>3. /\ video'[v] \in VideoRows /\ video'[v].status = "FAILED"
        /\ video'[v].variants = video[v].variants
    BY <2>1, <2>2 DEF VideoRows
  <2> QED
    BY <2>1, <2>3 DEF ChangedVideo
<1> QED
  BY <1>1, <1>2 DEF VideoStep, VideosStep, CleanupStalledVideos

\* A video that waits for review has everything.
LEMMA PendingIsReviewable ==
    ASSUME VideoInv, NEW v \in Videos, Stored(v), Status(v) = "PENDING_REVIEW"
    PROVE  Reviewable(v)
  BY DEF VideoInv, ShownIsComplete, Reviewable, Whole, Complete

LEMMA ApproveVideoStep ==
    ASSUME VideoInv, NEW x \in Tasks, NEW v \in Videos, ApproveVideo(x, v)
    PROVE  VideoStep
<1> USE DEF VideoInv
<1>1. FilesStep /\ RecordStep /\ JobsStep /\ VideosStep
  BY SameFiles, SameRecord, SameJobs, SameRows DEF ApproveVideo
<1>2. (Reviewable(v))'
  BY <1>1, PendingIsReviewable, ReviewableStays DEF ApproveVideo
<1>3. [at |-> "approve", video |-> v] \in VideoTasks
  BY DEF VideoTasks
<1>4. (Decided([at |-> "approve", video |-> v]))'
  BY <1>2 DEF Decided
<1>5. TasksStep
  BY <1>3, <1>4, TaskGiven DEF ApproveVideo
<1> QED
  BY <1>1, <1>5 DEF VideoStep

LEMMA StoreApprovalStep ==
    ASSUME VideoInv, NEW x \in Tasks, StoreApproval(x) PROVE VideoStep
<1> USE DEF VideoInv
<1>1. tasks[x].video \in Videos /\ Reviewable(tasks[x].video)
  BY Given, TaskShapes DEF StoreApproval, Is, Decided
<1>2. FilesStep /\ JobsStep /\ TasksStep
  BY SameFiles, SameJobs, TaskEnded DEF StoreApproval
<1>3. RecordStep
  BY <1>1 DEF StoreApproval, RecordStep, VideoTypes
<1>4. VideosStep
  BY <1>1, Marked, SameRows DEF StoreApproval
<1> QED
  BY <1>2, <1>3, <1>4 DEF VideoStep

LEMMA CourseSteps ==
    ASSUME VideoInv,
           WithdrawTheCourse \/ \E x \in Tasks : PublishTheCourse(x)
    PROVE  VideoStep
<1> USE DEF VideoInv
<1>1. FilesStep /\ RecordStep /\ JobsStep /\ VideosStep
  BY SameFiles, SameRecord, SameJobs, SameRows DEF WithdrawTheCourse, PublishTheCourse
<1>2. [at |-> "pending"] \in VideoTasks
  BY DEF VideoTasks
<1>3. TasksStep
  BY <1>2, SameTasks, TaskBegun DEF WithdrawTheCourse, PublishTheCourse
<1> QED
  BY <1>1, <1>3 DEF VideoStep

LEMMA FindPendingStep ==
    ASSUME VideoInv, NEW x \in Tasks, FindPending(x) PROVE VideoStep
<1> USE DEF VideoInv
<1>1. FilesStep /\ RecordStep /\ JobsStep /\ VideosStep
  BY SameFiles, SameRecord, SameJobs, SameRows DEF FindPending
<1>2. PICK found \in SUBSET Videos :
        /\ Task(x, [at |-> "approveAll", left |-> found])
        /\ \A v \in found : Stored(v) /\ Status(v) = "PENDING_REVIEW"
  BY DEF FindPending
<1>3. \A v \in found : (Reviewable(v))'
  BY <1>1, <1>2, PendingIsReviewable, ReviewableStays
<1>4. [at |-> "approveAll", left |-> found] \in VideoTasks
  BY DEF VideoTasks
<1>5. (Decided([at |-> "approveAll", left |-> found]))'
  BY <1>3 DEF Decided
<1>6. TasksStep
  BY <1>2, <1>4, <1>5, TaskGiven
<1> QED
  BY <1>1, <1>6 DEF VideoStep

LEMMA ApproveFoundStep ==
    ASSUME VideoInv, NEW x \in Tasks, ApproveFound(x) PROVE VideoStep
<1> USE DEF VideoInv
<1>1. tasks[x].left \subseteq Videos /\ \A v \in tasks[x].left : Reviewable(v)
  BY Given, TaskShapes DEF ApproveFound, Is, Decided
<1>2. FilesStep /\ JobsStep
  BY SameFiles, SameJobs DEF ApproveFound
<1>3. RecordStep
  BY <1>1 DEF ApproveFound, RecordStep, VideoTypes
<1>4. VideosStep
  BY <1>1, Marked, SameRows DEF ApproveFound
<1>5. TasksStep
  <2>1. CASE Done(x)
    BY <2>1, TaskEnded
  <2>2. CASE \E v \in tasks[x].left :
               Task(x, [at |-> "approveAll", left |-> tasks[x].left \ {v}])
    <3>1. PICK rest \in SUBSET tasks[x].left :
            Task(x, [at |-> "approveAll", left |-> rest])
      BY <2>2
    <3>2. [at |-> "approveAll", left |-> rest] \in VideoTasks
      BY <1>1 DEF VideoTasks
    <3>3. \A v \in rest : (Reviewable(v))'
      BY <1>1, <1>3, <1>4, ReviewableStays
    <3>4. (Decided([at |-> "approveAll", left |-> rest]))'
      BY <3>3 DEF Decided
    <3> QED
      BY <3>1, <3>2, <3>4, TaskGiven
  <2> QED
    BY <2>1, <2>2 DEF ApproveFound
<1> QED
  BY <1>2, <1>3, <1>4, <1>5 DEF VideoStep

LEMMA DeleteVideoStep ==
    ASSUME VideoInv, NEW x \in Tasks, NEW v \in Videos, DeleteVideo(x, v)
    PROVE  VideoStep
<1> USE DEF VideoInv
<1>1. FilesStep /\ RecordStep /\ JobsStep /\ VideosStep
  BY SameFiles, SameRecord, SameJobs, SameRows DEF DeleteVideo
<1>2. [at |-> "delete", video |-> v, keys |-> video[v].variants] \in VideoTasks
  BY Rows DEF VideoTasks, DeleteVideo
<1>3. TasksStep
  BY <1>2, TaskBegun DEF DeleteVideo
<1> QED
  BY <1>1, <1>3 DEF VideoStep

LEMMA DeleteObjectsStep ==
    ASSUME VideoInv, NEW x \in Tasks, DeleteObjects(x) PROVE VideoStep
<1> USE DEF VideoInv
<1>1. PICK v \in Videos : v = tasks[x].video
  BY Given, TaskShapes DEF DeleteObjects, Is
<1>2. JobsStep /\ VideosStep
  BY SameJobs, SameRows DEF DeleteObjects
<1>3. halved' = halved \cup {v} /\ files' = [files EXCEPT ![v] = @ \ tasks[x].keys]
  BY <1>1 DEF DeleteObjects
<1>4. RecordStep /\ FilesStep
  BY <1>3 DEF RecordStep, FilesStep, VideoTypes, DeleteObjects
<1>5. [at |-> "erase", video |-> v] \in VideoTasks
  BY DEF VideoTasks
<1>6. (Decided([at |-> "erase", video |-> v]))'
  BY <1>3 DEF Decided
<1>7. TasksStep
  BY <1>1, <1>5, <1>6, TaskGiven DEF DeleteObjects
<1> QED
  BY <1>2, <1>4, <1>7 DEF VideoStep

LEMMA DeleteRecordStep ==
    ASSUME VideoInv, NEW x \in Tasks, DeleteRecord(x) PROVE VideoStep
<1> USE DEF VideoInv
<1>1. PICK v \in Videos : v = tasks[x].video /\ v \in halved
  BY Given, TaskShapes DEF DeleteRecord, Is, Decided
<1>2. FilesStep /\ RecordStep /\ JobsStep /\ TasksStep
  BY SameFiles, SameRecord, SameJobs, TaskEnded DEF DeleteRecord
<1>3. video' = [video EXCEPT ![v] = NoVideo]
  BY <1>1 DEF DeleteRecord
<1>4. VideosStep
  BY <1>1, <1>3 DEF VideosStep, ChangedVideo, Stored, VideoTypes
<1> QED
  BY <1>2, <1>4 DEF VideoStep

LEMMA CrashStep == ASSUME VideoInv, CrashPipeline PROVE VideoStep
<1> USE DEF VideoInv
<1>1. FilesStep /\ RecordStep /\ VideosStep
  BY SameFiles, SameRecord, SameRows DEF CrashPipeline
<1>2. TasksStep
  <2>1. NoTask \in VideoTasks /\ (Decided(NoTask))'
    BY DEF NoTask, VideoTasks, Decided
  <2>2. tasks' = [x \in Tasks |-> NoTask]
    BY DEF CrashPipeline
  <2> QED
    BY <2>1, <2>2 DEF TasksStep
<1>3. JobsStep
  <2> DEFINE queued == {j \in BagToSet(jobs) : j.kind \in {"process", "transcode"}}
             waits == [j \in queued |-> [j EXCEPT !.at = "waiting"]]
  <2>1. DOMAIN jobs' = {waits[j] : j \in queued}
    BY DEF CrashPipeline
  <2>2. \A j \in queued : Early(waits[j])
    BY WaitingAgain DEF VideoTypes
  <2> HIDE DEF queued, waits
  <2> QED
    BY <2>1, <2>2 DEF JobsStep, BagToSet
<1> QED
  BY <1>1, <1>2, <1>3 DEF VideoStep

-----------------------------------------------------------------------------
(* The theorems *)

LEMMA VideoInitially == VideoInit => VideoInv
<1> SUFFICES ASSUME VideoInit PROVE VideoInv
  OBVIOUS
<1>1. VideoTypes
  BY DEF VideoInit, VideoTypes, EmptyBag, SetToBag, BagToSet, VideoTasks, NoTask
<1>2. JobsAreJustified
  BY DEF VideoInit, JobsAreJustified, EmptyBag, SetToBag, BagToSet
<1>3. TasksAreJustified
  BY DEF VideoInit, TasksAreJustified, Decided, NoTask
<1>4. \A v \in Videos : ~Stored(v)
  BY DEF VideoInit, Stored
<1> QED
  BY <1>1, <1>2, <1>3, <1>4
     DEF VideoInv, ShownIsComplete, VariantsHaveFiles, ReadyIsReviewed

LEMMA VideoKeeps == VideoInv /\ [VideoNext]_videoVars => VideoInv'
<1> SUFFICES ASSUME VideoInv, [VideoNext]_videoVars PROVE VideoInv'
  OBVIOUS
<1>1. CASE UNCHANGED videoVars
  <2>1. VideoStep
    BY <1>1, SameRows, SameFiles, SameJobs, SameTasks, SameRecord
       DEF videoVars, VideoInv, VideoStep
  <2> QED
    BY <2>1, StepKeeps
<1>2. CASE \E job \in BagToSet(jobs) : Work(job)
  BY <1>2, StepKeeps, ProcessVideoStep, QueueTranscodingStep, ProcessVideoDirectlyStep,
     TranscodeVideoStep, CreateVariantStep, CheckAndFinalizeVideoStep, FinalizeVideoStep,
     TranscodeFailsStep DEF Work
<1>3. CASE \E x \in Tasks, v \in Videos :
             \/ UploadVideo(x, v) \/ CompleteUpload(x, v) \/ RetryFailedVideo(x, v)
             \/ ApproveVideo(x, v) \/ DeleteVideo(x, v)
  BY <1>3, StepKeeps, UploadSteps, ApproveVideoStep, DeleteVideoStep
<1>4. CASE \E x \in Tasks :
             \/ DirectPlay(x) \/ Enqueue(x) \/ StoreRetry(x) \/ Requeue(x)
             \/ StoreApproval(x) \/ PublishTheCourse(x) \/ FindPending(x)
             \/ ApproveFound(x) \/ DeleteObjects(x) \/ DeleteRecord(x)
  BY <1>4, StepKeeps, DirectPlayStep, EnqueueSteps, StoreRetryStep, StoreApprovalStep,
     CourseSteps, FindPendingStep, ApproveFoundStep, DeleteObjectsStep, DeleteRecordStep
<1>5. CASE \/ \E v \in Videos, qualities \in SUBSET Qualities :
                  InitiateProcessing(v, qualities)
           \/ \E v \in Videos : InitiateUpload(v)
  BY <1>5, StepKeeps, InitiateSteps
<1>6. CASE CleanupStalledVideos \/ WithdrawTheCourse \/ CrashPipeline
  BY <1>6, StepKeeps, CleanupStep, CourseSteps, CrashStep
<1> QED
  BY <1>1, <1>2, <1>3, <1>4, <1>5, <1>6 DEF VideoNext

LEMMA VideoInvariant == VideoSpec => []VideoInv
  BY VideoInitially, VideoKeeps, PTL DEF VideoSpec


\* What reviewers and students are shown has every quality and its files,
\* whatever jobs, retries, crashes and decisions overlap.
THEOREM WholePlayback == VideoSpec => []PlaybackIsWhole
<1>1. VideoInv => PlaybackIsWhole
  <2> SUFFICES ASSUME VideoInv PROVE PlaybackIsWhole
    OBVIOUS
  <2>1. ServedHasFile
    <3> SUFFICES ASSUME NEW v \in Videos, Stored(v), v \notin halved
                 PROVE  (StreamUrls(v) \cup PreviewUrls(v) \cup StatusUrls(v)) \ {Original}
                          \subseteq files[v]
      BY DEF ServedHasFile
    <3>1. video[v].variants \subseteq files[v]
      BY DEF VideoInv, VariantsHaveFiles
    <3> QED
      BY <3>1 DEF StreamUrls, PreviewUrls, StatusUrls
  <2> QED
    BY <2>1 DEF VideoInv, PlaybackIsWhole
<1> QED
  BY <1>1, VideoInvariant, PTL

\* Nothing is ready, and streamed by whoever asks for that, that no administrator
\* let through, outside direct play: no late job calls a video ready.
THEOREM ReviewedBeforeReady == VideoSpec => []ReadyWasReviewed
<1>1. VideoInv => ReadyWasReviewed
  BY DEF VideoInv, ReadyIsReviewed, ReadyWasReviewed, StreamUrls, Streamable
<1> QED
  BY <1>1, VideoInvariant, PTL

-----------------------------------------------------------------------------
(* How many jobs there are *)

FiniteBag(b) == IsABag(b) /\ IsFiniteSet(DOMAIN b)

Count(b) == SumOver(b, DOMAIN b)

\* BagCardinality adds by the same recursion as the sums.
LEMMA CardinalityIsCount ==
    ASSUME NEW b, IsFiniteSet(DOMAIN b)
    PROVE  BagCardinality(b) = Count(b)
<1> DEFINE Adds(g) == g = [s \in SUBSET DOMAIN b |->
               IF s = {} THEN 0
               ELSE b[CHOOSE x \in s : TRUE] + g[s \ {CHOOSE x \in s : TRUE}]]
           h == CHOOSE g : Adds(g)
<1>1. BagCardinality(b) = h[DOMAIN b]
  BY DEF BagCardinality
<1>2. ASSUME NEW g
      PROVE  IsPartialSum(g, b, DOMAIN b) <=> Adds(g)
  BY DEF IsPartialSum, First
<1>3. \E g : Adds(g)
  <2> HIDE DEF Adds
  <2> QED
    BY <1>2, PartialSumExists
<1> HIDE DEF Adds
<1>4. IsPartialSum(h, b, DOMAIN b)
  BY <1>2, <1>3
<1> QED
  BY <1>1, <1>4, SumIs DEF Count

LEMMA CopiesAreNumbers ==
    ASSUME NEW b, FiniteBag(b)
    PROVE  /\ \A e \in DOMAIN b : b[e] \in Nat /\ b[e] \in Int /\ b[e] > 0
           /\ Count(b) \in Nat /\ BagCardinality(b) = Count(b)
<1>1. \A e \in DOMAIN b : b[e] \in Nat /\ b[e] \in Int /\ b[e] > 0
  BY DEF FiniteBag, IsABag
<1> QED
  BY <1>1, SumNat, CardinalityIsCount DEF FiniteBag, Count

\* A copy that is taken is one less ...
LEMMA TakingOne ==
    ASSUME NEW b, FiniteBag(b), NEW a \in DOMAIN b,
           NEW c, c = b (-) SetToBag({a})
    PROVE  FiniteBag(c) /\ Count(c) + 1 = Count(b)
<1>1. DOMAIN c = {e \in DOMAIN b : e = a => b[e] > 1}
  BY CopiesAreNumbers DEF (-), SetToBag
<1>2. \A e \in DOMAIN c : c[e] = IF e = a THEN b[e] - 1 ELSE b[e]
  BY <1>1 DEF (-), SetToBag
<1>3. c = [e \in DOMAIN c |-> c[e]]
  BY DEF (-), SetToBag
<1>4. FiniteBag(c)
  <2>1. IsFiniteSet(DOMAIN c)
    BY <1>1, FS_Subset DEF FiniteBag
  <2>2. \A e \in DOMAIN c : c[e] \in {n \in Nat : n > 0}
    BY <1>1, <1>2, CopiesAreNumbers
  <2> QED
    BY <1>3, <2>1, <2>2 DEF FiniteBag, IsABag
<1> DEFINE r == DOMAIN b \ {a}
<1>5. IsFiniteSet(DOMAIN b) /\ IsFiniteSet(DOMAIN c) /\ IsFiniteSet(r)
  BY <1>4, FS_Subset DEF FiniteBag
<1>6. Count(b) = SumOver(b, r) + b[a]
  BY <1>5, CopiesAreNumbers, SumRemove DEF Count
<1>7. SumOver(c, r) = SumOver(b, r)
  <2>1. \A e \in r : c[e] = b[e]
    BY <1>1, <1>2
  <2> QED
    BY <1>5, <2>1, SumAgree
<1>8. CASE b[a] = 1
  <2>1. DOMAIN c = r
    BY <1>1, <1>8
  <2>2. Count(b) \in Nat /\ Count(c) \in Nat
    BY <1>4, CopiesAreNumbers
  <2> QED
    BY <1>4, <1>6, <1>7, <1>8, <2>1, <2>2 DEF Count
<1>9. CASE b[a] # 1
  <2>1. a \in DOMAIN c /\ DOMAIN c \ {a} = r
    BY <1>1, <1>9, CopiesAreNumbers
  <2>2. Count(c) = SumOver(c, r) + c[a]
    BY <1>4, <1>5, <2>1, CopiesAreNumbers, SumRemove, SMTT(30) DEF Count
  <2>3. c[a] = b[a] - 1 /\ b[a] \in Nat
    BY <1>2, <2>1, CopiesAreNumbers
  <2>4. SumOver(b, r) \in Nat
    BY <1>5, CopiesAreNumbers, SumNat
  <2> QED
    BY <1>4, <1>6, <1>7, <2>2, <2>3, <2>4
<1> QED
  BY <1>8, <1>9

\* ... and one that is added is one more.
LEMMA AddingOne ==
    ASSUME NEW b, FiniteBag(b), NEW a, NEW c, c = b (+) SetToBag({a})
    PROVE  FiniteBag(c) /\ Count(c) = Count(b) + 1
<1>1. DOMAIN c = DOMAIN b \cup {a}
  BY DEF (+), SetToBag
<1>2. \A e \in DOMAIN b : e # a => c[e] = b[e]
  BY CopiesAreNumbers DEF (+), SetToBag
<1>3. c[a] = IF a \in DOMAIN b THEN b[a] + 1 ELSE 1
  BY CopiesAreNumbers DEF (+), SetToBag
<1>4. FiniteBag(c)
  <2>1. IsFiniteSet(DOMAIN c)
    BY <1>1, FS_AddElement DEF FiniteBag
  <2>2. \A e \in DOMAIN c : c[e] \in {n \in Nat : n > 0}
    BY <1>1, <1>2, <1>3, CopiesAreNumbers
  <2>3. c = [e \in DOMAIN c |-> c[e]]
    BY DEF (+), SetToBag
  <2> QED
    BY <2>1, <2>2, <2>3 DEF FiniteBag, IsABag
<1> DEFINE r == DOMAIN b \ {a}
<1>5. IsFiniteSet(DOMAIN b) /\ IsFiniteSet(DOMAIN c) /\ IsFiniteSet(r)
  BY <1>4, FS_Subset DEF FiniteBag
<1>6. a \in DOMAIN c /\ DOMAIN c \ {a} = r
  BY <1>1
<1>7. Count(c) = SumOver(c, r) + c[a]
  BY <1>4, <1>5, <1>6, CopiesAreNumbers, SumRemove, SMTT(30) DEF Count
<1>8. SumOver(c, r) = SumOver(b, r) /\ SumOver(b, r) \in Nat
  <2>1. \A e \in r : c[e] = b[e] /\ b[e] \in Nat
    BY <1>2, CopiesAreNumbers
  <2> QED
    BY <1>5, <2>1, SumAgree, SumNat
<1>9. CASE a \in DOMAIN b
  <2>1. Count(b) = SumOver(b, r) + b[a]
    BY <1>5, <1>9, CopiesAreNumbers, SumRemove DEF Count
  <2>2. b[a] \in Nat
    BY <1>9, CopiesAreNumbers
  <2> QED
    BY <1>3, <1>4, <1>7, <1>8, <1>9, <2>1, <2>2
<1>10. CASE a \notin DOMAIN b
  <2>1. r = DOMAIN b
    BY <1>10
  <2> QED
    BY <1>3, <1>4, <1>7, <1>8, <1>10, <2>1 DEF Count
<1> QED
  BY <1>9, <1>10

\* A set adds as many as it has members.
LEMMA AddingSome ==
    ASSUME NEW b, FiniteBag(b), NEW s, IsFiniteSet(s)
    PROVE  /\ FiniteBag(b (+) SetToBag(s))
           /\ Count(b (+) SetToBag(s)) = Count(b) + Cardinality(s)
<1> DEFINE with(t) == b (+) SetToBag(t)
           Fits(t) == FiniteBag(with(t)) /\ Count(with(t)) = Count(b) + Cardinality(t)
           C == {t \in SUBSET s : ~Fits(t)}
<1> SUFFICES ASSUME C # {} PROVE FALSE
  OBVIOUS
<1>1. PICK t \in C : \A u \in C : u \subseteq t => u = t
  <2>1. C \in SUBSET SUBSET s
    OBVIOUS
  <2> HIDE DEF C
  <2> QED
    BY <2>1, SmallestSubset
<1>2. t \in SUBSET s /\ IsFiniteSet(t)
  BY FS_Subset
<1>3. Count(b) \in Nat
  BY CopiesAreNumbers
<1>4. CASE t = {}
  <2>1. with({}) = b
    <3>1. DOMAIN with({}) = DOMAIN b
      BY DEF (+), SetToBag
    <3>2. \A e \in DOMAIN b : with({})[e] = b[e]
      BY CopiesAreNumbers DEF (+), SetToBag
    <3>3. with({}) = [e \in DOMAIN with({}) |-> with({})[e]]
      BY DEF (+), SetToBag
    <3>4. b = [e \in DOMAIN b |-> b[e]]
      BY DEF FiniteBag, IsABag
    <3> HIDE DEF with
    <3> QED
      BY <3>1, <3>2, <3>3, <3>4
  <2>2. Fits({})
    BY <1>3, <2>1, FS_EmptySet
  <2> QED
    BY <1>4, <2>2
<1>5. CASE t # {}
  <2>1. PICK a \in t : TRUE
    BY <1>5
  <2> DEFINE u == t \ {a}
  <2>2. u \in SUBSET s /\ u \subseteq t /\ u # t
    BY <1>2, <2>1
  <2>3. Fits(u)
    <3> HIDE DEF Fits, u
    <3> QED
      BY <1>1, <2>2
  <2>4. with(t) = with(u) (+) SetToBag({a})
    <3> DEFINE both == with(u) (+) SetToBag({a})
    <3>1. DOMAIN with(t) = DOMAIN b \cup t /\ DOMAIN both = DOMAIN b \cup t
      BY <2>1 DEF (+), SetToBag
    <3>2. \A e \in DOMAIN b \cup t : with(t)[e] = both[e]
      <4> TAKE e \in DOMAIN b \cup t
      <4>1. e \in DOMAIN b => b[e] \in Nat
        BY CopiesAreNumbers
      <4>2. with(t)[e] = (IF e \in DOMAIN b THEN b[e] ELSE 0) + (IF e \in t THEN 1 ELSE 0)
        BY DEF (+), SetToBag
      <4>3. both[e] = (IF e \in DOMAIN b \cup u THEN with(u)[e] ELSE 0)
                        + (IF e = a THEN 1 ELSE 0)
        BY DEF (+), SetToBag
      <4>4. e \in DOMAIN b \cup u => 
               with(u)[e] = (IF e \in DOMAIN b THEN b[e] ELSE 0) + (IF e \in u THEN 1 ELSE 0)
        BY DEF (+), SetToBag
      <4>5. (e \in t <=> e = a \/ e \in u) /\ ~(e = a /\ e \in u)
        BY <2>1
      <4> HIDE DEF with, both, u
      <4> QED
        BY <4>1, <4>2, <4>3, <4>4, <4>5
    <3>3. with(t) = [e \in DOMAIN with(t) |-> with(t)[e]]
      BY DEF (+), SetToBag
    <3>4. both = [e \in DOMAIN both |-> both[e]]
      BY DEF (+), SetToBag
    <3>5. with(t) = both
      <4> HIDE DEF with, both
      <4> QED
        BY <3>1, <3>2, <3>3, <3>4
    <3> QED
      BY <3>5
  <2>5. Cardinality(t) = Cardinality(u) + 1 /\ Cardinality(u) \in Nat
    <3>1. IsFiniteSet(u) /\ a \notin u /\ t = u \cup {a}
      BY <1>2, <2>1, FS_Subset
    <3> HIDE DEF u
    <3> QED
      BY <3>1, FS_AddElement, FS_CardinalityType
  <2>6. FiniteBag(with(t)) /\ Count(with(t)) = Count(with(u)) + 1
    <3> HIDE DEF with, u
    <3> QED
      BY <2>3, <2>4, AddingOne
  <2> QED
    BY <1>3, <2>3, <2>5, <2>6
<1> QED
  BY <1>4, <1>5

\* Of b, those in S are left in c, as m changes them; some may become alike.
Regroups(c, b, S, m) ==
    c = [w \in {m[j] : j \in S} |->
            BagCardinality([j \in {i \in S : m[i] = w} |-> b[j]])]

\* They are counted together: none is lost, none is new.
LEMMA Regrouped ==
    ASSUME NEW b, FiniteBag(b), NEW S \in SUBSET DOMAIN b, NEW m,
           NEW c, Regroups(c, b, S, m)
    PROVE  FiniteBag(c) /\ Count(c) <= Count(b)
<1> DEFINE K == {m[j] : j \in S}
           part(w) == {i \in S : m[i] = w}
<1>1. IsFiniteSet(S) /\ IsFiniteSet(K) /\ \A w : IsFiniteSet(part(w))
  <2>1. IsFiniteSet(S)
    BY FS_Subset DEF FiniteBag
  <2>2. IsFiniteSet(K)
    <3> DEFINE f == [j \in S |-> m[j]]
    <3>1. f \in Surjection(S, K)
      BY DEF Surjection
    <3> HIDE DEF f, K
    <3> QED
      BY <2>1, <3>1, FS_Surjection
  <2> QED
    BY <2>1, <2>2, FS_Subset
<1>2. \A w \in K : c[w] = SumOver(b, part(w))
  <2> TAKE w \in K
  <2> DEFINE own == [j \in part(w) |-> b[j]]
  <2>1. c[w] = BagCardinality(own)
    BY DEF Regroups
  <2>2. DOMAIN own = part(w) /\ \A j \in part(w) : own[j] = b[j]
    OBVIOUS
  <2> HIDE DEF own, part
  <2>3. BagCardinality(own) = SumOver(own, part(w))
    BY <1>1, <2>2, CardinalityIsCount DEF Count
  <2> QED
    BY <1>1, <2>1, <2>2, <2>3, SumAgree
<1>3. \A w \in K : c[w] \in Nat /\ c[w] > 0
  <2> TAKE w \in K
  <2>1. PICK j \in S : m[j] = w
    OBVIOUS
  <2>2. j \in part(w)
    BY <2>1
  <2>3. \A i \in part(w) : b[i] \in Nat /\ b[i] \in Int /\ b[i] > 0
    BY CopiesAreNumbers
  <2>4. IsFiniteSet(part(w) \ {j})
    BY <1>1, FS_Subset
  <2> HIDE DEF part
  <2>5. SumOver(b, part(w)) = SumOver(b, part(w) \ {j}) + b[j]
    BY <1>1, <2>2, <2>3, SumRemove
  <2>6. SumOver(b, part(w) \ {j}) \in Nat
    BY <2>3, <2>4, SumNat
  <2> QED
    BY <1>2, <2>2, <2>3, <2>5, <2>6
<1>4. DOMAIN c = K /\ c = [w \in K |-> SumOver(b, part(w))]
  <2>1. DOMAIN c = K /\ c = [w \in DOMAIN c |-> c[w]]
    BY DEF Regroups
  <2> HIDE DEF K, part
  <2> QED
    BY <1>2, <2>1
<1>5. FiniteBag(c)
  <2>1. c = [w \in K |-> c[w]]
    BY DEF Regroups
  <2> HIDE DEF K
  <2> QED
    BY <1>1, <1>3, <1>4, <2>1 DEF FiniteBag, IsABag
<1>6. SumOver(c, K) = SumOver(b, S)
  <2>1. \A j \in S : b[j] \in Int /\ m[j] \in K
    BY CopiesAreNumbers
  <2>2. SumOver([w \in K |-> SumOver(b, {i \in S : m[i] = w})], K) = SumOver(b, S)
    <3> HIDE DEF K
    <3> QED
      BY <1>1, <2>1, SumPartition
  <2> QED
    BY <1>4, <2>2
<1>7. SumOver(b, S) <= SumOver(b, DOMAIN b)
  BY CopiesAreNumbers, SumSubset DEF FiniteBag
<1> QED
  BY <1>4, <1>5, <1>6, <1>7 DEF Count

-----------------------------------------------------------------------------
(* No more jobs than there may be *)

Few(b) == FiniteBag(b) /\ BagCardinality(b) <= MaxJobs

JobsFit == Few(jobs) /\ retries \in 0..MaxRetries

LEMMA FewerStay ==
    ASSUME NEW b, Few(b), NEW c, FiniteBag(c), Count(c) <= Count(b)
    PROVE  Few(c)
  BY CopiesAreNumbers, VideoPipelineAssumption DEF Few

LEMMA TakeFits ==
    ASSUME Few(jobs), NEW job \in BagToSet(jobs)
    PROVE  /\ FiniteBag(Take(job)) /\ Count(Take(job)) \in Nat
           /\ Count(Take(job)) + 1 = BagCardinality(jobs) /\ Few(Take(job))
<1>1. FiniteBag(jobs) /\ job \in DOMAIN jobs
  BY DEF Few, BagToSet
<1>2. FiniteBag(Take(job)) /\ Count(Take(job)) + 1 = Count(jobs)
  BY <1>1, TakingOne DEF Take
<1>3. Count(Take(job)) \in Nat /\ Count(jobs) \in Nat /\ BagCardinality(jobs) = Count(jobs)
  BY <1>1, <1>2, CopiesAreNumbers
<1> QED
  BY <1>2, <1>3, FewerStay

LEMMA FinishFits ==
    ASSUME Few(jobs), NEW job \in BagToSet(jobs), Finish(job)
    PROVE  Few(jobs')
  BY TakeFits DEF Finish

\* What a job that is taken leaves behind, if there is room.
LEMMA ReplacedFits ==
    ASSUME Few(jobs), NEW job \in BagToSet(jobs), NEW s, IsFiniteSet(s),
           BagCardinality(jobs) + Cardinality(s) <= MaxJobs + 1,
           jobs' = Take(job) (+) SetToBag(s)
    PROVE  Few(jobs')
<1>1. FiniteBag(jobs') /\ Count(jobs') = Count(Take(job)) + Cardinality(s)
  BY TakeFits, AddingSome
<1>2. BagCardinality(jobs') = Count(jobs')
  BY <1>1, CopiesAreNumbers
<1>3. Cardinality(s) \in Nat
  BY FS_CardinalityType
<1> QED
  BY <1>1, <1>2, <1>3, TakeFits, VideoPipelineAssumption DEF Few

LEMMA BecomeFits ==
    ASSUME Few(jobs), NEW job \in BagToSet(jobs), NEW next, Become(job, next)
    PROVE  Few(jobs')
<1>1. IsFiniteSet({next}) /\ Cardinality({next}) = 1
  BY FS_Singleton
<1>2. BagCardinality(jobs) + 1 <= MaxJobs + 1
  BY TakeFits, VideoPipelineAssumption DEF Few
<1> QED
  BY <1>1, <1>2, ReplacedFits DEF Become

LEMMA AddFits ==
    ASSUME Few(jobs), NEW new, Add({new})
    PROVE  Few(jobs')
<1>1. IsFiniteSet({new}) /\ Cardinality({new}) = 1
  BY FS_Singleton
<1>2. FiniteBag(jobs') /\ Count(jobs') = Count(jobs) + 1
  BY <1>1, AddingSome DEF Add, Few
<1>3. BagCardinality(jobs') = Count(jobs') /\ BagCardinality(jobs) = Count(jobs)
  BY <1>2, CopiesAreNumbers DEF Few
<1> QED
  BY <1>1, <1>2, <1>3 DEF Few, Add

\* The jobs of a batch that go quiet are regrouped.
LEMMA FailFits ==
    ASSUME Few(jobs), NEW job \in BagToSet(jobs), Fail(job)
    PROVE  Few(jobs')
<1>1. CASE job.kind = "direct"
  <2> DEFINE rest == Take(job)
             quiet == [j \in BagToSet(rest) |->
                            IF j.kind = "direct" /\ j.batch = job.batch /\ j.video = job.video
                            THEN [j EXCEPT !.quiet = TRUE] ELSE j]
  <2>1. jobs' = [j \in {quiet[i] : i \in DOMAIN quiet} |->
                        BagCardinality([i \in {n \in DOMAIN quiet : quiet[n] = j} |-> rest[i]])]
    BY <1>1 DEF Fail
  <2>2. DOMAIN quiet = DOMAIN rest
    BY DEF BagToSet
  <2>3. Regroups(jobs', rest, DOMAIN rest, quiet)
    <3> HIDE DEF quiet, rest
    <3> QED
      BY <2>1, <2>2 DEF Regroups
  <2>4. FiniteBag(rest) /\ Few(rest)
    BY TakeFits
  <2>5. FiniteBag(jobs') /\ Count(jobs') <= Count(rest)
    <3> HIDE DEF quiet, rest
    <3> QED
      BY <2>3, <2>4, Regrouped
  <2> QED
    BY <2>4, <2>5, FewerStay
<1>2. CASE job.kind # "direct"
  BY <1>2, BecomeFits, FinishFits DEF Fail
<1> QED
  BY <1>1, <1>2

\* One job for each of some qualities.
LEMMA SpawnedAreFew ==
    ASSUME NEW Q, IsFiniteSet(Q), NEW f, f \in [Q -> {f[q] : q \in Q}]
    PROVE  IsFiniteSet({f[q] : q \in Q}) /\ Cardinality({f[q] : q \in Q}) <= Cardinality(Q)
<1>1. f \in Surjection(Q, {f[q] : q \in Q})
  BY DEF Surjection
<1> QED
  BY <1>1, FS_Surjection

LEMMA QueueTranscodingFits ==
    ASSUME Few(jobs), BagToSet(jobs) \subseteq Jobs,
           NEW job \in BagToSet(jobs), QueueTranscoding(job)
    PROVE  Few(jobs')
<1> DEFINE f == [q \in job.qualities |->
                    [kind |-> "transcode", video |-> job.video,
                     quality |-> q, attempt |-> 1, at |-> "waiting"]]
           s == {f[q] : q \in job.qualities}
<1>1. IsFiniteSet(job.qualities)
  <2>1. job \in ProcessJobs
    BY DEF QueueTranscoding, Jobs, ProcessJobs, TranscodeJobs, DirectJobs
  <2>2. job.qualities \subseteq Qualities
    BY <2>1 DEF ProcessJobs
  <2> QED
    BY <2>2, FS_Subset, VideoPipelineAssumption
<1>2. s = {[kind |-> "transcode", video |-> job.video,
            quality |-> q, attempt |-> 1, at |-> "waiting"] : q \in job.qualities}
  OBVIOUS
<1>3. jobs' = Take(job) (+) SetToBag(s)
  BY <1>2 DEF QueueTranscoding
<1>4. f \in [job.qualities -> s]
  OBVIOUS
<1>5. IsFiniteSet(s) /\ Cardinality(s) <= Cardinality(job.qualities)
  <2> HIDE DEF f
  <2> QED
    BY <1>1, <1>4, SpawnedAreFew
<1>6. BagCardinality(jobs) + Cardinality(s) <= MaxJobs + 1
  <2>1. BagCardinality(jobs) \in Nat
    BY CopiesAreNumbers DEF Few
  <2>2. Cardinality(s) \in Nat /\ Cardinality(job.qualities) \in Nat
    BY <1>1, <1>5, FS_CardinalityType
  <2>3. BagCardinality(jobs) + Cardinality(job.qualities) <= MaxJobs + 1
    BY DEF QueueTranscoding
  <2> HIDE DEF s
  <2> QED
    BY <1>5, <2>1, <2>2, <2>3, VideoPipelineAssumption
<1> HIDE DEF s
<1> QED
  BY <1>3, <1>5, <1>6, ReplacedFits

LEMMA ProcessVideoDirectlyFits ==
    ASSUME Few(jobs), NEW job \in BagToSet(jobs), ProcessVideoDirectly(job)
    PROVE  Few(jobs')
<1> DEFINE f == [q \in Qualities |->
                    [kind |-> "direct", video |-> job.video,
                     quality |-> q, quiet |-> FALSE, batch |-> job.batch, at |-> "run"]]
           s == {f[q] : q \in Qualities}
<1>1. CASE ~Stored(job.video)
  BY <1>1, FinishFits DEF ProcessVideoDirectly
<1>2. CASE Stored(job.video)
  <2>1. s = {[kind |-> "direct", video |-> job.video,
              quality |-> q, quiet |-> FALSE, batch |-> job.batch, at |-> "run"] : q \in Qualities}
    OBVIOUS
  <2>2. jobs' = Take(job) (+) SetToBag(s)
    BY <1>2, <2>1 DEF ProcessVideoDirectly
  <2>3. f \in [Qualities -> s]
    OBVIOUS
  <2>4. IsFiniteSet(s) /\ Cardinality(s) <= Cardinality(Qualities)
    <3> HIDE DEF f
    <3> QED
      BY <2>3, SpawnedAreFew, VideoPipelineAssumption
  <2>5. BagCardinality(jobs) + Cardinality(s) <= MaxJobs + 1
    <3>1. BagCardinality(jobs) \in Nat
      BY CopiesAreNumbers DEF Few
    <3>2. Cardinality(s) \in Nat /\ Cardinality(Qualities) \in Nat
      BY <2>4, FS_CardinalityType, VideoPipelineAssumption
    <3>3. BagCardinality(jobs) + Cardinality(Qualities) <= MaxJobs + 1
      BY <1>2 DEF ProcessVideoDirectly
    <3> HIDE DEF s
    <3> QED
      BY <2>4, <3>1, <3>2, <3>3, VideoPipelineAssumption
  <2> HIDE DEF s
  <2> QED
    BY <2>2, <2>4, <2>5, ReplacedFits
<1> QED
  BY <1>1, <1>2

LEMMA WorkFits ==
    ASSUME Few(jobs), BagToSet(jobs) \subseteq Jobs, NEW job \in BagToSet(jobs), Work(job)
    PROVE  Few(jobs') /\ retries' = retries
<1>1. CASE ProcessVideo(job)
  BY <1>1, BecomeFits, FailFits DEF ProcessVideo
<1>2. CASE QueueTranscoding(job)
  BY <1>2, QueueTranscodingFits DEF QueueTranscoding
<1>3. CASE ProcessVideoDirectly(job)
  BY <1>3, ProcessVideoDirectlyFits DEF ProcessVideoDirectly
<1>4. CASE TranscodeVideo(job)
  BY <1>4, BecomeFits DEF TranscodeVideo
<1>5. CASE CreateVariant(job)
  BY <1>5, BecomeFits, FailFits DEF CreateVariant
<1>6. CASE CheckAndFinalizeVideo(job)
  BY <1>6, BecomeFits, FinishFits DEF CheckAndFinalizeVideo
<1>7. CASE FinalizeVideo(job)
  BY <1>7, FinishFits, FailFits DEF FinalizeVideo
<1>8. CASE TranscodeFails(job)
  BY <1>8, FailFits DEF TranscodeFails
<1> QED
  BY <1>1, <1>2, <1>3, <1>4, <1>5, <1>6, <1>7, <1>8 DEF Work

LEMMA CrashFits ==
    ASSUME Few(jobs), CrashPipeline
    PROVE  Few(jobs')
<1> DEFINE queued == {j \in BagToSet(jobs) : j.kind \in {"process", "transcode"}}
           waits == [j \in queued |-> [j EXCEPT !.at = "waiting"]]
<1>1. Regroups(jobs', jobs, queued, waits)
  BY DEF CrashPipeline, Regroups
<1>2. queued \in SUBSET DOMAIN jobs
  BY DEF BagToSet
<1>3. FiniteBag(jobs') /\ Count(jobs') <= Count(jobs)
  <2> HIDE DEF queued, waits
  <2> QED
    BY <1>1, <1>2, Regrouped DEF Few
<1> QED
  BY <1>3, FewerStay

LEMMA AgainFits == JobsFit /\ Again => retries' \in 0..MaxRetries
  BY VideoPipelineAssumption DEF JobsFit, Again

LEMMA JobsFitInitially == VideoInit => JobsFit
<1> SUFFICES ASSUME VideoInit PROVE JobsFit
  OBVIOUS
<1>1. DOMAIN jobs = {} /\ jobs = [e \in {} |-> 1]
  BY DEF VideoInit, EmptyBag, SetToBag
<1>2. FiniteBag(jobs)
  BY <1>1, FS_EmptySet DEF FiniteBag, IsABag
<1>3. BagCardinality(jobs) = 0
  BY <1>1, <1>2, CopiesAreNumbers, SumEmpty DEF Count
<1> QED
  BY <1>2, <1>3, VideoPipelineAssumption DEF VideoInit, JobsFit, Few

LEMMA JobsFitStay ==
    JobsFit /\ BagToSet(jobs) \subseteq Jobs /\ [VideoNext]_videoVars => JobsFit'
<1> SUFFICES ASSUME JobsFit, BagToSet(jobs) \subseteq Jobs, [VideoNext]_videoVars
             PROVE  Few(jobs') /\ retries' \in 0..MaxRetries
  BY DEF JobsFit, Few, FiniteBag, IsABag
<1> USE DEF JobsFit
<1>1. CASE UNCHANGED videoVars
  BY <1>1 DEF videoVars
<1>2. CASE \E job \in BagToSet(jobs) : Work(job)
  BY <1>2, WorkFits
<1>3. CASE \E x \in Tasks, v \in Videos :
             \/ UploadVideo(x, v) \/ CompleteUpload(x, v) \/ RetryFailedVideo(x, v)
             \/ ApproveVideo(x, v) \/ DeleteVideo(x, v)
  BY <1>3, AgainFits
     DEF UploadVideo, CompleteUpload, RetryFailedVideo, ApproveVideo, DeleteVideo
<1>4. CASE \E x \in Tasks : Enqueue(x) \/ Requeue(x)
  BY <1>4, AddFits DEF Enqueue, Requeue
<1>5. CASE \E x \in Tasks :
             \/ DirectPlay(x) \/ StoreRetry(x) \/ StoreApproval(x) \/ PublishTheCourse(x)
             \/ FindPending(x) \/ ApproveFound(x) \/ DeleteObjects(x) \/ DeleteRecord(x)
  BY <1>5, AgainFits DEF DirectPlay, StoreRetry, StoreApproval, PublishTheCourse,
     FindPending, ApproveFound, DeleteObjects, DeleteRecord
<1>6. CASE \E v \in Videos, qualities \in SUBSET Qualities : InitiateProcessing(v, qualities)
  BY <1>6, AddFits, AgainFits DEF InitiateProcessing
<1>7. CASE (\E v \in Videos : InitiateUpload(v)) \/ CleanupStalledVideos \/ WithdrawTheCourse
  BY <1>7, AgainFits DEF InitiateUpload, CleanupStalledVideos, WithdrawTheCourse
<1>8. CASE CrashPipeline
  BY <1>8, CrashFits, AgainFits DEF CrashPipeline
<1> QED
  BY <1>1, <1>2, <1>3, <1>4, <1>5, <1>6, <1>7, <1>8 DEF VideoNext

LEMMA VideoTypesFollow == VideoInv /\ JobsFit => VideoTypeOK
  BY VideoPipelineAssumption
     DEF VideoInv, VideoTypes, Jobs, JobsFit, Few, FiniteBag, VideoTypeOK

LEMMA JobsFitKept == VideoInv /\ JobsFit /\ [VideoNext]_videoVars => JobsFit'
  BY JobsFitStay DEF VideoInv, VideoTypes

\* Every variable of VideoPipeline keeps its type, and there are no more jobs
\* than there may be, although those that fail together are merged.
THEOREM VideoTypesHold == VideoSpec => []VideoTypeOK
<1>1. VideoSpec => []JobsFit
  BY JobsFitInitially, JobsFitKept, VideoInvariant, PTL DEF VideoSpec
<1> QED
  BY <1>1, VideoTypesFollow, VideoInvariant, PTL

-----------------------------------------------------------------------------
(***************************************************************************)
(* Catalogue                                                               *)
(***************************************************************************)

\* Titles that requests on their way will change, and those changed.
Retitling(c) ==
    {x \in Handlers : Reached(x, "update") /\ handler[x].course = c /\ handler[x].change.title}
TitleOf(c) == IF Created(c) THEN course[c].title ELSE 0
TitlesAreCounted == \A c \in Courses : TitleOf(c) + Cardinality(Retitling(c)) <= edited

\* What strangers may be shown under a key.
EntryFits(key, value, known) ==
    /\ \A c \in Courses : key = DetailKey(c) =>
           value \in Details /\ value.row.isPublished /\ c \in known
    /\ key \in {<<"list">>, <<"search">>, <<"featured">>} =>
           \A entry \in value : entry[1] \in known
ReadersFit == \A x \in Handlers : Reached(x, "store") => EntryFits(handler[x].key, handler[x].value, approved)

\* Whoever came under a removal is known.
RemovalsAreLate ==
    \A x \in Handlers : Reached(x, "remove") /\ handler[x].course \in students =>
        handler[x].course \in late

CatalogueRowsOK ==
    /\ course \in [Courses -> CourseRows \cup {NoCourse}]
    /\ category \in [Categories -> {"absent", "active", "inactive"}]
    /\ setting \in Nat
    /\ students \subseteq enrolled /\ enrolled \subseteq Courses /\ videos \subseteq Courses
    /\ contents \in [Courses -> Nat] /\ figures \in [Courses -> Nat]
    /\ cache \in [Keys -> Entries \cup {NoEntry}]
    /\ handler \in [Handlers -> HandlerRows]
    /\ doubt \subseteq Keys /\ edited \in 0..MaxCourseEdits

PublishedWasApproved == \A c \in Courses : Created(c) /\ course[c].isPublished => c \in approved
EntriesFit == \A key \in Keys : cache[key] = NoEntry \/ EntryFits(key, cache[key], approved)

CatalogueInv ==
    /\ CatalogueRowsOK /\ TitlesAreCounted
    /\ PublishedWasApproved /\ EntriesFit /\ ReadersFit
    /\ FreshUnlessExcused
    /\ StudentsKeepCourse /\ RemovalsAreLate

LEMMA CatalogueImplies ==
    ASSUME CatalogueInv
    PROVE  CatalogueTypeOK /\ StrangersSeeApproved
<1> USE DEF CatalogueInv
<1>1. \A c \in Courses : DetailKey(c) \in Keys
  BY DEF Keys
<1>2. \A c \in Courses : cache[DetailKey(c)] = NoEntry \/ EntryFits(DetailKey(c), cache[DetailKey(c)], approved)
  BY <1>1 DEF EntriesFit
<1>3. CatalogueTypeOK
  <2>1. \A c \in Courses :
            \/ cache[DetailKey(c)] = NoEntry
            \/ cache[DetailKey(c)] \in Details /\ cache[DetailKey(c)].row.isPublished
    BY <1>2 DEF EntryFits
  <2>2. ASSUME NEW x \in Handlers, Reached(x, "update")
        PROVE  handler[x].change \in CourseChanges
    <3>1. handler[x] \in HandlerRows
      BY DEF CatalogueRowsOK
    <3> QED
      BY <3>1, <2>2 DEF HandlerRows, Reached, NoHandler
  <2> QED
    BY <2>1, <2>2 DEF CatalogueRowsOK, CatalogueTypeOK
<1>4. StrangersSeeApproved
  <2>1. ASSUME NEW c \in Courses
        PROVE  \/ c \in approved
               \/ cache[DetailKey(c)] = NoEntry /\ ~(Created(c) /\ course[c].isPublished)
    BY <1>2 DEF EntryFits, PublishedWasApproved
  <2>2. ASSUME NEW key \in {<<"list">>, <<"search">>, <<"featured">>}, cache[key] # NoEntry
        PROVE  \A entry \in cache[key] : entry[1] \in approved
    BY <2>2 DEF EntriesFit, EntryFits, Keys
  <2> QED
    BY <2>1, <2>2 DEF StrangersSeeApproved
<1> QED
  BY <1>3, <1>4

-----------------------------------------------------------------------------
(* Rows and keys *)

LEMMA HandlerFields ==
    ASSUME CatalogueRowsOK, NEW x \in Handlers
    PROVE  /\ Reached(x, "insert") => handler[x].course \in Courses /\ handler[x].category \in Categories
           /\ Reached(x, "update") => handler[x].course \in Courses /\ handler[x].change \in CourseChanges
           /\ (\/ Reached(x, "publish") \/ Reached(x, "remove") \/ Reached(x, "approve")
               \/ Reached(x, "gut") \/ Reached(x, "erase") \/ Reached(x, "enrol"))
                  => handler[x].course \in Courses
           /\ Reached(x, "invalidate") => handler[x].keys \in SUBSET Keys
           /\ Reached(x, "query") => handler[x].key \in Keys
           /\ Reached(x, "store") => handler[x].key \in Keys /\ handler[x].value \in Entries
           /\ Free(x) <=> Reached(x, "none")
<1>1. handler[x] \in HandlerRows
  BY DEF CatalogueRowsOK
<1> QED
  BY <1>1 DEF HandlerRows, Reached, NoHandler, Free

LEMMA RecordsOfHandlers ==
    /\ NoHandler \in HandlerRows
    /\ \A c \in Courses : \A k \in Categories :
           [at |-> "insert", course |-> c, category |-> k] \in HandlerRows
    /\ \A c \in Courses : \A change \in CourseChanges :
           [at |-> "update", course |-> c, change |-> change] \in HandlerRows
    /\ \A c \in Courses :
           \A at \in {"publish", "remove", "approve", "gut", "erase", "enrol"} :
               [at |-> at, course |-> c] \in HandlerRows
    /\ \A keys \in SUBSET Keys : [at |-> "invalidate", keys |-> keys] \in HandlerRows
    /\ \A key \in Keys : [at |-> "query", key |-> key] \in HandlerRows
    /\ \A key \in Keys, value \in Entries :
           [at |-> "store", key |-> key, value |-> value] \in HandlerRows
BY DEF HandlerRows

\* Of the keys each is one of six kinds.
LEMMA KindsOfKeys ==
    /\ \A c \in Courses :
           /\ DetailKey(c)[2] = c /\ \A d \in Courses : DetailKey(c) = DetailKey(d) => c = d
           /\ DetailKey(c) \notin {<<"list">>, <<"search">>, <<"featured">>, <<"categories">>,
                                   <<"settings">>}
           /\ KeysOf(c) \in SUBSET Keys
    /\ <<"list">> \notin {<<"search">>, <<"featured">>, <<"categories">>, <<"settings">>}
    /\ <<"search">> \notin {<<"featured">>, <<"categories">>, <<"settings">>}
    /\ <<"featured">> \notin {<<"categories">>, <<"settings">>}
    /\ <<"categories">> # <<"settings">>
BY DEF DetailKey, KeysOf, Keys

\* What the database answers, key by key.
ViewOfEach ==
    /\ \A c \in Courses :
           View(DetailKey(c)) = IF Cacheable(c) THEN Detail(c) ELSE NoEntry
    /\ View(<<"list">>) = Titles({c \in Courses : Visible(c) /\ ~course[c].deleted})
    /\ View(<<"search">>) = Titles({c \in Courses : Visible(c)})
    /\ View(<<"featured">>) = Titles({c \in Courses : Visible(c)})
    /\ View(<<"categories">>) =
           {<<k, CoursesOf(k)>> : k \in {j \in Categories : category[j] = "active"}}
    /\ View(<<"settings">>) = setting

LEMMA ViewsAre == ViewOfEach
<1>1. ASSUME NEW c \in Courses
      PROVE  View(DetailKey(c)) = IF Cacheable(c) THEN Detail(c) ELSE NoEntry
  <2>1. DetailKey(c) \in {DetailKey(d) : d \in Courses} /\ DetailKey(c)[2] = c
    BY KindsOfKeys
  <2>2. \A key : \A d \in Courses : key = DetailKey(d) => key \notin {<<"list">>, <<"search">>, <<"featured">>, <<"categories">>,
                                   <<"settings">>}
    BY KindsOfKeys
  <2> QED
    BY <2>1, <2>2 DEF View
<1>2. ASSUME NEW key \in {<<"list">>, <<"search">>, <<"featured">>, <<"categories">>, <<"settings">>}
      PROVE  key \notin {DetailKey(d) : d \in Courses}
  BY <1>2, KindsOfKeys
<1> QED
  BY <1>1, <1>2, KindsOfKeys DEF View, ViewOfEach

LEMMA ViewsAfter == ViewOfEach'
BY ViewsAre, PTL

LEMMA ViewsFit ==
    ASSUME CatalogueInv, NEW key \in Keys, View(key) # NoEntry
    PROVE  View(key) \in Entries /\ EntryFits(key, View(key), approved)
<1> USE DEF CatalogueInv
<1>1. CASE \E c \in Courses : key = DetailKey(c)
  <2>1. PICK c \in Courses : key = DetailKey(c)
    BY <1>1
  <2>2. Cacheable(c) /\ View(key) = Detail(c)
    BY <2>1, ViewsAre DEF ViewOfEach
  <2>3. Detail(c) \in Details /\ Detail(c).row.isPublished /\ c \in approved
    BY <2>2 DEF Cacheable, Created, PublishedWasApproved, CatalogueRowsOK, Detail, Details
  <2>4. EntryFits(key, View(key), approved)
    BY <2>1, <2>2, <2>3, KindsOfKeys DEF EntryFits
  <2> QED
    BY <2>2, <2>3, <2>4 DEF Entries
<1>2. CASE key \in {<<"list">>, <<"search">>, <<"featured">>}
  <2>1. PICK S \in SUBSET Courses : View(key) = Titles(S) /\ \A c \in S : Visible(c)
    <3> DEFINE P == {c \in Courses : Visible(c)}
               L == {c \in Courses : Visible(c) /\ ~course[c].deleted}
    <3>1. P \in SUBSET Courses /\ \A c \in P : Visible(c)
      OBVIOUS
    <3>2. L \in SUBSET Courses /\ \A c \in L : Visible(c)
      OBVIOUS
    <3>3. View(key) = Titles(P) \/ View(key) = Titles(L)
      BY <1>2, ViewsAre DEF ViewOfEach
    <3> HIDE DEF P, L
    <3> QED
      BY <3>1, <3>2, <3>3
  <2>2. ASSUME NEW c \in S
        PROVE  /\ c \in Courses /\ c \in approved /\ course[c].title \in 0..MaxCourseEdits
               /\ figures[c] \in Nat
    BY <2>1 DEF Visible, Created, PublishedWasApproved, CatalogueRowsOK, CourseRows
  <2>3. View(key) \in SUBSET (Courses \X (0..MaxCourseEdits) \X Nat)
    BY <2>1, <2>2 DEF Titles
  <2>4. \A entry \in View(key) : entry[1] \in approved
    BY <2>1, <2>2 DEF Titles
  <2>5. EntryFits(key, View(key), approved)
    BY <1>2, <2>4, KindsOfKeys DEF EntryFits
  <2> QED
    BY <2>3, <2>5 DEF Entries
<1>3. CASE key \in {<<"categories">>, <<"settings">>}
  <2>1. View(key) \in (SUBSET (Categories \X SUBSET Courses)) \cup Nat
    <3>1. /\ View(<<"categories">>) =
                 {<<k, CoursesOf(k)>> : k \in {j \in Categories : category[j] = "active"}}
          /\ View(<<"settings">>) = setting
      BY ViewsAre DEF ViewOfEach
    <3>2. setting \in Nat
      BY DEF CatalogueRowsOK
    <3>3. \A k : CoursesOf(k) \in SUBSET Courses
      BY DEF CoursesOf
    <3> QED
      BY ONLY <1>3, <3>1, <3>2, <3>3
  <2>2. EntryFits(key, View(key), approved)
    BY <1>3, KindsOfKeys DEF EntryFits
  <2> QED
    BY <2>1, <2>2 DEF Entries
<1> QED
  BY ONLY <1>1, <1>2, <1>3, key \in Keys DEF Keys

\* What the database answers depends on the rows alone ...
LEMMA ViewsRest ==
    ASSUME UNCHANGED <<course, category, setting, contents, figures>>
    PROVE  \A key : View(key)' = View(key)
BY DEF View, Cacheable, Created, Titles, Visible, Detail, CoursesOf

\* ... each key's on what it shows of them ...
LEMMA ViewsShown ==
    ASSUME UNCHANGED course, NEW key \in Keys,
           key = <<"categories">> => UNCHANGED category,
           key = <<"settings">> => UNCHANGED setting,
           \A c \in Courses : key = DetailKey(c) => contents'[c] = contents[c],
           key \in {<<"list">>, <<"search">>, <<"featured">>} =>
               \A c \in Courses : figures'[c] = figures[c]
    PROVE  View(key)' = View(key)
<1>1. CASE \E c \in Courses : key = DetailKey(c)
  BY <1>1, ViewsAre, ViewsAfter DEF ViewOfEach, Cacheable, Created, Detail
<1>2. CASE key \in {<<"list">>, <<"search">>, <<"featured">>}
  <2> DEFINE P == {c \in Courses : Visible(c)}
             L == {c \in Courses : Visible(c) /\ ~course[c].deleted}
  <2>1. Titles(P)' = Titles(P) /\ Titles(L)' = Titles(L)
    BY <1>2 DEF Titles, Visible, Created
  <2>2. View(<<"list">>) = Titles(L) /\ View(<<"search">>) = Titles(P) /\ View(<<"featured">>) = Titles(P)
    BY ViewsAre DEF ViewOfEach
  <2>3. /\ View(<<"list">>)' = Titles(L)' /\ View(<<"search">>)' = Titles(P)'
        /\ View(<<"featured">>)' = Titles(P)'
    BY ViewsAfter DEF ViewOfEach
  <2> HIDE DEF P, L
  <2> QED
    BY <1>2, <2>1, <2>2, <2>3
<1>3. CASE key \in {<<"categories">>, <<"settings">>}
  <2>1. \A k : CoursesOf(k)' = CoursesOf(k)
    BY DEF CoursesOf, Created
  <2> QED
    BY <1>3, <2>1, ViewsAre, ViewsAfter DEF ViewOfEach
<1> QED
  BY <1>1, <1>2, <1>3 DEF Keys

\* ... and what is written into a course shows under its own keys, and with its
\* category.
LEMMA ViewsOfOthers ==
    ASSUME CatalogueRowsOK, NEW c \in Courses, NEW row, SetCourse(c, row),
           UNCHANGED <<category, setting, contents, figures>>,
           NEW key \in Keys \ KeysOf(c), key # <<"featured">>,
           key = <<"categories">> => \A k : CoursesOf(k)' = CoursesOf(k)
    PROVE  View(key)' = View(key)
<1>1. CASE \E d \in Courses : key = DetailKey(d)
  <2>1. PICK d \in Courses : key = DetailKey(d)
    BY <1>1
  <2>2. d # c
    BY <2>1 DEF KeysOf
  <2>3. course'[d] = course[d]
    BY <2>2 DEF SetCourse, CatalogueRowsOK
  <2>4. View(key)' = IF Cacheable(d)' THEN Detail(d)' ELSE NoEntry
    BY <2>1, ViewsAre, ViewsAfter DEF ViewOfEach
  <2>5. View(key) = IF Cacheable(d) THEN Detail(d) ELSE NoEntry
    BY <2>1, ViewsAre, ViewsAfter DEF ViewOfEach
  <2> QED
    BY <2>3, <2>4, <2>5 DEF Cacheable, Created, Detail
<1>2. CASE key = <<"categories">> \/ key = <<"settings">>
  BY <1>2, ViewsAre, ViewsAfter DEF ViewOfEach
<1> QED
  BY <1>1, <1>2 DEF Keys, KeysOf

LEMMA HiddenCourse ==
    ASSUME CatalogueRowsOK, NEW c \in Courses, NEW row \in CourseRows, SetCourse(c, row),
           ~Created(c), ~row.isPublished, UNCHANGED <<category, setting, contents, figures>>,
           NEW key \in Keys, key # <<"categories">>
    PROVE  View(key)' = View(key)
<1>1. \A d \in Courses \ {c} : course'[d] = course[d]
  BY DEF SetCourse, CatalogueRowsOK
<1>2. course'[c] = row
  BY DEF SetCourse, CatalogueRowsOK
<1>3. CASE \E d \in Courses : key = DetailKey(d)
  <2>1. PICK d \in Courses : key = DetailKey(d)
    BY <1>3
  <2>2. View(key)' = IF Cacheable(d)' THEN Detail(d)' ELSE NoEntry
    BY <2>1, ViewsAre, ViewsAfter DEF ViewOfEach
  <2>3. View(key) = IF Cacheable(d) THEN Detail(d) ELSE NoEntry
    BY <2>1, ViewsAre, ViewsAfter DEF ViewOfEach
  <2>4. CASE d # c
    BY <1>1, <2>2, <2>3, <2>4 DEF Cacheable, Created, Detail
  <2>5. CASE d = c
    BY <1>2, <2>2, <2>3, <2>5 DEF Cacheable
  <2> QED
    BY <2>4, <2>5
<1>4. CASE key \in {<<"list">>, <<"search">>, <<"featured">>}
  <2>1. \A d \in Courses :
            /\ Visible(d)' <=> Visible(d)
            /\ Visible(d) => course'[d] = course[d]
    BY <1>1, <1>2 DEF Visible, Created
  <2> DEFINE P == {d \in Courses : Visible(d)}
             L == {d \in Courses : Visible(d) /\ ~course[d].deleted}
  <2>2. P' = P /\ L' = L
    BY <2>1
  <2>3. Titles(P)' = Titles(P)
    BY <2>1, <2>2 DEF Titles
  <2>4. Titles(L)' = Titles(L)
    BY <2>1, <2>2 DEF Titles
  <2>5. View(<<"list">>) = Titles(L) /\ View(<<"search">>) = Titles(P) /\ View(<<"featured">>) = Titles(P)
    BY ViewsAre, ViewsAfter DEF ViewOfEach
  <2>6. /\ View(<<"list">>)' = Titles(L)' /\ View(<<"search">>)' = Titles(P)'
        /\ View(<<"featured">>)' = Titles(P)'
    BY ViewsAre, ViewsAfter DEF ViewOfEach
  <2> HIDE DEF P, L
  <2> QED
    BY <1>4, <2>3, <2>4, <2>5, <2>6
<1>5. CASE key = <<"settings">>
  BY <1>5, ViewsAre, ViewsAfter DEF ViewOfEach
<1> QED
  BY <1>3, <1>4, <1>5 DEF Keys

LEMMA ShelvesStay ==
    ASSUME CatalogueRowsOK, NEW c \in Courses, NEW row \in CourseRows, SetCourse(c, row),
           Created(c), row.category = course[c].category
    PROVE  \A k : CoursesOf(k)' = CoursesOf(k)
<1>1. course'[c] = row /\ \A d \in Courses \ {c} : course'[d] = course[d]
  BY DEF SetCourse, CatalogueRowsOK
<1> QED
  BY <1>1, CatalogueRowsAssumption DEF CoursesOf, Created

-----------------------------------------------------------------------------
(* The actions *)

\* A request reads, and has all its writes before it ...
Asks(x) ==
    \/ \E c \in Courses :
         \/ \E k \in Categories : CreateCourse(x, c, k)
         \/ \E change \in CourseChanges : UpdateCourse(x, c, change)
         \/ Publish(x, c) \/ Remove(x, c) \/ Enrol(x, c)
         \/ ApproveCourse(x, c) \/ RejectCourse(x, c)
    \/ DeleteCourseVideos(x)
    \/ \E key \in Keys : Get(x, key)
    \/ Query(x)
\* ... writes a course ...
Writes(x) ==
    \/ InsertCourse(x) \/ StoreChange(x) \/ StoreSubmission(x) \/ StoreRemoval(x)
    \/ StoreCourseApproval(x) \/ EraseCourse(x)
\* ... or something else; and others write what a course is shown with.
Settles(x) ==
    \/ InsertEnrollment(x)
    \/ \E k \in Categories, state \in {"absent", "active", "inactive"} : EditCategory(x, k, state)
    \/ UpdateSetting(x)
    \/ Invalidate(x) \/ StoreEntry(x) \/ DieInRequest(x)

Surrounds(c) == RefundStudent(c) \/ Readmit(c) \/ ChangeContents(c) \/ ChangeFigures(c)

LEMMA CatalogueActions ==
    ASSUME CatalogueNext
    PROVE  \/ \E x \in Handlers : Asks(x) \/ Writes(x) \/ Settles(x)
           \/ \E c \in Courses : SuspendCourse(c)
           \/ \E c \in Courses : Surrounds(c)
           \/ \E key \in Keys : Expire(key)
BY DEF CatalogueNext, Asks, Writes, Settles, Surrounds

\* What is shown with courses is counted, and leaves their keys in doubt.
LEMMA ReshownTypes ==
    ASSUME CatalogueRowsOK, NEW S \in SUBSET Courses, Reshow(S)
    PROVE  /\ contents' \in [Courses -> Nat] /\ figures' \in [Courses -> Nat]
           /\ doubt \subseteq doubt' /\ doubt' \subseteq Keys
           /\ \A c \in S : KeysOf(c) \subseteq doubt'
BY KindsOfKeys DEF Reshow, CatalogueRowsOK

LEMMA ReshownViews ==
    ASSUME CatalogueRowsOK, NEW S \in SUBSET Courses, Reshow(S), UNCHANGED course,
           NEW key \in Keys \ {<<"featured">>},
           key = <<"categories">> => UNCHANGED category,
           key = <<"settings">> => UNCHANGED setting
    PROVE  View(key)' = View(key) \/ key \in doubt'
<1>1. \A c \in S : DetailKey(c) \in doubt' /\ <<"list">> \in doubt' /\ <<"search">> \in doubt'
  BY ReshownTypes DEF KeysOf
<1>2. \A c \in Courses \ S : contents'[c] = contents[c] /\ figures'[c] = figures[c]
  BY DEF Reshow, CatalogueRowsOK
<1> QED
  BY <1>1, <1>2, ViewsShown

\* All that others write is who is a student, and what courses are shown with.
LEMMA SurroundedStep ==
    ASSUME CatalogueInv, NEW c \in Courses, Surrounds(c)
    PROVE  /\ UNCHANGED <<course, category, setting, enrolled, videos, cache, handler, approved>>
           /\ \/ students' \subseteq students /\ late' = late
              \/ c \in enrolled /\ Admit(c)
           /\ late \subseteq late'
           /\ edited' = edited \/ (Edit /\ edited' = edited + 1)
           /\ contents' \in [Courses -> Nat] /\ figures' \in [Courses -> Nat]
           /\ doubt \subseteq doubt' /\ doubt' \subseteq Keys
           /\ \A key \in Keys \ {<<"featured">>} : View(key)' = View(key) \/ key \in doubt'
<1>0. CatalogueRowsOK /\ DetailKey(c) \in Keys /\ {c} \in SUBSET Courses
  BY DEF CatalogueInv, Keys
<1>1. CASE Reshow({c}) /\ (RefundStudent(c) \/ ChangeFigures(c))
  <2>1. UNCHANGED <<course, category, setting, enrolled, videos, cache, handler, approved>>
    BY <1>1 DEF RefundStudent, ChangeFigures
  <2>2. \A key \in Keys \ {<<"featured">>} : View(key)' = View(key) \/ key \in doubt'
    BY <1>0, <1>1, <2>1, ReshownViews
  <2> QED
    BY <1>0, <1>1, <2>1, <2>2, ReshownTypes DEF RefundStudent, ChangeFigures, Edit
<1>2. CASE Readmit(c)
  <2>1. UNCHANGED <<course, category, setting, contents, figures>>
    BY <1>2 DEF Readmit
  <2>2. \A key : View(key)' = View(key)
    BY <2>1, ViewsRest
  <2> QED
    BY <1>0, <1>2, <2>2 DEF Readmit, Admit, CatalogueRowsOK
<1>3. CASE ChangeContents(c)
  <2>1. UNCHANGED <<course, category, setting, enrolled, videos, cache, handler, approved, figures>>
    BY <1>3 DEF ChangeContents
  <2>2. contents' = [contents EXCEPT ![c] = @ + 1] /\ doubt' = doubt \cup {DetailKey(c)}
    BY <1>3 DEF ChangeContents
  <2>3. \A d \in Courses \ {c} : contents'[d] = contents[d]
    BY <1>0, <2>2 DEF CatalogueRowsOK
  <2>4. ASSUME NEW key \in Keys \ {<<"featured">>}, key \notin doubt'
        PROVE  View(key)' = View(key)
    BY <2>1, <2>2, <2>3, <2>4, ViewsShown
  <2> QED
    BY <1>0, <1>3, <2>1, <2>2, <2>4 DEF ChangeContents, Edit, CatalogueRowsOK
<1> QED
  BY <1>1, <1>2, <1>3 DEF Surrounds, RefundStudent, ChangeFigures

\* Who asks carries on with a record, and leaves all else but the count of edits
\* and the videos as they are.
LEMMA AskedStep ==
    ASSUME CatalogueInv, NEW x \in Handlers, Asks(x)
    PROVE  /\ \E r \in HandlerRows :
                  /\ Proceed(x, r)
                  /\ r.at = "update" => edited' = edited + 1
                  /\ r.at = "remove" => r.course \notin students
                  /\ r.at = "store" => r.key \in Keys /\ EntryFits(r.key, r.value, approved)
           /\ ~Reached(x, "invalidate")
           /\ edited' = edited \/ Edit
           /\ videos' \subseteq Courses
           /\ UNCHANGED <<course, category, setting, around, cache, approved, late, doubt>>
<1> USE DEF CatalogueInv
<1>0. videos \subseteq Courses /\ (Free(x) <=> Reached(x, "none"))
  BY HandlerFields DEF CatalogueRowsOK
<1> DEFINE Record(r) ==
        /\ Proceed(x, r)
        /\ r.at = "update" => edited' = edited + 1
        /\ r.at = "remove" => r.course \notin students
        /\ r.at = "store" => r.key \in Keys /\ EntryFits(r.key, r.value, approved)
<1> DEFINE Rest ==
        /\ ~Reached(x, "invalidate")
        /\ edited' = edited \/ Edit
        /\ videos' \subseteq Courses
        /\ UNCHANGED <<course, category, setting, around, cache, approved, late, doubt>>
<1>1. ASSUME NEW c \in Courses, NEW k \in Categories, CreateCourse(x, c, k)
      PROVE  Record([at |-> "insert", course |-> c, category |-> k]) /\ Rest
  BY <1>0, <1>1 DEF CreateCourse, Reached, catalogueRows, catalogueHistory
<1>2. ASSUME NEW c \in Courses, NEW change \in CourseChanges, UpdateCourse(x, c, change)
      PROVE  Record([at |-> "update", course |-> c, change |-> change]) /\ Rest
  BY <1>0, <1>2 DEF UpdateCourse, Reached, Edit, catalogueRows, catalogueHistory
<1>3. ASSUME NEW c \in Courses,
             \/ Publish(x, c) \/ Remove(x, c) \/ Enrol(x, c)
             \/ ApproveCourse(x, c) \/ RejectCourse(x, c)
      PROVE  Rest /\ \E at \in {"publish", "remove", "approve", "gut", "enrol"} :
                         Record([at |-> at, course |-> c])
  BY <1>0, <1>3 DEF Publish, Remove, Enrol, ApproveCourse, RejectCourse, HasNoStudents, Reached,
        Edit, catalogueRows, catalogueHistory
<1>4. ASSUME DeleteCourseVideos(x)
      PROVE  Record([at |-> "erase", course |-> handler[x].course]) /\ Rest
  BY <1>0, <1>4 DEF DeleteCourseVideos, Reached, catalogueHistory
<1>5. ASSUME NEW key \in Keys, Get(x, key)
      PROVE  Record([at |-> "query", key |-> key]) /\ Rest
  BY <1>0, <1>5 DEF Get, Reached, catalogueRows, catalogueHistory
<1>6. ASSUME Query(x), View(handler[x].key) = NoEntry
      PROVE  Record(NoHandler) /\ Rest
  BY <1>0, <1>6 DEF Query, Reached, Answer, NoHandler, catalogueRows, catalogueHistory
<1>7. ASSUME Query(x), View(handler[x].key) # NoEntry
      PROVE  /\ handler[x].key \in Keys /\ View(handler[x].key) \in Entries
             /\ Record([at |-> "store", key |-> handler[x].key, value |-> View(handler[x].key)])
             /\ Rest
  <2>1. handler[x].key \in Keys
    BY <1>7, HandlerFields DEF Query
  <2>2. View(handler[x].key) \in Entries /\ EntryFits(handler[x].key, View(handler[x].key), approved)
    BY <1>7, <2>1, ViewsFit
  <2> QED
    BY <1>0, <1>7, <2>1, <2>2 DEF Query, Reached, catalogueRows, catalogueHistory
<1>8. DeleteCourseVideos(x) => handler[x].course \in Courses
  BY HandlerFields DEF DeleteCourseVideos
<1>9. Rest /\ \E r \in HandlerRows : Record(r)
  <2> HIDE DEF Record, Rest
  <2> QED
    BY <1>1, <1>2, <1>3, <1>4, <1>5, <1>6, <1>7, <1>8, RecordsOfHandlers DEF Asks
<1> QED
  BY <1>9

LEMMA TitlesCounted ==
    ASSUME CatalogueInv, NEW c \in Courses
    PROVE  /\ IsFiniteSet(Retitling(c)) /\ Cardinality(Retitling(c)) \in Nat
           /\ TitleOf(c) \in Nat /\ edited \in Nat /\ edited <= MaxCourseEdits
           /\ \A x \in Retitling(c) :
                  Cardinality(Retitling(c)) \geq 1 /\ TitleOf(c) + 1 <= edited
<1> USE DEF CatalogueInv
<1>1. IsFiniteSet(Retitling(c)) /\ Cardinality(Retitling(c)) \in Nat
  BY CatalogueAssumption, FS_Subset, FS_CardinalityType DEF Retitling
<1>2. TitleOf(c) \in Nat
  BY CatalogueAssumption DEF TitleOf, Created, CatalogueRowsOK, CourseRows
<1>3. edited \in Nat /\ edited <= MaxCourseEdits
  BY CatalogueAssumption DEF CatalogueRowsOK
<1>4. TitleOf(c) + Cardinality(Retitling(c)) <= edited
  BY DEF TitlesAreCounted
<1>5. ASSUME NEW x \in Retitling(c)
      PROVE  Cardinality(Retitling(c)) \geq 1
  BY <1>1, <1>5, FS_EmptySet
<1> QED
  BY <1>1, <1>2, <1>3, <1>4, <1>5

\* The row that a request writes into a course that is there.
Rewrites(x, c, row) ==
    /\ Created(c) /\ SetCourse(c, row) /\ row \in CourseRows
    /\ row.title = course[c].title \/ (x \in Retitling(c) /\ row.title = course[c].title + 1)
    /\ row.isPublished => course[c].isPublished \/ c \in approved'
    /\ row.deleted => course[c].deleted \/ Reached(x, "remove")
    /\ row.category = course[c].category
Inserts(x, c, row) ==
    /\ ~Created(c) /\ SetCourse(c, row) /\ row \in CourseRows
    /\ row.title = 0 /\ ~row.isPublished

\* The course is left alone, inserted, written with its keys to delete or in
\* doubt, or erased.
CourseWritten(x, c) ==
    \/ Answer(x) /\ UNCHANGED <<course, doubt>>
    \/ Answer(x) /\ doubt' = doubt \cup {<<"categories">>} /\ \E row : Inserts(x, c, row)
    \/ Invalidating(x, KeysOf(c)) /\ UNCHANGED doubt /\ \E row : Rewrites(x, c, row)
    \/ Answer(x) /\ doubt' = doubt \cup KeysOf(c) /\ \E row : Rewrites(x, c, row)
    \/ /\ c \notin enrolled /\ Answer(x)
       /\ doubt' = doubt \cup KeysOf(c) \cup {<<"categories">>}
       /\ SetCourse(c, NoCourse)

LEMMA WrittenStep ==
    ASSUME CatalogueInv, NEW x \in Handlers, Writes(x)
    PROVE  /\ \E c \in Courses :
                  /\ handler[x].course = c
                  /\ CourseWritten(x, c)
           /\ ~Reached(x, "invalidate")
           /\ approved \subseteq approved' /\ videos' \subseteq Courses
           /\ UNCHANGED <<category, setting, around, cache, edited, late>>
<1> USE DEF CatalogueInv
<1> DEFINE c == handler[x].course
<1> DEFINE Rest ==
           /\ ~Reached(x, "invalidate")
           /\ approved \subseteq approved' /\ videos' \subseteq Courses
           /\ UNCHANGED <<category, setting, around, cache, edited, late>>
<1> DEFINE Cases == CourseWritten(x, c)
<1>1. c \in Courses
  BY HandlerFields DEF Writes, InsertCourse, StoreChange, StoreSubmission, StoreRemoval,
     StoreCourseApproval, EraseCourse
<1>2. videos \subseteq Courses
  BY DEF CatalogueRowsOK
<1>3. Created(c) => course[c] \in CourseRows
  BY <1>1 DEF Created, CatalogueRowsOK
<1>4. CASE InsertCourse(x)
  <2>1. Rest
    BY <1>1, <1>2, <1>4 DEF InsertCourse, Reached
  <2> DEFINE k == handler[x].category
             row == [status |-> "DRAFT", isPublished |-> FALSE, deleted |-> FALSE,
                     title |-> 0, category |-> k]
  <2>2. k \in Categories
    BY <1>4, HandlerFields DEF InsertCourse
  <2>3. row \in CourseRows
    BY <2>2, CatalogueAssumption DEF CourseRows, CourseStatuses
  <2>4. \/ ~Created(c) /\ SetCourse(c, row) /\ doubt' = doubt \cup {<<"categories">>}
        \/ UNCHANGED <<course, doubt>>
    BY <1>4 DEF InsertCourse
  <2>5. Answer(x)
    BY <1>4 DEF InsertCourse
  <2>6. row.title = 0 /\ ~row.isPublished
    OBVIOUS
  <2>7. \/ Inserts(x, c, row) /\ doubt' = doubt \cup {<<"categories">>}
        \/ UNCHANGED <<course, doubt>>
    <3> HIDE DEF row
    <3> QED
      BY <2>3, <2>4, <2>6 DEF Inserts
  <2>8. Cases
    BY <2>5, <2>7 DEF CourseWritten
  <2> QED
    BY <2>1, <2>8, <1>1
<1>5. CASE StoreChange(x)
  <2>1. Rest
    BY <1>2, <1>5 DEF StoreChange, Reached, catalogueHistory
  <2>2. UNCHANGED <<approved, doubt>>
    BY <1>5 DEF StoreChange, catalogueHistory
  <2>3. CASE ~Created(c)
    BY <1>1, <1>5, <2>1, <2>2, <2>3 DEF StoreChange, CourseWritten
  <2>4. CASE Created(c)
    <3> DEFINE change == handler[x].change
               row == Changed(course[c], change)
    <3>1. change \in CourseChanges
      BY <1>5, HandlerFields DEF StoreChange
    <3>2. change.title => x \in Retitling(c)
      BY <1>5 DEF StoreChange, Retitling
    <3>3. change.title => course[c].title + 1 \in 0..MaxCourseEdits
      <4>1. TitleOf(c) = course[c].title
        BY <2>4 DEF TitleOf
      <4> QED
        BY <3>2, <4>1, <1>1, TitlesCounted, CatalogueAssumption
    <3>4. change.status \in CourseStatuses \cup {"keep"} /\ change.title \in BOOLEAN
      BY <3>1 DEF CourseChanges
    <3> HIDE DEF c, change
    <3>5. row \in CourseRows
      BY <1>3, <2>4, <3>3, <3>4 DEF CourseRows, Changed
    <3>6. /\ row.title = IF change.title THEN course[c].title + 1 ELSE course[c].title
          /\ row.isPublished = course[c].isPublished
          /\ row.deleted = course[c].deleted /\ row.category = course[c].category
      BY <1>3, <2>4 DEF CourseRows, Changed
    <3>7. SetCourse(c, row) /\ Invalidating(x, KeysOf(c))
      BY <1>5, <2>4 DEF StoreChange, c, change
    <3>8. Rewrites(x, c, row)
      <4> HIDE DEF row
      <4> QED
        BY <2>4, <3>2, <3>5, <3>6, <3>7 DEF Rewrites
    <3>9. Cases
      BY <2>2, <3>7, <3>8 DEF CourseWritten
    <3> QED
      BY <2>1, <3>9, <1>1 DEF c
  <2> QED
    BY <2>3, <2>4
<1>6. CASE StoreSubmission(x)
  <2>1. Rest
    BY <1>2, <1>6 DEF StoreSubmission, Reached, catalogueHistory
  <2>2. UNCHANGED <<approved, doubt>>
    BY <1>6 DEF StoreSubmission, catalogueHistory
  <2>3. CASE ~Created(c)
    BY <1>1, <1>6, <2>1, <2>2, <2>3 DEF StoreSubmission, CourseWritten
  <2>4. CASE Created(c)
    <3> DEFINE row == [course[c] EXCEPT !.status = "UNDER_REVIEW", !.isPublished = FALSE]
    <3>1. SetCourse(c, row) /\ Invalidating(x, KeysOf(c))
      BY <1>6, <2>4 DEF StoreSubmission
    <3> HIDE DEF c
    <3>2. row \in CourseRows
      BY <1>3, <2>4 DEF CourseRows, CourseStatuses
    <3>3. row.title = course[c].title /\ ~row.isPublished /\ row.deleted = course[c].deleted
          /\ row.category = course[c].category
      BY <1>3, <2>4 DEF CourseRows
    <3>4. Rewrites(x, c, row)
      <4> HIDE DEF row
      <4> QED
        BY <2>4, <3>1, <3>2, <3>3 DEF Rewrites
    <3>5. Cases
      BY <2>2, <3>1, <3>4 DEF CourseWritten
    <3> QED
      BY <2>1, <3>5, <1>1 DEF c
  <2> QED
    BY <2>3, <2>4
<1>7. CASE StoreRemoval(x)
  <2>1. Rest
    BY <1>2, <1>7 DEF StoreRemoval, Reached, catalogueHistory
  <2>2. UNCHANGED <<approved, doubt>>
    BY <1>7 DEF StoreRemoval, catalogueHistory
  <2>3. CASE ~Created(c)
    BY <1>1, <1>7, <2>1, <2>2, <2>3 DEF StoreRemoval, CourseWritten
  <2>4. CASE Created(c)
    <3> DEFINE row == [course[c] EXCEPT !.deleted = TRUE, !.isPublished = FALSE, !.status = "ARCHIVED"]
    <3>1. SetCourse(c, row) /\ Invalidating(x, KeysOf(c)) /\ Reached(x, "remove")
      BY <1>7, <2>4 DEF StoreRemoval
    <3> HIDE DEF c
    <3>2. row \in CourseRows
      BY <1>3, <2>4 DEF CourseRows, CourseStatuses
    <3>3. row.title = course[c].title /\ ~row.isPublished
          /\ row.category = course[c].category
      BY <1>3, <2>4 DEF CourseRows
    <3>4. Rewrites(x, c, row)
      <4> HIDE DEF row
      <4> QED
        BY <2>4, <3>1, <3>2, <3>3 DEF Rewrites
    <3>5. Cases
      BY <2>2, <3>1, <3>4 DEF CourseWritten
    <3> QED
      BY <2>1, <3>5, <1>1 DEF c
  <2> QED
    BY <2>3, <2>4
<1>8. CASE StoreCourseApproval(x)
  <2>1. Rest
    BY <1>2, <1>8 DEF StoreCourseApproval, Reached
  <2>3. CASE ~Created(c)
    BY <1>1, <1>8, <2>1, <2>3 DEF StoreCourseApproval, CourseWritten
  <2>4. CASE Created(c)
    <3> DEFINE row == [course[c] EXCEPT !.status = "PUBLISHED", !.isPublished = TRUE]
    <3>1. SetCourse(c, row) /\ Answer(x) /\ c \in approved' /\ doubt' = doubt \cup KeysOf(c)
      BY <1>8, <2>4 DEF StoreCourseApproval
    <3> HIDE DEF c
    <3>2. row \in CourseRows
      BY <1>3, <2>4 DEF CourseRows, CourseStatuses
    <3>3. row.title = course[c].title /\ row.deleted = course[c].deleted
          /\ row.category = course[c].category
      BY <1>3, <2>4 DEF CourseRows
    <3>4. Rewrites(x, c, row)
      <4> HIDE DEF row
      <4> QED
        BY <2>4, <3>1, <3>2, <3>3 DEF Rewrites
    <3>5. Cases
      BY <3>1, <3>4 DEF CourseWritten
    <3> QED
      BY <2>1, <3>5, <1>1 DEF c
  <2> QED
    BY <2>3, <2>4
<1>9. CASE EraseCourse(x)
  <2>1. Rest
    BY <1>2, <1>9 DEF EraseCourse, Reached
  <2>2. Cases
    BY <1>9 DEF EraseCourse, CourseWritten
  <2> QED
    BY <2>1, <2>2, <1>1
<1> QED
  BY <1>4, <1>5, <1>6, <1>7, <1>8, <1>9 DEF Writes

LEMMA ProceedTypes ==
    ASSUME CatalogueRowsOK, NEW x \in Handlers, NEW r \in HandlerRows, Proceed(x, r)
    PROVE  /\ handler' \in [Handlers -> HandlerRows]
           /\ handler'[x] = r /\ \A y \in Handlers \ {x} : handler'[y] = handler[y]
BY DEF Proceed, CatalogueRowsOK

\* The records that writers and others leave.
LEMMA AnswerTypes ==
    ASSUME CatalogueRowsOK, NEW x \in Handlers, NEW keys \in SUBSET Keys,
           Answer(x) \/ Invalidating(x, keys)
    PROVE  /\ handler' \in [Handlers -> HandlerRows]
           /\ \A y \in Handlers \ {x} : handler'[y] = handler[y]
           /\ \A stage \in {"update", "remove", "store"} : ~Reached(x, stage)'
           /\ Invalidating(x, keys) => Reached(x, "invalidate")' /\ handler'[x].keys = keys
<1>1. CASE Answer(x)
  <2>1. handler'[x] = NoHandler
    BY <1>1, ProceedTypes, RecordsOfHandlers DEF Answer
  <2>2. ~Invalidating(x, keys)
    <3>1. SUFFICES ASSUME Invalidating(x, keys) PROVE FALSE
      OBVIOUS
    <3>2. handler'[x] = [at |-> "invalidate", keys |-> keys]
      BY <3>1, ProceedTypes, RecordsOfHandlers DEF Invalidating
    <3> QED
      BY <2>1, <3>2 DEF NoHandler
  <2> QED
    BY <1>1, <2>1, <2>2, ProceedTypes, RecordsOfHandlers DEF Answer, Reached, NoHandler
<1>2. CASE Invalidating(x, keys)
  BY <1>2, ProceedTypes, RecordsOfHandlers DEF Invalidating, Reached
<1> QED
  BY <1>1, <1>2

\* Every step changes course rows as these say.
LEMMA CourseTypes ==
    ASSUME CatalogueRowsOK, NEW c \in Courses, NEW row \in CourseRows \cup {NoCourse},
           SetCourse(c, row)
    PROVE  /\ course' \in [Courses -> CourseRows \cup {NoCourse}]
           /\ course'[c] = row /\ \A d \in Courses \ {c} : course'[d] = course[d]
BY DEF SetCourse, CatalogueRowsOK

LEMMA SuspendedStep ==
    ASSUME CatalogueInv, NEW c \in Courses, SuspendCourse(c)
    PROVE  /\ \E row \in CourseRows :
                  /\ SetCourse(c, row) /\ Created(c) /\ row.title = course[c].title
                  /\ ~row.isPublished /\ row.deleted = course[c].deleted
                  /\ row.category = course[c].category
           /\ doubt' = doubt \cup KeysOf(c)
           /\ UNCHANGED <<category, setting, around, videos, cache, handler, edited, approved, late>>
<1> DEFINE row == [course[c] EXCEPT !.status = "ARCHIVED", !.isPublished = FALSE]
<1>1. Created(c) /\ SetCourse(c, row)
  BY DEF SuspendCourse
<1>2. course[c] \in CourseRows
  BY <1>1 DEF Created, CatalogueInv, CatalogueRowsOK
<1>3. row \in CourseRows
  BY <1>2 DEF CourseRows, CourseStatuses
<1>4. /\ row.title = course[c].title /\ ~row.isPublished /\ row.deleted = course[c].deleted
      /\ row.category = course[c].category
  BY <1>2 DEF CourseRows
<1> HIDE DEF row
<1> QED
  BY <1>1, <1>3, <1>4 DEF SuspendCourse

LEMMA RowsStep ==
    ASSUME CatalogueInv, CatalogueNext
    PROVE  CatalogueRowsOK'
<1> USE DEF CatalogueInv
<1>1. ASSUME NEW x \in Handlers, Asks(x)
      PROVE  CatalogueRowsOK'
  <2>1. handler' \in [Handlers -> HandlerRows]
    BY <1>1, AskedStep, ProceedTypes
  <2>2. edited' \in 0..MaxCourseEdits
    BY <1>1, AskedStep, CatalogueAssumption DEF Edit, CatalogueRowsOK
  <2> QED
    BY <1>1, <2>1, <2>2, AskedStep DEF CatalogueRowsOK, around
<1>2. ASSUME NEW x \in Handlers, Writes(x)
      PROVE  CatalogueRowsOK'
  <2>1. PICK c \in Courses : CourseWritten(x, c)
    BY <1>2, WrittenStep
  <2>2. KeysOf(c) \in SUBSET Keys
    BY KindsOfKeys
  <2>3. handler' \in [Handlers -> HandlerRows]
    BY <2>1, <2>2, AnswerTypes DEF CourseWritten
  <2>4. course' \in [Courses -> CourseRows \cup {NoCourse}]
    BY <2>1, CourseTypes DEF CourseWritten, Inserts, Rewrites, CatalogueRowsOK
  <2>5. doubt' \subseteq Keys
    <3>1. <<"categories">> \in Keys
      BY DEF Keys
    <3> QED
      BY <2>1, <2>2, <3>1 DEF CourseWritten, CatalogueRowsOK
  <2> QED
    BY <1>2, <2>3, <2>4, <2>5, WrittenStep DEF CatalogueRowsOK, around
<1>3. ASSUME NEW x \in Handlers, InsertEnrollment(x)
      PROVE  CatalogueRowsOK'
  <2>1. handler[x].course \in Courses
    BY <1>3, HandlerFields DEF InsertEnrollment
  <2>2. handler' \in [Handlers -> HandlerRows]
    BY <1>3, KindsOfKeys, AnswerTypes DEF InsertEnrollment
  <2>3. CASE Created(handler[x].course)
    <3>1. /\ students' \subseteq enrolled' /\ enrolled' \subseteq Courses
          /\ Reshow({handler[x].course})
      BY <1>3, <2>1, <2>3 DEF InsertEnrollment, Admit, CatalogueRowsOK
    <3> QED
      BY <1>3, <2>1, <2>2, <2>3, <3>1, ReshownTypes DEF InsertEnrollment, CatalogueRowsOK
  <2>4. CASE ~Created(handler[x].course)
    BY <1>3, <2>2, <2>4 DEF InsertEnrollment, CatalogueRowsOK, around
  <2> QED
    BY <2>3, <2>4
<1>4. ASSUME NEW x \in Handlers,
             \/ \E k \in Categories, state \in {"absent", "active", "inactive"} : EditCategory(x, k, state)
             \/ UpdateSetting(x)
      PROVE  CatalogueRowsOK'
  <2>1. {<<"categories">>} \in SUBSET Keys /\ {<<"settings">>} \in SUBSET Keys
    BY DEF Keys
  <2>2. handler' \in [Handlers -> HandlerRows]
    BY <1>4, <2>1, AnswerTypes DEF EditCategory, UpdateSetting
  <2>3. edited' \in 0..MaxCourseEdits
    BY <1>4, CatalogueAssumption DEF EditCategory, UpdateSetting, Edit, CatalogueRowsOK
  <2>4. category' \in [Categories -> {"absent", "active", "inactive"}] /\ setting' \in Nat
    BY <1>4 DEF EditCategory, UpdateSetting, CatalogueRowsOK
  <2>5. /\ contents' \in [Courses -> Nat] /\ figures' \in [Courses -> Nat]
        /\ doubt' \subseteq Keys
    <3>1. CASE UpdateSetting(x)
      BY <3>1 DEF UpdateSetting, CatalogueRowsOK, around, catalogueHistory
    <3>2. ASSUME NEW k \in Categories, Reshow(CoursesOf(k))
          PROVE  <2>5
      <4>1. CoursesOf(k) \in SUBSET Courses
        BY DEF CoursesOf
      <4> QED
        BY <3>2, <4>1, ReshownTypes
    <3> QED
      BY <1>4, <3>1, <3>2 DEF EditCategory
  <2> QED
    BY <1>4, <2>2, <2>3, <2>4, <2>5
       DEF EditCategory, UpdateSetting, CatalogueRowsOK, around, catalogueHistory
<1>5. ASSUME NEW x \in Handlers, Invalidate(x) \/ StoreEntry(x) \/ DieInRequest(x)
      PROVE  CatalogueRowsOK'
  <2>1. handler' \in [Handlers -> HandlerRows]
    BY <1>5, KindsOfKeys, AnswerTypes DEF Invalidate, StoreEntry, DieInRequest
  <2>2. doubt' \subseteq Keys
    BY <1>5, HandlerFields DEF Invalidate, StoreEntry, DieInRequest, CatalogueRowsOK
  <2>3. cache' \in [Keys -> Entries \cup {NoEntry}]
    BY <1>5, HandlerFields DEF Invalidate, StoreEntry, DieInRequest, CatalogueRowsOK
  <2> QED
    BY <1>5, <2>1, <2>2, <2>3 DEF Invalidate, StoreEntry, DieInRequest, CatalogueRowsOK, catalogueRows, around
<1>6. ASSUME NEW c \in Courses, SuspendCourse(c)
      PROVE  CatalogueRowsOK'
  <2>1. KeysOf(c) \in SUBSET Keys
    BY KindsOfKeys
  <2>2. course' \in [Courses -> CourseRows \cup {NoCourse}]
    BY <1>6, SuspendedStep, CourseTypes
  <2> QED
    BY <1>6, <2>1, <2>2, SuspendedStep DEF CatalogueRowsOK, around
<1>7. ASSUME NEW key \in Keys, Expire(key)
      PROVE  CatalogueRowsOK'
  BY <1>7 DEF Expire, CatalogueRowsOK, catalogueRows, around
<1>8. ASSUME NEW c \in Courses, Surrounds(c)
      PROVE  CatalogueRowsOK'
  <2>1. edited' \in 0..MaxCourseEdits
    BY <1>8, SurroundedStep, CatalogueAssumption DEF Edit, CatalogueRowsOK
  <2>2. students' \subseteq enrolled
    BY <1>8, SurroundedStep DEF Admit, CatalogueRowsOK
  <2> QED
    BY <1>8, <2>1, <2>2, SurroundedStep DEF CatalogueRowsOK
<1> QED
  BY <1>1, <1>2, <1>3, <1>4, <1>5, <1>6, <1>7, <1>8, CatalogueActions DEF Settles

-----------------------------------------------------------------------------
(* Titles *)

LEMMA RetitlingStays ==
    ASSUME CatalogueInv, NEW c \in Courses, NEW x \in Handlers,
           \A y \in Handlers \ {x} : handler'[y] = handler[y],
           ~Reached(x, "update")', edited' \in Nat, edited <= edited',
           TitleOf(c)' \in Nat,
           TitleOf(c)' <= TitleOf(c)
               \/ (x \in Retitling(c) /\ TitleOf(c)' <= TitleOf(c) + 1)
    PROVE  TitleOf(c)' + Cardinality(Retitling(c)') <= edited'
<1>1. Retitling(c)' = Retitling(c) \ {x}
  BY DEF Retitling, Reached
<1>2. /\ Cardinality(Retitling(c) \ {x}) \in Nat
      /\ Cardinality(Retitling(c) \ {x}) =
             IF x \in Retitling(c) THEN Cardinality(Retitling(c)) - 1 ELSE Cardinality(Retitling(c))
  BY TitlesCounted, FS_RemoveElement, FS_CardinalityType
<1>3. TitleOf(c) + Cardinality(Retitling(c)) <= edited
  BY DEF CatalogueInv, TitlesAreCounted
<1> QED
  BY <1>1, <1>2, <1>3, TitlesCounted

LEMMA RetitlingGrows ==
    ASSUME CatalogueInv, NEW c \in Courses, NEW x \in Handlers,
           \A y \in Handlers \ {x} : handler'[y] = handler[y],
           edited' = edited + 1, TitleOf(c)' = TitleOf(c)
    PROVE  TitleOf(c)' + Cardinality(Retitling(c)') <= edited'
<1>1. Retitling(c)' \in SUBSET (Retitling(c) \cup {x})
  BY DEF Retitling, Reached
<1>2. /\ IsFiniteSet(Retitling(c) \cup {x})
      /\ Cardinality(Retitling(c) \cup {x}) \in Nat
      /\ Cardinality(Retitling(c) \cup {x}) <= Cardinality(Retitling(c)) + 1
  <2>1. IsFiniteSet(Retitling(c)) /\ Cardinality(Retitling(c)) \in Nat
    BY TitlesCounted
  <2>2. /\ IsFiniteSet(Retitling(c) \cup {x})
        /\ \/ Cardinality(Retitling(c) \cup {x}) = Cardinality(Retitling(c))
           \/ Cardinality(Retitling(c) \cup {x}) = Cardinality(Retitling(c)) + 1
    BY <2>1, FS_AddElement
  <2> QED
    BY <2>1, <2>2
<1>3. /\ Cardinality(Retitling(c)') \in Nat
      /\ Cardinality(Retitling(c)') <= Cardinality(Retitling(c) \cup {x})
  BY <1>1, <1>2, FS_Subset, FS_CardinalityType
<1>4. TitleOf(c) + Cardinality(Retitling(c)) <= edited
  BY DEF CatalogueInv, TitlesAreCounted
<1> QED
  BY <1>2, <1>3, <1>4, TitlesCounted

LEMMA TitlesRest ==
    ASSUME CatalogueInv, NEW c \in Courses, UNCHANGED handler,
           edited' = edited \/ edited' = edited + 1, TitleOf(c)' = TitleOf(c)
    PROVE  TitleOf(c)' + Cardinality(Retitling(c)') <= edited'
<1>1. Retitling(c)' = Retitling(c)
  BY DEF Retitling, Reached
<1>2. TitleOf(c) + Cardinality(Retitling(c)) <= edited
  BY DEF CatalogueInv, TitlesAreCounted
<1> QED
  BY <1>1, <1>2, TitlesCounted

LEMMA TitlesStep ==
    ASSUME CatalogueInv, CatalogueNext
    PROVE  TitlesAreCounted'
<1> SUFFICES ASSUME NEW c \in Courses
             PROVE  TitleOf(c)' + Cardinality(Retitling(c)') <= edited'
  BY DEF TitlesAreCounted
<1>0. CatalogueRowsOK /\ edited \in Nat /\ TitleOf(c) \in Nat
  BY TitlesCounted DEF CatalogueInv
<1>c. course' = course => TitleOf(c)' = TitleOf(c)
  BY DEF TitleOf, Created
<1>1. ASSUME NEW x \in Handlers, Asks(x)
      PROVE  TitleOf(c)' + Cardinality(Retitling(c)') <= edited'
  <2>1. PICK r \in HandlerRows : Proceed(x, r) /\ (r.at = "update" => edited' = edited + 1)
    BY <1>1, AskedStep
  <2>2. handler'[x] = r /\ \A y \in Handlers \ {x} : handler'[y] = handler[y]
    BY <1>0, <2>1, ProceedTypes
  <2>3. TitleOf(c)' = TitleOf(c) /\ (edited' = edited \/ edited' = edited + 1)
    BY <1>1, <1>c, AskedStep DEF Edit
  <2>4. CASE r.at = "update"
    BY <2>1, <2>2, <2>3, <2>4, RetitlingGrows
  <2>5. CASE r.at # "update"
    BY <1>0, <2>2, <2>3, <2>5, RetitlingStays DEF Reached
  <2> QED
    BY <2>4, <2>5
<1>2. ASSUME NEW x \in Handlers, Writes(x)
      PROVE  TitleOf(c)' + Cardinality(Retitling(c)') <= edited'
  <2>1. PICK d \in Courses : CourseWritten(x, d)
    BY <1>2, WrittenStep
  <2>2. KeysOf(d) \in SUBSET Keys
    BY KindsOfKeys
  <2>3. /\ \A y \in Handlers \ {x} : handler'[y] = handler[y]
        /\ ~Reached(x, "update")'
    BY <1>0, <2>1, <2>2, AnswerTypes DEF CourseWritten
  <2>4. edited' = edited
    BY <1>2, WrittenStep
  <2>5. /\ TitleOf(c)' \in Nat
        /\ TitleOf(c)' <= TitleOf(c)
               \/ (x \in Retitling(c) /\ TitleOf(c)' <= TitleOf(c) + 1)
    <3>1. CASE UNCHANGED course
      BY <1>0, <1>c, <3>1
    <3>2. ASSUME NEW row, Inserts(x, d, row)
          PROVE  <2>5
      <4>1. course'[d] = row /\ \A e \in Courses \ {d} : course'[e] = course[e]
        BY <1>0, <3>2, CourseTypes DEF Inserts
      <4>2. row.title = 0
        BY <3>2 DEF Inserts
      <4>3. TitleOf(c)' = TitleOf(c) \/ TitleOf(c)' = 0
        BY <4>1, <4>2 DEF TitleOf, Created
      <4> QED
        BY <1>0, <4>3
    <3>3. ASSUME NEW row, Rewrites(x, d, row)
          PROVE  <2>5
      <4>1. course'[d] = row /\ \A e \in Courses \ {d} : course'[e] = course[e]
        BY <1>0, <3>3, CourseTypes DEF Rewrites
      <4>2. CASE c # d
        <5>1. TitleOf(c)' = TitleOf(c)
          BY <4>1, <4>2 DEF TitleOf, Created
        <5> QED
          BY <1>0, <5>1
      <4>3. CASE c = d
        <5>1. TitleOf(c) = course[c].title /\ TitleOf(c)' = row.title
          BY <3>3, <4>1, <4>3, CatalogueRowsAssumption DEF Rewrites, TitleOf, Created
        <5> QED
          BY <1>0, <3>3, <4>3, <5>1 DEF Rewrites
      <4> QED
        BY <4>2, <4>3
    <3>4. CASE SetCourse(d, NoCourse)
      <4>1. course'[d] = NoCourse /\ \A e \in Courses \ {d} : course'[e] = course[e]
        BY <1>0, <3>4, CourseTypes
      <4>2. TitleOf(c)' = TitleOf(c) \/ TitleOf(c)' = 0
        BY <4>1 DEF TitleOf, Created
      <4> QED
        BY <1>0, <4>2
    <3> QED
      BY <2>1, <3>1, <3>2, <3>3, <3>4 DEF CourseWritten
  <2> QED
    BY <1>0, <2>3, <2>4, <2>5, RetitlingStays
<1>3. ASSUME NEW x \in Handlers, Settles(x)
      PROVE  TitleOf(c)' + Cardinality(Retitling(c)') <= edited'
  <2>1. course' = course /\ (edited' = edited \/ edited' = edited + 1)
    BY <1>3 DEF Settles, InsertEnrollment, EditCategory, UpdateSetting, Invalidate, StoreEntry,
          DieInRequest, catalogueRows, Edit
  <2>2. \E keys \in SUBSET Keys : Answer(x) \/ Invalidating(x, keys)
    <3>1. {<<"categories">>} \in SUBSET Keys /\ {<<"settings">>} \in SUBSET Keys
      BY DEF Keys
    <3> QED
      BY <1>3, <3>1 DEF Settles, InsertEnrollment, EditCategory, UpdateSetting, Invalidate,
            StoreEntry, DieInRequest
  <2>3. /\ \A y \in Handlers \ {x} : handler'[y] = handler[y]
        /\ ~Reached(x, "update")'
    BY <1>0, <2>2, AnswerTypes
  <2> QED
    BY <1>0, <1>c, <2>1, <2>3, RetitlingStays
<1>4. ASSUME NEW d \in Courses, SuspendCourse(d)
      PROVE  TitleOf(c)' + Cardinality(Retitling(c)') <= edited'
  <2>1. PICK row \in CourseRows :
            SetCourse(d, row) /\ Created(d) /\ row.title = course[d].title
    BY <1>4, SuspendedStep
  <2>2. course'[d] = row /\ \A e \in Courses \ {d} : course'[e] = course[e]
    BY <1>0, <2>1, CourseTypes
  <2>3. TitleOf(c)' = TitleOf(c)
    BY <2>1, <2>2, CatalogueRowsAssumption DEF TitleOf, Created
  <2> QED
    BY <1>4, <2>3, SuspendedStep, TitlesRest
<1>5. ASSUME NEW key \in Keys, Expire(key)
      PROVE  TitleOf(c)' + Cardinality(Retitling(c)') <= edited'
  BY <1>5, <1>c, TitlesRest DEF Expire, catalogueRows
<1>6. ASSUME NEW d \in Courses, Surrounds(d)
      PROVE  TitleOf(c)' + Cardinality(Retitling(c)') <= edited'
  BY <1>6, <1>c, SurroundedStep, TitlesRest
<1> QED
  BY <1>1, <1>2, <1>3, <1>4, <1>5, <1>6, CatalogueActions

-----------------------------------------------------------------------------
(* What strangers are shown *)

LEMMA ApprovedGrows ==
    ASSUME CatalogueInv, CatalogueNext
    PROVE  approved \subseteq approved'
<1>1. ASSUME NEW x \in Handlers, Asks(x) PROVE approved \subseteq approved'
  BY <1>1, AskedStep
<1>2. ASSUME NEW x \in Handlers, Writes(x) PROVE approved \subseteq approved'
  BY <1>2, WrittenStep
<1>3. ASSUME NEW x \in Handlers, Settles(x) PROVE approved \subseteq approved'
  BY <1>3 DEF Settles, InsertEnrollment, EditCategory, UpdateSetting, Invalidate, StoreEntry,
        DieInRequest, catalogueHistory
<1>4. ASSUME NEW c \in Courses, SuspendCourse(c) PROVE approved \subseteq approved'
  BY <1>4, SuspendedStep
<1>5. ASSUME NEW key \in Keys, Expire(key) PROVE approved \subseteq approved'
  BY <1>5 DEF Expire
<1>6. ASSUME NEW c \in Courses, Surrounds(c) PROVE approved \subseteq approved'
  BY <1>6, SurroundedStep
<1> QED
  BY <1>1, <1>2, <1>3, <1>4, <1>5, <1>6, CatalogueActions

LEMMA FitsStill ==
    ASSUME NEW known, NEW more, known \subseteq more, NEW key, NEW value, EntryFits(key, value, known)
    PROVE  EntryFits(key, value, more)
BY DEF EntryFits

LEMMA ReadersStill ==
    ASSUME CatalogueInv, NEW x \in Handlers, approved \subseteq approved',
           \A y \in Handlers \ {x} : handler'[y] = handler[y],
           Reached(x, "store")' => EntryFits(handler'[x].key, handler'[x].value, approved)
    PROVE  ReadersFit'
<1> SUFFICES ASSUME NEW y \in Handlers, Reached(y, "store")'
             PROVE  EntryFits(handler'[y].key, handler'[y].value, approved')
  BY DEF ReadersFit
<1>1. EntryFits(handler'[y].key, handler'[y].value, approved)
  BY DEF CatalogueInv, ReadersFit, Reached
<1> QED
  BY <1>1, FitsStill

LEMMA EntriesStill ==
    ASSUME CatalogueInv, approved \subseteq approved',
           \A key \in Keys : cache'[key] \in {cache[key], NoEntry} \/ EntryFits(key, cache'[key], approved)
    PROVE  EntriesFit'
<1> SUFFICES ASSUME NEW key \in Keys, cache'[key] # NoEntry
             PROVE  EntryFits(key, cache'[key], approved')
  BY DEF EntriesFit
<1>1. EntryFits(key, cache'[key], approved)
  BY DEF CatalogueInv, EntriesFit
<1> QED
  BY <1>1, FitsStill

LEMMA PublishedStill ==
    ASSUME CatalogueInv, approved \subseteq approved',
           NEW c \in Courses, NEW row \in CourseRows \cup {NoCourse}, SetCourse(c, row),
           row \in CourseRows /\ row.isPublished =>
               c \in approved' \/ (Created(c) /\ course[c].isPublished)
    PROVE  PublishedWasApproved'
<1> SUFFICES ASSUME NEW d \in Courses, Created(d)', course'[d].isPublished
             PROVE  d \in approved'
  BY DEF PublishedWasApproved
<1>1. course'[c] = row /\ \A e \in Courses \ {c} : course'[e] = course[e]
  BY CourseTypes DEF CatalogueInv
<1>2. CASE d # c
  BY <1>1, <1>2 DEF Created, CatalogueInv, PublishedWasApproved
<1>3. CASE d = c
  BY <1>1, <1>3 DEF Created, CatalogueInv, PublishedWasApproved
<1> QED
  BY <1>2, <1>3

LEMMA ShownStep ==
    ASSUME CatalogueInv, CatalogueNext
    PROVE  PublishedWasApproved' /\ EntriesFit' /\ ReadersFit'
<1>0. CatalogueRowsOK /\ approved \subseteq approved'
  BY ApprovedGrows DEF CatalogueInv
<1>a. UNCHANGED course => PublishedWasApproved'
  BY <1>0 DEF PublishedWasApproved, Created, CatalogueInv
<1>b. UNCHANGED cache => EntriesFit'
  BY <1>0, EntriesStill
<1>1. ASSUME NEW x \in Handlers, Asks(x)
      PROVE  PublishedWasApproved' /\ EntriesFit' /\ ReadersFit'
  <2>1. PICK r \in HandlerRows : Proceed(x, r) /\ (r.at = "store" => EntryFits(r.key, r.value, approved))
    BY <1>1, AskedStep
  <2>2. handler'[x] = r /\ \A y \in Handlers \ {x} : handler'[y] = handler[y]
    BY <1>0, <2>1, ProceedTypes
  <2>3. ReadersFit'
    BY <1>0, <2>1, <2>2, ReadersStill DEF Reached
  <2> QED
    BY <1>1, <1>a, <1>b, <2>3, AskedStep
<1>2. ASSUME NEW x \in Handlers, Writes(x)
      PROVE  PublishedWasApproved' /\ EntriesFit' /\ ReadersFit'
  <2>1. PICK c \in Courses : CourseWritten(x, c)
    BY <1>2, WrittenStep
  <2>2. KeysOf(c) \in SUBSET Keys
    BY KindsOfKeys
  <2>3. (\A y \in Handlers \ {x} : handler'[y] = handler[y]) /\ ~Reached(x, "store")'
    BY <1>0, <2>1, <2>2, AnswerTypes DEF CourseWritten
  <2>4. ReadersFit'
    BY <1>0, <2>3, ReadersStill
  <2>5. PublishedWasApproved'
    BY <1>0, <1>a, <2>1, PublishedStill, CatalogueRowsAssumption DEF CourseWritten, Inserts, Rewrites
  <2> QED
    BY <1>2, <1>b, <2>4, <2>5, WrittenStep
<1>3. ASSUME NEW x \in Handlers, Settles(x)
      PROVE  PublishedWasApproved' /\ EntriesFit' /\ ReadersFit'
  <2>1. course' = course
    BY <1>3 DEF Settles, InsertEnrollment, EditCategory, UpdateSetting, Invalidate, StoreEntry,
          DieInRequest, catalogueRows
  <2>2. \E keys \in SUBSET Keys : Answer(x) \/ Invalidating(x, keys)
    <3>1. {<<"categories">>} \in SUBSET Keys /\ {<<"settings">>} \in SUBSET Keys
      BY DEF Keys
    <3> QED
      BY <1>3, <3>1 DEF Settles, InsertEnrollment, EditCategory, UpdateSetting, Invalidate,
            StoreEntry, DieInRequest
  <2>3. (\A y \in Handlers \ {x} : handler'[y] = handler[y]) /\ ~Reached(x, "store")'
    BY <1>0, <2>2, AnswerTypes
  <2>4. \A key \in Keys : cache'[key] \in {cache[key], NoEntry} \/ EntryFits(key, cache'[key], approved)
    <3>1. CASE Invalidate(x)
      BY <3>1 DEF Invalidate
    <3>2. CASE StoreEntry(x)
      <4>1. handler[x].key \in Keys /\ EntryFits(handler[x].key, handler[x].value, approved)
        BY <1>0, <3>2, HandlerFields DEF StoreEntry, CatalogueInv, ReadersFit
      <4>2. cache' = [cache EXCEPT ![handler[x].key] = handler[x].value]
        BY <3>2 DEF StoreEntry
      <4>3. cache \in [Keys -> Entries \cup {NoEntry}]
        BY <1>0 DEF CatalogueRowsOK
      <4> QED
        BY ONLY <4>1, <4>2, <4>3
    <3>3. CASE UNCHANGED cache
      BY <3>3
    <3> QED
      BY <1>3, <3>1, <3>2, <3>3 DEF Settles, InsertEnrollment, EditCategory, UpdateSetting,
            DieInRequest
  <2> QED
    BY <1>0, <1>a, <2>1, <2>3, <2>4, ReadersStill, EntriesStill
<1>4. ASSUME NEW c \in Courses, SuspendCourse(c)
      PROVE  PublishedWasApproved' /\ EntriesFit' /\ ReadersFit'
  <2>1. UNCHANGED <<handler, cache>>
    BY <1>4, SuspendedStep
  <2>2. ReadersFit'
    BY <1>0, <2>1, FitsStill DEF ReadersFit, Reached, CatalogueInv
  <2>3. PublishedWasApproved'
    BY <1>0, <1>4, SuspendedStep, PublishedStill
  <2> QED
    BY <1>b, <2>1, <2>2, <2>3
<1>5. ASSUME NEW key \in Keys, Expire(key)
      PROVE  PublishedWasApproved' /\ EntriesFit' /\ ReadersFit'
  <2>1. UNCHANGED <<handler, course>>
    BY <1>5 DEF Expire, catalogueRows
  <2>2. ReadersFit'
    BY <1>0, <2>1, FitsStill DEF ReadersFit, Reached, CatalogueInv
  <2>3. \A k \in Keys : cache'[k] \in {cache[k], NoEntry}
    BY <1>0, <1>5 DEF Expire, CatalogueRowsOK
  <2> QED
    BY <1>0, <1>a, <2>1, <2>2, <2>3, EntriesStill
<1>6. ASSUME NEW c \in Courses, Surrounds(c)
      PROVE  PublishedWasApproved' /\ EntriesFit' /\ ReadersFit'
  <2>1. UNCHANGED <<course, cache, handler>>
    BY <1>6, SurroundedStep
  <2>2. ReadersFit'
    BY <1>0, <2>1, FitsStill DEF ReadersFit, Reached, CatalogueInv
  <2> QED
    BY <1>a, <1>b, <2>1, <2>2
<1> QED
  BY <1>1, <1>2, <1>3, <1>4, <1>5, <1>6, CatalogueActions

-----------------------------------------------------------------------------
(* What may be stale *)

Deleting(key) == \E x \in Handlers : Reached(x, "invalidate") /\ key \in handler[x].keys
Fresh(key) == cache[key] = NoEntry \/ cache[key] = View(key) \/ key \in doubt \/ Deleting(key)

LEMMA FreshKeys == FreshUnlessExcused <=> \A key \in Keys \ {<<"featured">>} : Fresh(key)
BY DEF FreshUnlessExcused, Fresh, Deleting

LEMMA FreshKeysAfter ==
    (FreshUnlessExcused <=> \A key \in Keys \ {<<"featured">>} : Fresh(key))'
BY FreshKeys, PTL

LEMMA StillFresh ==
    ASSUME NEW key, Fresh(key), cache'[key] = cache[key], View(key)' = View(key),
           key \in doubt => key \in doubt', Deleting(key) => Deleting(key)'
    PROVE  Fresh(key)'
BY DEF Fresh

LEMMA DeletingStill ==
    ASSUME NEW x \in Handlers, ~Reached(x, "invalidate"), NEW key, Deleting(key),
           \A y \in Handlers \ {x} : handler'[y] = handler[y]
    PROVE  Deleting(key)'
BY DEF Deleting, Reached

LEMMA FreshStep ==
    ASSUME CatalogueInv, CatalogueNext
    PROVE  FreshUnlessExcused'
<1> SUFFICES ASSUME NEW key \in Keys \ {<<"featured">>}
             PROVE  Fresh(key)'
  BY FreshKeysAfter
<1>0. CatalogueRowsOK /\ Fresh(key)
  BY FreshKeys DEF CatalogueInv
<1>1. ASSUME NEW x \in Handlers, Asks(x)
      PROVE  Fresh(key)'
  <2>1. PICK r \in HandlerRows : Proceed(x, r)
    BY <1>1, AskedStep
  <2>2. \A y \in Handlers \ {x} : handler'[y] = handler[y]
    BY <1>0, <2>1, ProceedTypes
  <2>3. /\ ~Reached(x, "invalidate")
        /\ UNCHANGED <<course, category, setting, contents, figures, cache, doubt>>
    BY <1>1, AskedStep DEF around
  <2>4. View(key)' = View(key)
    BY <2>3, ViewsRest
  <2>5. Deleting(key) => Deleting(key)'
    BY <2>2, <2>3, DeletingStill
  <2> QED
    BY <1>0, <2>3, <2>4, <2>5, StillFresh
<1>2. ASSUME NEW x \in Handlers, Writes(x)
      PROVE  Fresh(key)'
  <2>1. PICK c \in Courses : CourseWritten(x, c)
    BY <1>2, WrittenStep
  <2>2. KeysOf(c) \in SUBSET Keys
    BY KindsOfKeys
  <2>3. /\ \A y \in Handlers \ {x} : handler'[y] = handler[y]
        /\ Invalidating(x, KeysOf(c)) => Reached(x, "invalidate")' /\ handler'[x].keys = KeysOf(c)
    BY <1>0, <2>1, <2>2, AnswerTypes DEF CourseWritten
  <2>4. ~Reached(x, "invalidate") /\ UNCHANGED <<category, setting, contents, figures, cache>>
    BY <1>2, WrittenStep DEF around
  <2>5. Deleting(key) => Deleting(key)'
    BY <2>3, <2>4, DeletingStill
  <2>6. doubt \subseteq doubt'
    BY <2>1 DEF CourseWritten
  <2>7. CASE View(key)' = View(key)
    BY <1>0, <2>4, <2>5, <2>6, <2>7, StillFresh
  <2>8. CASE UNCHANGED course
    BY <2>4, <2>7, <2>8, ViewsRest
  <2>9. ASSUME NEW row, Inserts(x, c, row), key # <<"categories">>
        PROVE  Fresh(key)'
    BY <1>0, <2>4, <2>7, <2>9, HiddenCourse DEF Inserts
  <2>10. ASSUME NEW row, Rewrites(x, c, row), key \notin KeysOf(c)
         PROVE  Fresh(key)'
    <3>1. \A k : CoursesOf(k)' = CoursesOf(k)
      BY <1>0, <2>10, ShelvesStay DEF Rewrites
    <3> QED
      BY <1>0, <2>4, <2>7, <2>10, <3>1, ViewsOfOthers DEF Rewrites
  <2>11. ASSUME SetCourse(c, NoCourse), key \notin KeysOf(c), key # <<"categories">>
         PROVE  Fresh(key)'
    BY <1>0, <2>4, <2>7, <2>11, ViewsOfOthers
  <2>12. CASE key \in KeysOf(c) /\ (Invalidating(x, KeysOf(c)) \/ doubt' = doubt \cup KeysOf(c))
    BY <2>3, <2>12 DEF Fresh, Deleting
  <2>13. CASE key \in doubt'
    BY <2>13 DEF Fresh
  <2> QED
    BY <2>1, <2>8, <2>9, <2>10, <2>11, <2>12, <2>13 DEF CourseWritten
<1>3. ASSUME NEW x \in Handlers, InsertEnrollment(x) \/ (DieInRequest(x) /\ ~Reached(x, "invalidate"))
      PROVE  Fresh(key)'
  <2>1. \A y \in Handlers \ {x} : handler'[y] = handler[y]
    BY <1>0, <1>3, KindsOfKeys, AnswerTypes DEF InsertEnrollment, DieInRequest
  <2>2. ~Reached(x, "invalidate") /\ UNCHANGED <<course, category, setting, cache>>
    BY <1>3 DEF InsertEnrollment, DieInRequest, Reached, catalogueRows
  <2>3. Deleting(key) => Deleting(key)'
    BY <2>1, <2>2, DeletingStill
  <2>4. CASE UNCHANGED <<contents, figures, doubt>>
    <3>1. View(key)' = View(key)
      BY <2>2, <2>4, ViewsRest
    <3> QED
      BY <1>0, <2>2, <2>3, <2>4, <3>1, StillFresh
  <2>5. CASE InsertEnrollment(x) /\ Reshow({handler[x].course})
    <3>1. {handler[x].course} \in SUBSET Courses
      BY <1>0, <2>5, HandlerFields DEF InsertEnrollment
    <3>2. (View(key)' = View(key) \/ key \in doubt') /\ doubt \subseteq doubt'
      BY <1>0, <2>2, <2>5, <3>1, ReshownViews, ReshownTypes
    <3> QED
      BY <1>0, <2>2, <2>3, <3>2, StillFresh DEF Fresh
  <2> QED
    BY <1>3, <2>4, <2>5 DEF InsertEnrollment, DieInRequest, catalogueRows, around
<1>4. ASSUME NEW x \in Handlers, NEW own \in {<<"categories">>, <<"settings">>},
             Free(x), Invalidating(x, {own}), UNCHANGED <<course, cache>>, doubt \subseteq doubt',
             key # own => View(key)' = View(key) \/ key \in doubt',
             own = <<"categories">> => UNCHANGED setting,
             own = <<"settings">> => UNCHANGED category
      PROVE  Fresh(key)'
  <2>1. {own} \in SUBSET Keys
    BY <1>4 DEF Keys
  <2>2. /\ \A y \in Handlers \ {x} : handler'[y] = handler[y]
        /\ Reached(x, "invalidate")' /\ handler'[x].keys = {own}
    BY <1>0, <1>4, <2>1, AnswerTypes
  <2>3. ~Reached(x, "invalidate")
    BY <1>4 DEF Free, Reached, NoHandler
  <2>4. CASE key = own
    BY <2>2, <2>4 DEF Fresh, Deleting
  <2>5. CASE key # own
    <3>1. Deleting(key) => Deleting(key)'
      BY <2>2, <2>3, DeletingStill
    <3> QED
      BY <1>0, <1>4, <2>5, <3>1, StillFresh DEF Fresh
  <2> QED
    BY <2>4, <2>5
<1>5. ASSUME NEW x \in Handlers,
             \/ \E k \in Categories, state \in {"absent", "active", "inactive"} : EditCategory(x, k, state)
             \/ UpdateSetting(x)
      PROVE  Fresh(key)'
  <2>1. CASE UpdateSetting(x)
    <3>1. key # <<"settings">> => View(key)' = View(key)
      BY <2>1, ViewsShown DEF UpdateSetting, around
    <3> QED
      BY <1>4, <2>1, <3>1 DEF UpdateSetting, catalogueHistory
  <2>2. ASSUME NEW k \in Categories, NEW state, EditCategory(x, k, state)
        PROVE  Fresh(key)'
    <3>1. CoursesOf(k) \in SUBSET Courses /\ Reshow(CoursesOf(k))
      BY <2>2 DEF EditCategory, CoursesOf
    <3>2. doubt \subseteq doubt' /\ UNCHANGED <<course, setting, cache>>
      BY <1>0, <2>2, <3>1, ReshownTypes DEF EditCategory
    <3>3. key # <<"categories">> => View(key)' = View(key) \/ key \in doubt'
      BY <1>0, <3>1, <3>2, ReshownViews
    <3> QED
      BY <1>4, <2>2, <3>2, <3>3 DEF EditCategory
  <2> QED
    BY <1>5, <2>1, <2>2
<1>6. ASSUME NEW x \in Handlers, Invalidate(x) \/ (DieInRequest(x) /\ Reached(x, "invalidate"))
      PROVE  Fresh(key)'
  <2>1. \A y \in Handlers \ {x} : handler'[y] = handler[y]
    BY <1>0, <1>6, KindsOfKeys, AnswerTypes DEF Invalidate, DieInRequest
  <2>2. UNCHANGED <<course, category, setting, contents, figures>>
    BY <1>6 DEF Invalidate, DieInRequest, catalogueRows, around
  <2>3. View(key)' = View(key)
    BY <2>2, ViewsRest
  <2>4. CASE key \in handler[x].keys
    <3>1. cache'[key] = NoEntry \/ key \in doubt'
      BY <1>6, <2>4 DEF Invalidate, DieInRequest
    <3> QED
      BY <3>1 DEF Fresh
  <2>5. CASE key \notin handler[x].keys
    <3>1. Deleting(key) => Deleting(key)'
      BY <2>1, <2>5 DEF Deleting, Reached
    <3>2. cache'[key] = cache[key] /\ (key \in doubt => key \in doubt')
      BY <1>6, <2>5 DEF Invalidate, DieInRequest
    <3> QED
      BY <1>0, <2>3, <3>1, <3>2, StillFresh
  <2> QED
    BY <2>4, <2>5
<1>7. ASSUME NEW x \in Handlers, StoreEntry(x)
      PROVE  Fresh(key)'
  <2>1. \A y \in Handlers \ {x} : handler'[y] = handler[y]
    BY <1>0, <1>7, KindsOfKeys, AnswerTypes DEF StoreEntry
  <2>2. UNCHANGED <<course, category, setting, contents, figures>> /\ ~Reached(x, "invalidate")
    BY <1>7 DEF StoreEntry, Reached, catalogueRows, around
  <2>3. View(key)' = View(key)
    BY <2>2, ViewsRest
  <2>4. /\ cache' = [cache EXCEPT ![handler[x].key] = handler[x].value]
        /\ doubt' = IF handler[x].value = View(handler[x].key) THEN doubt \ {handler[x].key}
                    ELSE doubt \cup {handler[x].key}
    BY <1>7 DEF StoreEntry
  <2>5. CASE key = handler[x].key
    <3>1. cache'[key] = handler[x].value
      BY <1>0, <2>4, <2>5 DEF CatalogueRowsOK
    <3> QED
      BY <2>3, <2>4, <2>5, <3>1 DEF Fresh
  <2>6. CASE key # handler[x].key
    <3>1. Deleting(key) => Deleting(key)'
      BY <2>1, <2>2, DeletingStill
    <3>2. cache'[key] = cache[key] /\ (key \in doubt => key \in doubt')
      BY <1>0, <2>4, <2>6 DEF CatalogueRowsOK
    <3> QED
      BY <1>0, <2>3, <3>1, <3>2, StillFresh
  <2> QED
    BY <2>5, <2>6
<1>8. ASSUME NEW c \in Courses, SuspendCourse(c)
      PROVE  Fresh(key)'
  <2>1. PICK row \in CourseRows :
            SetCourse(c, row) /\ Created(c) /\ row.category = course[c].category
    BY <1>8, SuspendedStep
  <2>2. /\ doubt' = doubt \cup KeysOf(c)
        /\ UNCHANGED <<category, setting, contents, figures, cache, handler>>
    BY <1>8, SuspendedStep DEF around
  <2>3. CASE key \in KeysOf(c)
    BY <2>2, <2>3 DEF Fresh
  <2>4. CASE key \notin KeysOf(c)
    <3>1. View(key)' = View(key)
      BY <1>0, <2>1, <2>2, <2>4, ShelvesStay, ViewsOfOthers
    <3>2. Deleting(key) => Deleting(key)'
      BY <2>2 DEF Deleting, Reached
    <3> QED
      BY <1>0, <2>2, <3>1, <3>2, StillFresh
  <2> QED
    BY <2>3, <2>4
<1>9. ASSUME NEW k \in Keys, Expire(k)
      PROVE  Fresh(key)'
  <2>1. UNCHANGED <<course, category, setting, contents, figures, handler>>
    BY <1>9 DEF Expire, catalogueRows, around
  <2>2. View(key)' = View(key)
    BY <2>1, ViewsRest
  <2>3. Deleting(key) => Deleting(key)'
    BY <2>1 DEF Deleting, Reached
  <2>4. cache' = [cache EXCEPT ![k] = NoEntry] /\ doubt' = doubt \ {k}
    BY <1>9 DEF Expire
  <2>5. CASE key = k
    <3>1. cache'[key] = NoEntry
      BY <1>0, <2>4, <2>5 DEF CatalogueRowsOK
    <3> QED
      BY <3>1 DEF Fresh
  <2>6. CASE key # k
    <3>1. cache'[key] = cache[key] /\ (key \in doubt => key \in doubt')
      BY <1>0, <2>4, <2>6 DEF CatalogueRowsOK
    <3> QED
      BY <1>0, <2>2, <2>3, <3>1, StillFresh
  <2> QED
    BY <2>5, <2>6
<1>10. ASSUME NEW c \in Courses, Surrounds(c)
       PROVE  Fresh(key)'
  <2>1. /\ UNCHANGED <<cache, handler>> /\ doubt \subseteq doubt'
        /\ View(key)' = View(key) \/ key \in doubt'
    BY <1>10, SurroundedStep
  <2>2. Deleting(key) => Deleting(key)'
    BY <2>1 DEF Deleting, Reached
  <2> QED
    BY <1>0, <2>1, <2>2, StillFresh DEF Fresh
<1> QED
  BY <1>1, <1>2, <1>3, <1>5, <1>6, <1>7, <1>8, <1>9, <1>10, CatalogueActions DEF Settles

-----------------------------------------------------------------------------
(* Students *)

LEMMA StudentsStep ==
    ASSUME CatalogueInv, CatalogueNext
    PROVE  /\ StudentsKeepCourse' /\ RemovalsAreLate'
           /\ \A c \in students : Created(c) /\ ~course[c].deleted =>
                  ~course'[c].deleted \/ c \in late
<1> DEFINE Stays ==
        /\ \A c \in enrolled : Created(c)'
        /\ \A c \in students : Created(c) /\ ~course[c].deleted => ~course'[c].deleted \/ c \in late
<1>0. /\ CatalogueRowsOK /\ students \subseteq enrolled /\ enrolled \subseteq Courses
      /\ \A c \in enrolled : Created(c)
      /\ RemovalsAreLate
  BY DEF CatalogueInv, CatalogueRowsOK, StudentsKeepCourse
<1>a. UNCHANGED course => Stays
  BY <1>0 DEF Created
<1>b. ASSUME NEW x \in Handlers, students' \subseteq students, late \subseteq late',
             \A y \in Handlers \ {x} : handler'[y] = handler[y],
             Reached(x, "remove")' => handler'[x].course \notin students
      PROVE  RemovalsAreLate'
  BY <1>0, <1>b DEF RemovalsAreLate, Reached
<1>1. ASSUME NEW x \in Handlers, Asks(x)
      PROVE  Stays /\ StudentsKeepCourse' /\ RemovalsAreLate'
  <2>1. PICK r \in HandlerRows :
            Proceed(x, r) /\ (r.at = "remove" => r.course \notin students)
    BY <1>1, AskedStep
  <2>2. handler'[x] = r /\ \A y \in Handlers \ {x} : handler'[y] = handler[y]
    BY <1>0, <2>1, ProceedTypes
  <2>3. UNCHANGED <<course, students, enrolled, late>>
    BY <1>1, AskedStep DEF around
  <2> QED
    BY <1>0, <1>a, <1>b, <2>1, <2>2, <2>3 DEF Reached, StudentsKeepCourse, Created
<1>2. ASSUME NEW x \in Handlers, Writes(x)
      PROVE  Stays /\ StudentsKeepCourse' /\ RemovalsAreLate'
  <2>1. PICK c \in Courses : handler[x].course = c /\ CourseWritten(x, c)
    BY <1>2, WrittenStep
  <2>2. KeysOf(c) \in SUBSET Keys
    BY KindsOfKeys
  <2>3. /\ \A y \in Handlers \ {x} : handler'[y] = handler[y]
        /\ ~Reached(x, "remove")'
    BY <1>0, <2>1, <2>2, AnswerTypes DEF CourseWritten
  <2>4. UNCHANGED <<students, enrolled, late>>
    BY <1>2, WrittenStep DEF around
  <2>5. RemovalsAreLate'
    BY <1>b, <2>3, <2>4
  <2>6. Stays
    <3>1. ASSUME NEW row, Inserts(x, c, row)
          PROVE  Stays
      <4>1. course'[c] = row /\ \A d \in Courses \ {c} : course'[d] = course[d]
        BY <1>0, <3>1, CourseTypes DEF Inserts
      <4>2. c \notin enrolled
        BY <1>0, <3>1 DEF Inserts
      <4> QED
        BY <1>0, <4>1, <4>2 DEF Created
    <3>2. ASSUME NEW row, Rewrites(x, c, row)
          PROVE  Stays
      <4>1. course'[c] = row /\ \A d \in Courses \ {c} : course'[d] = course[d]
        BY <1>0, <3>2, CourseTypes DEF Rewrites
      <4>2. Created(c)' /\ (row.deleted => course[c].deleted \/ Reached(x, "remove"))
        BY <3>2, <4>1, CatalogueRowsAssumption DEF Rewrites, Created
      <4>3. Reached(x, "remove") /\ c \in students => c \in late
        BY <1>0, <2>1 DEF RemovalsAreLate
      <4>4. ASSUME NEW d \in enrolled
            PROVE  /\ Created(d)'
                   /\ d \in students /\ Created(d) /\ ~course[d].deleted => ~course'[d].deleted \/ d \in late
        <5>1. CASE d = c
          BY <4>1, <4>2, <4>3, <5>1
        <5>2. CASE d # c
          BY <1>0, <4>1, <5>2 DEF Created
        <5> QED
          BY <5>1, <5>2
      <4> QED
        BY <1>0, <4>4
    <3>3. CASE c \notin enrolled /\ SetCourse(c, NoCourse)
      <4>1. \A d \in Courses \ {c} : course'[d] = course[d]
        BY <1>0, <3>3, CourseTypes
      <4> QED
        BY <1>0, <3>3, <4>1 DEF Created
    <3> QED
      BY <1>a, <2>1, <3>1, <3>2, <3>3 DEF CourseWritten
  <2>7. StudentsKeepCourse'
    BY <2>4, <2>6 DEF StudentsKeepCourse
  <2> QED
    BY <2>5, <2>6, <2>7
<1>3. ASSUME NEW x \in Handlers, InsertEnrollment(x)
      PROVE  Stays /\ StudentsKeepCourse' /\ RemovalsAreLate'
  <2> DEFINE c == handler[x].course
  <2>1. c \in Courses
    BY <1>0, <1>3, HandlerFields DEF InsertEnrollment
  <2>2. /\ \/ UNCHANGED <<students, enrolled, late>>
           \/ /\ Created(c) /\ enrolled' = enrolled \cup {c} /\ students' = students \cup {c}
              /\ late \subseteq late'
              /\ (\E y \in Handlers : Reached(y, "remove") /\ handler[y].course = c) => c \in late'
        /\ UNCHANGED course
    BY <1>3 DEF InsertEnrollment, Admit, around
  <2>3. (\A y \in Handlers \ {x} : handler'[y] = handler[y]) /\ ~Reached(x, "remove")'
    BY <1>0, <1>3, KindsOfKeys, AnswerTypes DEF InsertEnrollment
  <2>4. RemovalsAreLate'
    <3> HIDE DEF c
    <3> QED
      BY <1>0, <2>2, <2>3 DEF RemovalsAreLate, Reached
  <2>5. StudentsKeepCourse'
    BY <1>0, <2>2 DEF StudentsKeepCourse, Created
  <2> QED
    BY <1>a, <2>2, <2>4, <2>5
<1>4. ASSUME NEW x \in Handlers, Settles(x), ~InsertEnrollment(x)
      PROVE  Stays /\ StudentsKeepCourse' /\ RemovalsAreLate'
  <2>1. UNCHANGED <<course, students, enrolled, late>>
    BY <1>4 DEF Settles, EditCategory, UpdateSetting, Invalidate, StoreEntry,
          DieInRequest, catalogueRows, catalogueHistory, around
  <2>2. \E keys \in SUBSET Keys : Answer(x) \/ Invalidating(x, keys)
    <3>1. {<<"categories">>} \in SUBSET Keys /\ {<<"settings">>} \in SUBSET Keys
      BY DEF Keys
    <3> QED
      BY <1>4, <3>1 DEF Settles, EditCategory, UpdateSetting, Invalidate, StoreEntry, DieInRequest
  <2>3. (\A y \in Handlers \ {x} : handler'[y] = handler[y]) /\ ~Reached(x, "remove")'
    BY <1>0, <2>2, AnswerTypes
  <2> QED
    BY <1>0, <1>a, <1>b, <2>1, <2>3 DEF StudentsKeepCourse, Created
<1>5. ASSUME NEW c \in Courses, SuspendCourse(c)
      PROVE  Stays /\ StudentsKeepCourse' /\ RemovalsAreLate'
  <2>1. PICK row \in CourseRows :
            SetCourse(c, row) /\ Created(c) /\ row.deleted = course[c].deleted
    BY <1>5, SuspendedStep
  <2>2. UNCHANGED <<students, enrolled, late, handler>>
    BY <1>5, SuspendedStep DEF around
  <2>3. course'[c] = row /\ \A d \in Courses \ {c} : course'[d] = course[d]
    BY <1>0, <2>1, CourseTypes
  <2>4. Stays
    BY <1>0, <2>1, <2>3, CatalogueRowsAssumption DEF Created
  <2> QED
    BY <1>0, <2>2, <2>4 DEF StudentsKeepCourse, RemovalsAreLate, Reached
<1>6. ASSUME NEW key \in Keys, Expire(key)
      PROVE  Stays /\ StudentsKeepCourse' /\ RemovalsAreLate'
  <2>1. UNCHANGED <<course, students, enrolled, late, handler>>
    BY <1>6 DEF Expire, catalogueRows, around
  <2> QED
    BY <1>0, <1>a, <2>1 DEF StudentsKeepCourse, RemovalsAreLate, Reached, Created
<1>7. ASSUME NEW c \in Courses, Surrounds(c)
      PROVE  Stays /\ StudentsKeepCourse' /\ RemovalsAreLate'
  <2>1. /\ UNCHANGED <<course, enrolled, handler>> /\ late \subseteq late'
        /\ students' \subseteq students \/ Admit(c)
    BY <1>7, SurroundedStep
  <2>2. RemovalsAreLate'
    BY <1>0, <2>1 DEF RemovalsAreLate, Reached, Admit
  <2> QED
    BY <1>0, <1>a, <2>1, <2>2 DEF StudentsKeepCourse, Created
<1>8. Stays /\ StudentsKeepCourse' /\ RemovalsAreLate'
  <2> HIDE DEF Stays
  <2> QED
    BY <1>1, <1>2, <1>3, <1>4, <1>5, <1>6, <1>7, CatalogueActions
<1> QED
  BY <1>8

-----------------------------------------------------------------------------

(* The invariant, and what follows from it *)

LEMMA CatalogueInitially == CatalogueInit => CatalogueInv
<1> SUFFICES ASSUME CatalogueInit PROVE CatalogueInv
  OBVIOUS
<1>1. CatalogueRowsOK
  BY RecordsOfHandlers, CatalogueAssumption DEF CatalogueInit, CatalogueRowsOK
<1>2. \A x \in Handlers : \A stage \in {"update", "store", "remove"} : ~Reached(x, stage)
  BY DEF CatalogueInit, Reached, NoHandler
<1>3. TitlesAreCounted
  <2>1. ASSUME NEW c \in Courses
        PROVE  TitleOf(c) + Cardinality(Retitling(c)) <= edited
    <3>1. Retitling(c) = {}
      BY <1>2 DEF Retitling
    <3>2. TitleOf(c) = 0 /\ edited = 0
      BY DEF CatalogueInit, TitleOf, Created
    <3> QED
      BY <3>1, <3>2, FS_EmptySet
  <2> QED
    BY <2>1 DEF TitlesAreCounted
<1>4. PublishedWasApproved /\ EntriesFit /\ ReadersFit
  BY <1>2 DEF CatalogueInit, PublishedWasApproved, EntriesFit, ReadersFit, Created
<1>5. FreshUnlessExcused
  BY DEF CatalogueInit, FreshUnlessExcused
<1>6. StudentsKeepCourse /\ RemovalsAreLate
  BY <1>2 DEF CatalogueInit, StudentsKeepCourse, RemovalsAreLate
<1> QED
  BY <1>1, <1>3, <1>4, <1>5, <1>6 DEF CatalogueInv

LEMMA CatalogueKeeps == CatalogueInv /\ [CatalogueNext]_catalogueVars => CatalogueInv'
<1> SUFFICES ASSUME CatalogueInv, [CatalogueNext]_catalogueVars
             PROVE  CatalogueInv'
  OBVIOUS
<1>1. CASE CatalogueNext
  BY <1>1, RowsStep, TitlesStep, ShownStep, FreshStep, StudentsStep DEF CatalogueInv
<1>2. CASE UNCHANGED catalogueVars
  <2> USE <1>2 DEF catalogueVars, catalogueRows, around, catalogueHistory
  <2>1. CatalogueRowsOK'
    BY DEF CatalogueInv, CatalogueRowsOK
  <2>2. TitlesAreCounted'
    BY DEF CatalogueInv, TitlesAreCounted, TitleOf, Created, Retitling, Reached
  <2>3. PublishedWasApproved' /\ EntriesFit' /\ ReadersFit'
    BY DEF CatalogueInv, PublishedWasApproved, EntriesFit, ReadersFit, Created, Reached, EntryFits
  <2>4. FreshUnlessExcused'
    <3>1. \A key : View(key)' = View(key)
      BY ViewsRest
    <3> QED
      BY <3>1 DEF CatalogueInv, FreshUnlessExcused, Reached
  <2>5. StudentsKeepCourse' /\ RemovalsAreLate'
    BY DEF CatalogueInv, StudentsKeepCourse, RemovalsAreLate, Created, Reached
  <2> QED
    BY <2>1, <2>2, <2>3, <2>4, <2>5 DEF CatalogueInv
<1> QED
  BY <1>1, <1>2

LEMMA CatalogueInvariance == CatalogueSpec => []CatalogueInv
  BY CatalogueInitially, CatalogueKeeps, PTL DEF CatalogueSpec

\* The rows, entries and requests of Catalogue keep their types, and a title
\* counts the edits of its course.
THEOREM CatalogueTypes == CatalogueSpec => []CatalogueTypeOK
<1>1. CatalogueInv => CatalogueTypeOK
  BY CatalogueImplies
<1> QED
  BY <1>1, CatalogueInvariance, PTL

\* Strangers are shown approved courses only, an entry is stale only for a
\* known reason, and who enrolled keeps the course.
THEOREM CatalogueSound == CatalogueSpec => CatalogueIsSound
<1>1. CatalogueInv => StrangersSeeApproved /\ FreshUnlessExcused /\ StudentsKeepCourse
  BY CatalogueImplies DEF CatalogueInv
<1>2. CatalogueInv /\ [CatalogueNext]_catalogueVars =>
          [\A c \in students : Created(c) /\ ~course[c].deleted =>
              ~course'[c].deleted \/ c \in late]_catalogueVars
  BY StudentsStep
<1> QED
  BY <1>1, <1>2, CatalogueInvariance, PTL DEF CatalogueSpec, CatalogueIsSound, RemovalSparesStudents
-----------------------------------------------------------------------------
(***************************************************************************)
(* Search                                                                  *)
(***************************************************************************)

(* Orders and their pages *)

LEMMA MatchesAreFinite ==
    ASSUME NEW f
    PROVE  IsFiniteSet(Matches(f)) /\ Cardinality(Matches(f)) \in Nat
BY SearchAssumption, FS_Subset, FS_CardinalityType DEF Matches

\* Every match has its place in an order.
LEMMA OrderFields ==
    ASSUME NEW f, NEW sort, NEW order \in Orders(f, sort)
    PROVE  /\ order \in [1..Cardinality(Matches(f)) -> Matches(f)]
           /\ DOMAIN order = 1..Cardinality(Matches(f))
           /\ Len(order) = Cardinality(Matches(f))
           /\ \A m, n \in 1..Cardinality(Matches(f)) : order[m] = order[n] => m = n
           /\ \A c \in Matches(f) : \E n \in 1..Cardinality(Matches(f)) : order[n] = c
<1> DEFINE M == Matches(f)
           N == Cardinality(M)
<1>1. IsFiniteSet(M) /\ N \in Nat
  BY MatchesAreFinite
<1>2. order \in Injection(1..N, M)
  BY DEF Orders
<1>3. Cardinality(1..N) = N
  BY <1>1, FS_Interval
<1> HIDE DEF M, N
<1>4. order \in Surjection(1..N, M)
  BY <1>1, <1>2, <1>3, FS_Injection DEF N
<1>5. order \in [1..N -> M] /\ IsInjective(order)
  BY <1>2 DEF Injection
<1>6. \A c \in M : \E n \in 1..N : order[n] = c
  BY <1>4 DEF Surjection
<1>7. order \in Seq(M) /\ Len(order) = N
  BY <1>1, <1>5
<1> QED
  BY <1>5, <1>6, <1>7 DEF IsInjective, M, N

LEMMA LesserOfTwo ==
    ASSUME NEW a \in Int, NEW b \in Int
    PROVE  Min({a, b}) = IF a <= b THEN a ELSE b
BY DEF Min

\* What is left of the total after those skipped, up to the limit.
Held(total, skip, limit) ==
    IF total <= skip THEN 0 ELSE IF total <= skip + limit THEN total - skip ELSE limit

\* A page holds the places after those it skips, as far as there are any.
LEMMA PageFields ==
    ASSUME NEW f, NEW sort, NEW order \in Orders(f, sort),
           NEW page \in Nat \ {0}, NEW limit \in Nat \ {0}
    PROVE  /\ Skip(page, limit) \in Nat
           /\ PageOf(order, page, limit) \in Seq(Matches(f))
           /\ Len(PageOf(order, page, limit)) =
                  Held(Cardinality(Matches(f)), Skip(page, limit), limit)
           /\ \A n \in 1..Len(PageOf(order, page, limit)) :
                  PageOf(order, page, limit)[n] = order[Skip(page, limit) + n]
<1> DEFINE M == Matches(f)
           N == Cardinality(M)
           skip == Skip(page, limit)
           last == IF skip + limit <= N THEN skip + limit ELSE N
<1>1. N \in Nat
  BY MatchesAreFinite
<1>2. skip \in Nat
  BY DEF Skip
<1>3. order \in [1..N -> M] /\ Len(order) = N
  BY OrderFields
<1> HIDE DEF M, N, skip
<1>4. last \in Nat /\ last <= N
  BY <1>1, <1>2
<1>5. PageOf(order, page, limit) = SubSeq(order, skip + 1, last)
  <2>1. skip + limit \in Int /\ N \in Int
    BY <1>1, <1>2
  <2>2. Min({skip + limit, N}) = last
    BY <2>1, LesserOfTwo
  <2> HIDE DEF last
  <2> QED
    BY <1>3, <2>2 DEF PageOf, skip
<1>6. \A i \in skip + 1 .. last : order[i] \in M
  BY <1>1, <1>2, <1>3, <1>4
<1> HIDE DEF last
<1>7. /\ SubSeq(order, skip + 1, last) \in Seq(M)
      /\ Len(SubSeq(order, skip + 1, last)) = IF skip + 1 <= last THEN last - (skip + 1) + 1 ELSE 0
      /\ \A i \in 1 .. last - (skip + 1) + 1 :
             SubSeq(order, skip + 1, last)[i] = order[skip + 1 + i - 1]
  BY <1>2, <1>4, <1>6, SubSeqProperties
<1>8. Len(PageOf(order, page, limit)) = IF skip < last THEN last - skip ELSE 0
  BY <1>2, <1>4, <1>5, <1>7
<1>9. \A n \in 1..Len(PageOf(order, page, limit)) : PageOf(order, page, limit)[n] = order[skip + n]
  <2> SUFFICES ASSUME NEW n \in 1..Len(PageOf(order, page, limit))
               PROVE  PageOf(order, page, limit)[n] = order[skip + n]
    OBVIOUS
  <2>1. n \in 1..last - (skip + 1) + 1 /\ skip + 1 + n - 1 = skip + n
    BY <1>2, <1>4, <1>8
  <2> QED
    BY <1>5, <1>7, <2>1
<1>10. Len(PageOf(order, page, limit)) =
           Held(N, skip, limit)
  BY <1>1, <1>2, <1>8 DEF last, Held
<1>11. PageOf(order, page, limit) \in Seq(M)
  BY <1>5, <1>7
<1> QED
  BY <1>2, <1>9, <1>10, <1>11 DEF M, N, skip

LEMMA Quotient ==
    ASSUME NEW a \in Nat, NEW b \in Nat \ {0}
    PROVE  /\ a \div b \in Nat
           /\ (a \div b) * b <= a
           /\ a < (a \div b) * b + b
<1> DEFINE q == a \div b
<1>1. q \in Nat /\ b * q <= a /\ a < b * (q + 1)
  OBVIOUS
<1> HIDE DEF q
<1>2. b * q = q * b /\ b * (q + 1) = q * b + b
  BY <1>1
<1>3. q \in Nat /\ q * b <= a /\ a < q * b + b
  BY <1>1, <1>2
<1> QED
  BY <1>3 DEF q

LEMMA PagesOfMatches ==
    ASSUME NEW total \in Nat, NEW limit \in Nat \ {0}, NEW n \in 1..total
    PROVE  \E p \in 1..LastPage(total, limit) :
               /\ Skip(p, limit) < n /\ n <= Skip(p, limit) + limit
               /\ \A o \in Nat \ {0} :
                      Skip(o, limit) < n /\ n <= Skip(o, limit) + limit => o = p
<1> DEFINE q == (n - 1) \div limit
           r == (total + limit - 1) \div limit
<1>1. q \in Nat /\ q * limit <= n - 1 /\ n - 1 < q * limit + limit
  BY Quotient
<1>2. r \in Nat /\ total + limit - 1 < r * limit + limit
  BY Quotient
<1>3. LastPage(total, limit) = r
  BY DEF LastPage
<1> HIDE DEF q, r
<1>4. q + 1 \in 1..r
  <2>1. q * limit < r * limit
    BY <1>1, <1>2
  <2>2. q < r
    BY <1>1, <1>2, <2>1
  <2> QED
    BY <1>1, <1>2, <2>2
<1>5. Skip(q + 1, limit) = q * limit
  BY <1>1 DEF Skip
<1>6. ASSUME NEW o \in Nat \ {0}, Skip(o, limit) < n, n <= Skip(o, limit) + limit
      PROVE  o = q + 1
  <2>1. (o - 1) * limit < q * limit + limit /\ q * limit < (o - 1) * limit + limit
    BY <1>1, <1>6 DEF Skip
  <2>2. o - 1 \in Nat
    OBVIOUS
  <2>3. ASSUME NEW x \in Nat, NEW y \in Nat, x * limit < y * limit + limit
        PROVE  x <= y
    <3>1. y * limit + limit = (y + 1) * limit
      OBVIOUS
    <3> QED
      BY <2>3, <3>1
  <2> QED
    BY <1>1, <2>1, <2>2, <2>3
<1> QED
  BY <1>1, <1>3, <1>4, <1>5, <1>6

(* Only one order *)

LEMMA OrdersAreFinite ==
    ASSUME NEW f, NEW sort
    PROVE  IsFiniteSet(Orders(f, sort))
<1> DEFINE M == Matches(f)
           N == Cardinality(M)
           places == SUBSET ((1..N) \X M)
           graph == [s \in Orders(f, sort) |-> {<<i, s[i]>> : i \in 1..N}]
<1>1. IsFiniteSet(M) /\ N \in Nat
  BY MatchesAreFinite
<1>2. IsFiniteSet(1..N)
  BY <1>1, FS_Interval
<1>3. IsFiniteSet(places)
  BY <1>1, <1>2, FS_Product, FS_SUBSET
<1>4. \A s \in Orders(f, sort) : s \in [1..N -> M]
  BY OrderFields
<1> HIDE DEF M, N
<1>5. graph \in [Orders(f, sort) -> places]
  <2>1. ASSUME NEW s \in Orders(f, sort)
        PROVE  {<<i, s[i]>> : i \in 1..N} \in places
    <3>1. \A i \in 1..N : s[i] \in M
      BY <1>4
    <3> QED
      BY <3>1
  <2> QED
    BY <2>1
<1>6. ASSUME NEW s \in Orders(f, sort), NEW t \in Orders(f, sort), graph[s] = graph[t]
      PROVE  s = t
  <2>1. {<<i, s[i]>> : i \in 1..N} = {<<i, t[i]>> : i \in 1..N}
    BY <1>6
  <2>2. ASSUME NEW i \in 1..N
        PROVE  s[i] = t[i]
    <3>1. <<i, s[i]>> \in {<<j, t[j]>> : j \in 1..N}
      BY <2>1
    <3> QED
      BY <3>1
  <2> QED
    <3>1. s \in [1..N -> M]
      BY <1>4, <1>6
    <3>2. t \in [1..N -> M]
      BY <1>4, <1>6
    <3> HIDE DEF graph, places
    <3>3. \A i \in 1..N : s[i] = t[i]
      BY <2>2
    <3> QED
      BY <1>1, <3>1, <3>2, <3>3
<1>7. graph \in Injection(Orders(f, sort), places)
  BY <1>5, <1>6 DEF Injection, IsInjective
<1> QED
  BY <1>3, <1>7, FS_Injection

\* If one order is all there is, each match is on one page of those there are.
LEMMA OneOrderCovers ==
    ASSUME NEW f, NEW sort, NEW limit \in Nat \ {0}, Cardinality(Orders(f, sort)) = 1,
           NEW c \in Matches(f)
    PROVE  LET all == 1..LastPage(Cardinality(Matches(f)), limit)
               found(p) == {Range(r.courses) : r \in Results(f, sort, p, limit)} IN
           Cardinality({p \in all : \E S \in found(p) : c \in S}) = 1
<1> DEFINE M == Matches(f)
           N == Cardinality(M)
           all == 1..LastPage(N, limit)
           found(p) == {Range(r.courses) : r \in Results(f, sort, p, limit)}
           On(p) == \E S \in found(p) : c \in S
<1>1. PICK order : Orders(f, sort) = {order}
  BY OrdersAreFinite, FS_Singleton
<1>2. order \in Orders(f, sort)
  BY <1>1
<1>3. /\ order \in [1..N -> M]
      /\ \A m, n \in 1..N : order[m] = order[n] => m = n
      /\ \A d \in M : \E n \in 1..N : order[n] = d
  BY <1>2, OrderFields
<1>4. PICK n \in 1..N : order[n] = c
  BY <1>3
<1>5. N \in Nat
  BY MatchesAreFinite
<1>6. PICK p \in all :
               /\ Skip(p, limit) < n /\ n <= Skip(p, limit) + limit
               /\ \A o \in Nat \ {0} :
                      Skip(o, limit) < n /\ n <= Skip(o, limit) + limit => o = p
  BY <1>4, <1>5, PagesOfMatches
<1>7. ASSUME NEW o \in Nat \ {0}
      PROVE  On(o) <=> c \in Range(PageOf(order, o, limit))
  <2>1. Results(f, sort, o, limit) =
            {[courses |-> PageOf(order, o, limit), total |-> N, pages |-> LastPage(N, limit)]}
    BY <1>1 DEF Results
  <2>2. found(o) = {Range(PageOf(order, o, limit))}
    BY <2>1
  <2> QED
    BY <2>2
<1>8. ASSUME NEW o \in Nat \ {0}
      PROVE  c \in Range(PageOf(order, o, limit))
                 <=> Skip(o, limit) < n /\ n <= Skip(o, limit) + limit
  <2> DEFINE shown == PageOf(order, o, limit)
             skip == Skip(o, limit)
  <2>1. /\ skip \in Nat /\ shown \in Seq(M)
        /\ Len(shown) = Held(N, skip, limit)
        /\ \A k \in 1..Len(shown) : shown[k] = order[skip + k]
    BY <1>2, PageFields
  <2>2. DOMAIN shown = 1..Len(shown) /\ Len(shown) \in Nat
    BY <2>1, LenProperties
  <2> HIDE DEF shown, skip, M, N
  <2>3. ASSUME c \in Range(shown)
        PROVE  skip < n /\ n <= skip + limit
    <3>1. PICK k \in 1..Len(shown) : shown[k] = c
      BY <2>2, <2>3 DEF Range
    <3>2. skip + k \in 1..N /\ k <= limit
      BY <1>5, <2>1, <2>2 DEF Held
    <3>3. order[skip + k] = order[n]
      BY <1>4, <2>1, <3>1
    <3>4. skip + k = n
      BY <1>3, <3>2, <3>3
    <3> QED
      BY <2>1, <3>2, <3>4
  <2>4. ASSUME skip < n, n <= skip + limit
        PROVE  c \in Range(shown)
    <3>1. n - skip \in 1..Len(shown) /\ skip + (n - skip) = n
      BY <1>5, <2>1, <2>4 DEF Held
    <3>2. shown[n - skip] = c
      BY <1>4, <2>1, <3>1
    <3> QED
      BY <2>2, <3>1, <3>2 DEF Range
  <2> QED
    BY <2>3, <2>4 DEF shown, skip
<1> HIDE DEF On, all, N
<1>9. all \subseteq Nat \ {0}
  BY DEF all
<1>10. \A o \in all : On(o) <=> o = p
  BY <1>6, <1>7, <1>8, <1>9
<1>11. {o \in all : On(o)} = {p}
  BY <1>6, <1>10, Zenon
<1>12. Cardinality({o \in all : On(o)}) = 1
  BY <1>11, FS_Singleton
<1> QED
  BY <1>12 DEF On, all, N

-----------------------------------------------------------------------------
(* What is kept *)

\* An answer from the cache was kept for its key, one from the database computed
\* from what was asked for.
AnswerStands ==
    answer # NoResults /\ answer.kind = "search" =>
        LET a == answer.asked IN
        /\ a.page \in Pages /\ a.limit \in Limits
        /\ IF answer.cached THEN Keepable(a.filters)
           ELSE answer.result \in Results(a.filters, a.sort, a.page, a.limit)

\* A kept suggestion has a title that begins as its key.
HintsStand ==
    /\ DOMAIN hints = {StemOf[t] : t \in Texts}
    /\ \A stem \in DOMAIN hints : hints[stem] # NoResults =>
           \A c \in hints[stem] : \E t \in TraitsOf[c].titled : StemOf[t] = stem

SearchInv == AnswerStands /\ HintsStand /\ HintsFit

\* A result that shows matches only, a full page of them but for the last.
Fits(f, page, limit, result) ==
    /\ \A n \in DOMAIN result.courses : result.courses[n] \in Matches(f)
    /\ Range(result.courses) \subseteq Matches(f)
    /\ Len(result.courses) <= limit
    /\ result.total = Cardinality(Matches(f))
    /\ result.pages = LastPage(Cardinality(Matches(f)), limit)
    /\ page < result.pages => Len(result.courses) = limit

LEMMA FreshAnswerFits ==
    ASSUME NEW f, NEW sort, NEW page \in Nat \ {0}, NEW limit \in Nat \ {0},
           NEW result \in Results(f, sort, page, limit)
    PROVE  Fits(f, page, limit, result)
<1> DEFINE M == Matches(f)
           N == Cardinality(M)
           skip == Skip(page, limit)
<1>1. PICK order \in Orders(f, sort) :
          result = [courses |-> PageOf(order, page, limit), total |-> N,
                    pages |-> LastPage(N, limit)]
  BY DEF Results
<1> DEFINE shown == PageOf(order, page, limit)
<1>2. /\ skip \in Nat /\ shown \in Seq(M)
      /\ Len(shown) = Held(N, skip, limit)
  BY <1>1, PageFields
<1>3. N \in Nat
  BY MatchesAreFinite
<1> HIDE DEF shown, N, M
<1>4. DOMAIN shown = 1..Len(shown) /\ \A n \in DOMAIN shown : shown[n] \in M
  BY <1>2, LenProperties
<1>5. Len(shown) <= limit
  BY <1>2, <1>3 DEF Held
<1>6. ASSUME page < LastPage(N, limit)
      PROVE  Len(shown) = limit
  <2> DEFINE r == (N + limit - 1) \div limit
  <2>1. r \in Nat /\ r * limit <= N + limit - 1
    BY <1>3, Quotient
  <2>2. page < r
    BY <1>6 DEF LastPage
  <2> HIDE DEF r
  <2>3. (page + 1) * limit <= r * limit
    BY <2>1, <2>2
  <2>4. (page + 1) * limit = skip + limit + limit
    BY DEF Skip
  <2> HIDE DEF skip
  <2>5. skip + limit < N
    BY <1>2, <1>3, <2>1, <2>3, <2>4
  <2> QED
    BY <1>2, <1>3, <2>5 DEF Held
<1>7. result.courses = shown /\ result.total = N /\ result.pages = LastPage(N, limit)
  BY <1>1 DEF shown
<1> QED
  BY <1>4, <1>5, <1>6, <1>7, Zenon DEF Fits, Range, M, N

LEMMA AnswerFields ==
    ASSUME SearchInv, answer # NoResults, answer.kind = "search"
    PROVE  LET a == answer.asked IN
           /\ a.page \in Nat \ {0} /\ a.limit \in Nat \ {0}
           /\ answer.cached => Keepable(a.filters)
           /\ ~answer.cached => answer.result \in Results(a.filters, a.sort, a.page, a.limit)
<1> DEFINE a == answer.asked
<1>1. /\ a.page \in Pages /\ a.limit \in Limits
      /\ answer.cached => Keepable(a.filters)
      /\ ~answer.cached => answer.result \in Results(a.filters, a.sort, a.page, a.limit)
  BY DEF SearchInv, AnswerStands
<1>2. Cardinality(Shelf) \in Nat /\ Limits \subseteq Nat \ {0}
  BY SearchAssumption, FS_CardinalityType
<1>3. \A n \in Pages : n \in Nat \ {0}
  BY <1>2 DEF Pages
<1> QED
  BY <1>1, <1>2, <1>3

LEMMA SearchesAreSound ==
    ASSUME SearchInv
    PROVE  SearchIsSound
<1> DEFINE f == answer.asked.filters
           sort == answer.asked.sort
           page == answer.asked.page
           limit == answer.asked.limit
           result == answer.result
           shown == answer.result.courses
<1>1. ASSUME answer # NoResults, answer.kind = "search"
      PROVE  /\ page \in Nat \ {0} /\ limit \in Nat \ {0}
             /\ answer.cached => Keepable(f)
             /\ ~answer.cached => result \in Results(f, sort, page, limit)
  BY <1>1, AnswerFields
<1>2. ASSUME answer # NoResults, answer.kind = "search", ~answer.cached
      PROVE  /\ page \in Nat \ {0} /\ limit \in Nat \ {0}
             /\ \A n \in DOMAIN shown : shown[n] \in Matches(f)
             /\ Range(shown) \subseteq Matches(f)
             /\ Len(shown) <= limit
             /\ result.total = Cardinality(Matches(f))
             /\ result.pages = LastPage(Cardinality(Matches(f)), limit)
             /\ page < result.pages => Len(shown) = limit
  <2>1. page \in Nat \ {0} /\ limit \in Nat \ {0} /\ result \in Results(f, sort, page, limit)
    BY <1>1, <1>2
  <2>2. shown = result.courses
    OBVIOUS
  <2> HIDE DEF f, sort, page, limit, result, shown
  <2>3. Fits(f, page, limit, result)
    BY <2>1, FreshAnswerFits
  <2> QED
    BY <2>1, <2>2, <2>3 DEF Fits
<1>3. AnswersFit
  <2>1. ASSUME answer # NoResults, answer.kind = "search",
               NEW n \in DOMAIN shown, NEW field \in Fields \ {"owner", "language"}
        PROVE  Meets(shown[n], f, field)
    <3>1. CASE answer.cached
      <4>1. f[field] = Anything
        BY <1>1, <2>1, <3>1 DEF Keepable, Keyed, Fields
      <4> QED
        BY <4>1 DEF Meets
    <3>2. CASE ~answer.cached
      BY <1>2, <2>1, <3>2 DEF Matches
    <3> QED
      BY <3>1, <3>2
  <2> QED
    BY <1>2, <2>1 DEF AnswersFit
<1>4. PagesCover
  <2> SUFFICES ASSUME answer # NoResults, answer.kind = "search", ~answer.cached,
                      Cardinality(Orders(f, sort)) = 1, NEW c \in Matches(f)
               PROVE  LET found(p) == {Range(r.courses) : r \in Results(f, sort, p, limit)}
                          all == 1..result.pages IN
                      Cardinality({p \in all : \E S \in found(p) : c \in S}) = 1
    BY DEF PagesCover
  <2>1. limit \in Nat \ {0} /\ result.pages = LastPage(Cardinality(Matches(f)), limit)
    BY <1>2
  <2> HIDE DEF f, sort, limit, result
  <2> QED
    BY <2>1, OneOrderCovers
<1> QED
  BY <1>3, <1>4 DEF SearchInv, SearchIsSound

LEMMA SearchInvariance == SearchSpec => []SearchInv
<1>1. SearchInit => SearchInv
  BY DEF SearchInit, SearchInv, AnswerStands, HintsStand, HintsFit
<1>2. ASSUME SearchInv, [SearchNext]_searchVars
      PROVE  SearchInv'
  <2> USE DEF SearchInv
  <2>1. ASSUME NEW f \in Filters, NEW sort \in Sorts, NEW page \in Pages, NEW limit \in Limits,
               SearchCourses(f, sort, page, limit)
        PROVE  SearchInv'
    <3> DEFINE wanted == [filters |-> f, sort |-> sort, page |-> page, limit |-> limit]
    <3>1. CASE Keepable(f) /\ pages[page] # NoResults
      <4>1. answer' = [kind |-> "search", asked |-> wanted, cached |-> TRUE,
                       result |-> pages[page]] /\ hints' = hints
        BY <2>1, <3>1 DEF SearchCourses, Answered
      <4> QED
        BY <1>2, <3>1, <4>1 DEF AnswerStands, HintsStand, HintsFit
    <3>2. CASE ~(Keepable(f) /\ pages[page] # NoResults)
      <4>1. PICK result \in Results(f, sort, page, limit) :
                answer' = [kind |-> "search", asked |-> wanted, cached |-> FALSE,
                           result |-> result]
        BY <2>1, <3>2 DEF SearchCourses, Answered
      <4>2. hints' = hints
        BY <2>1 DEF SearchCourses
      <4> QED
        BY <1>2, <4>1, <4>2 DEF AnswerStands, HintsStand, HintsFit
    <3> QED
      BY <3>1, <3>2
  <2>2. ASSUME NEW t \in Texts, GetSearchSuggestions(t)
        PROVE  SearchInv'
    <3> DEFINE stem == StemOf[t]
               found == {c \in Shelf : t \in TraitsOf[c].titled}
    <3>1. stem \in DOMAIN hints
      BY <1>2 DEF HintsStand
    <3>2. \A c \in found : \E u \in TraitsOf[c].titled : StemOf[u] = stem
      OBVIOUS
    <3>3. CASE hints[stem] # NoResults
      <4>1. answer' = [kind |-> "suggestions", asked |-> t, cached |-> TRUE,
                       result |-> hints[stem]] /\ hints' = hints
        BY <2>2, <3>3 DEF GetSearchSuggestions, Answered
      <4> QED
        BY <1>2, <3>1, <3>3, <4>1 DEF AnswerStands, HintsStand, HintsFit
    <3>4. CASE hints[stem] = NoResults
      <4>1. answer' = [kind |-> "suggestions", asked |-> t, cached |-> FALSE, result |-> found]
            /\ hints' = [hints EXCEPT ![stem] = found]
        BY <2>2, <3>4 DEF GetSearchSuggestions, Answered
      <4> QED
        BY <1>2, <3>1, <3>2, <4>1 DEF AnswerStands, HintsStand, HintsFit
    <3> QED
      BY <3>3, <3>4
  <2>3. CASE TakeAnswer
    BY <1>2, <2>3 DEF TakeAnswer, AnswerStands, HintsStand, HintsFit
  <2>4. ASSUME NEW P, ForgetPages(P)
        PROVE  SearchInv'
    BY <1>2, <2>4 DEF ForgetPages, AnswerStands, HintsStand, HintsFit
  <2>5. ASSUME NEW stem \in DOMAIN hints, ForgetHint(stem)
        PROVE  SearchInv'
    BY <1>2, <2>5 DEF ForgetHint, AnswerStands, HintsStand, HintsFit
  <2>6. CASE UNCHANGED searchVars
    BY <1>2, <2>6 DEF searchVars, AnswerStands, HintsStand, HintsFit
  <2> QED
    BY <1>2, <2>1, <2>2, <2>3, <2>4, <2>5, <2>6 DEF SearchNext
<1> QED
  BY <1>1, <1>2, PTL DEF SearchSpec

\* A page, kept or new, shows what its key tells apart, pages cover the matches
\* once where no two tie, and suggestions begin as asked; for any courses,
\* filters, orders and limits.
THEOREM SearchSound == SearchSpec => []SearchIsSound
<1>1. SearchInv => SearchIsSound
  BY SearchesAreSound
<1> QED
  BY <1>1, SearchInvariance, PTL

-----------------------------------------------------------------------------
(***************************************************************************)
(* The three together                                                      *)
(***************************************************************************)


\* Every variable of videos and of the catalogue keeps its type.
THEOREM MediaTypes == Spec => []TypeOK
<1>1. Init => VideoInv /\ JobsFit /\ CatalogueInv
  BY VideoInitially, JobsFitInitially, CatalogueInitially DEF Init
<1>2. [Next]_vars => [VideoNext]_videoVars /\ [CatalogueNext]_catalogueVars
  <2> SUFFICES ASSUME [Next]_vars
               PROVE  [VideoNext]_videoVars /\ [CatalogueNext]_catalogueVars
    OBVIOUS
  <2>1. \/ VideoNext /\ UNCHANGED <<catalogueVars, searchVars>>
        \/ CatalogueNext /\ UNCHANGED <<videoVars, searchVars>>
        \/ UNCHANGED <<videoVars, catalogueVars>>
        \/ UNCHANGED vars
    BY Zenon DEF Next
  <2> QED
    BY <2>1 DEF vars
<1>3. VideoInv /\ JobsFit /\ CatalogueInv => TypeOK
  BY VideoTypesFollow, CatalogueImplies DEF TypeOK
<1> QED
  BY <1>1, <1>2, <1>3, VideoKeeps, JobsFitKept, CatalogueKeeps, PTL DEF Spec
================================================================================
