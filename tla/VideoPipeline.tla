---------------------------- MODULE VideoPipeline ----------------------------
(***************************************************************************)
(* From an upload to a video students can stream                           *)
(* (src/modules/video-processing), its review by administrators and the    *)
(* job that gives up on stalled videos (modules/admin, modules/scheduler). *)
(*                                                                         *)
(* A job is a record in the bag `jobs'; a job that is taken moves through  *)
(* the awaits of its handler.  `tasks' holds the requests in flight.       *)
(***************************************************************************)
EXTENDS Naturals, FiniteSets, Bags

CONSTANTS
    Videos,
    Qualities,      \* expectedQualities
    Tasks,          \* requests in flight at once (a bound)
    Attempts,       \* attempts of a queued job
    MaxJobs,        \* jobs at once (a bound)
    MaxRetries,     \* retries, repeated confirmations and crashes (a bound)
    NoVideo

ASSUME VideoPipelineAssumption ==
    /\ Qualities # {} /\ IsFiniteSet(Qualities)
    /\ Attempts \in Nat \ {0} /\ MaxJobs \in Nat /\ MaxRetries \in Nat

VARIABLES
    mode,       \* REDIS_AVAILABLE and VIDEO_DIRECT_PLAY
    video,      \* the Video row and the qualities of its VideoVariant rows
    files,      \* transcoded files in object storage
    jobs,
    tasks,
    published,  \* Course.isPublished of the course the videos belong to
    reviewed,   \* history: videos let through by an administrator's decision
    halved,     \* history: videos whose deletion began
    retries

videoVars == <<mode, video, files, jobs, tasks, published, reviewed, halved, retries>>

-----------------------------------------------------------------------------
VideoRows ==
    [status : {"UPLOADED", "PROCESSING", "PENDING_REVIEW", "READY", "FAILED"},
     variants : SUBSET Qualities]

ASSUME VideoRowsAssumption == NoVideo \notin VideoRows

\* process-video and transcode-video of the queue, and an instructor's own
\* request to process; direct jobs of the process, whose batch fails once.
ProcessJobs ==
    [kind : {"process"}, video : Videos, attempt : 1..Attempts,
     at : {"waiting", "mark", "spawn"}, qualities : {Qualities}]
    \cup [kind : {"request"}, video : Videos, attempt : {Attempts},
          at : {"mark", "spawn"}, qualities : SUBSET Qualities]
TranscodeJobs ==
    [kind : {"transcode"}, video : Videos, quality : Qualities, attempt : 1..Attempts,
     at : {"waiting", "run", "stored", "check", "READY", "PENDING_REVIEW"}]
DirectJobs ==
    [kind : {"direct"}, video : Videos, quality : Qualities, quiet : BOOLEAN, batch : Nat,
     at : {"run", "stored", "check", "READY", "PENDING_REVIEW"}]
    \cup [kind : {"begin"}, video : Videos, batch : Nat]

NoTask == [at |-> "none"]
VideoTasks ==
    {NoTask}
    \cup [at : {"enqueue", "retry", "requeue", "play", "approve", "erase"}, video : Videos]
    \cup [at : {"delete"}, video : Videos, keys : SUBSET Qualities]
    \cup [at : {"pending"}]
    \cup [at : {"approveAll"}, left : SUBSET Videos]

VideoInit ==
    /\ mode \in {"queue", "memory", "play"}
    /\ video = [v \in Videos |-> NoVideo]
    /\ files = [v \in Videos |-> {}]
    /\ jobs = EmptyBag
    /\ tasks = [x \in Tasks |-> NoTask]
    /\ published = FALSE
    /\ reviewed = {}
    /\ halved = {}
    /\ retries = 0

Stored(v) == video[v] # NoVideo
Status(v) == video[v].status
Task(x, task) == tasks' = [tasks EXCEPT ![x] = task]
Done(x) == Task(x, NoTask)
Is(x, at) == tasks[x].at = at

SetStatus(v, status) == video' = [video EXCEPT ![v].status = status]

Take(job) == jobs (-) SetToBag({job})
Become(job, next) == jobs' = Take(job) (+) SetToBag({next})
Finish(job) == jobs' = Take(job)
Add(new) ==
    /\ BagCardinality(jobs) + Cardinality(new) <= MaxJobs
    /\ jobs' = jobs (+) SetToBag(new)

Again == retries < MaxRetries /\ retries' = retries + 1

-----------------------------------------------------------------------------
(* Upload *)

CreateVideo(v) ==
    /\ ~Stored(v) /\ v \notin halved
    /\ video' = [video EXCEPT ![v] = [status |-> "UPLOADED", variants |-> {}]]

\* uploadVideo goes on to the queue ...
UploadVideo(x, v) ==
    /\ tasks[x] = NoTask
    /\ CreateVideo(v)
    /\ Task(x, [at |-> "enqueue", video |-> v])
    /\ UNCHANGED <<mode, files, jobs, published, reviewed, halved, retries>>

\* ... initiateUpload waits for completeUpload, if that is ever called.
InitiateUpload(v) ==
    /\ CreateVideo(v)
    /\ UNCHANGED <<mode, files, jobs, tasks, published, reviewed, halved, retries>>

CompleteUpload(x, v) ==
    /\ tasks[x] = NoTask
    /\ Stored(v)
    /\ Status(v) = "UPLOADED"
    /\ Again
    /\ Task(x, [at |-> IF mode = "play" THEN "play" ELSE "enqueue", video |-> v])
    /\ UNCHANGED <<mode, video, files, jobs, published, reviewed, halved>>

\* VIDEO_DIRECT_PLAY: the original is served as it is, without a review.
DirectPlay(x) ==
    /\ Is(x, "play")
    /\ LET v == tasks[x].video IN
         IF Stored(v) THEN SetStatus(v, "READY") ELSE UNCHANGED video
    /\ Done(x)
    /\ UNCHANGED <<mode, files, jobs, published, reviewed, halved, retries>>

\* The queue takes the job; without it, or when it fails, the process starts.
Enqueue(x) ==
    /\ Is(x, "enqueue")
    /\ LET v == tasks[x].video IN
         \/ /\ mode # "memory"
            /\ Add({[kind |-> "process", video |-> v, attempt |-> 1, at |-> "waiting",
                     qualities |-> Qualities]})
         \/ Add({[kind |-> "begin", video |-> v, batch |-> retries]})
    /\ Done(x)
    /\ UNCHANGED <<mode, video, files, published, reviewed, halved, retries>>

RetryFailedVideo(x, v) ==
    /\ tasks[x] = NoTask
    /\ Stored(v)
    /\ Status(v) \in {"FAILED", "PROCESSING"}
    /\ Again
    /\ Task(x, [at |-> "retry", video |-> v])
    /\ UNCHANGED <<mode, video, files, jobs, published, reviewed, halved>>

StoreRetry(x) ==
    /\ Is(x, "retry")
    /\ LET v == tasks[x].video IN
         IF Stored(v)
         THEN SetStatus(v, "UPLOADED") /\ Task(x, [at |-> "requeue", video |-> v])
         ELSE Done(x) /\ UNCHANGED video
    /\ UNCHANGED <<mode, files, jobs, published, reviewed, halved, retries>>

\* A retry has one attempt, and no other way when the queue fails.
Requeue(x) ==
    /\ Is(x, "requeue")
    /\ LET v == tasks[x].video IN
         IF mode = "memory"
         THEN Add({[kind |-> "begin", video |-> v, batch |-> retries]})
         ELSE \/ Add({[kind |-> "process", video |-> v, attempt |-> Attempts,
                       at |-> "waiting", qualities |-> Qualities]})
              \/ UNCHANGED jobs
    /\ Done(x)
    /\ UNCHANGED <<mode, video, files, published, reviewed, halved, retries>>

\* The instructor may choose the qualities.
InitiateProcessing(v, qualities) ==
    /\ mode # "memory"
    /\ Stored(v)
    /\ Status(v) = "UPLOADED"
    /\ Again
    /\ Add({[kind |-> "request", video |-> v, attempt |-> Attempts, at |-> "mark",
             qualities |-> qualities]})
    /\ UNCHANGED <<mode, video, files, tasks, published, reviewed, halved>>

-----------------------------------------------------------------------------
(* Jobs *)

\* Fault: the attempts are not counted.
FailWithoutEnd(job) ==
    /\ job.kind # "direct"
    /\ Become(job, [job EXCEPT !.attempt = @ + 1, !.at = "waiting"])
    /\ UNCHANGED video

\* A queued job is tried again, and the last attempt marks the video; a direct
\* one marks it unless another of its batch did.
Fail(job) ==
    IF job.kind = "direct"
    THEN /\ jobs' = LET quiet == [j \in BagToSet(Take(job)) |->
                            IF j.kind = "direct" /\ j.batch = job.batch /\ j.video = job.video
                            THEN [j EXCEPT !.quiet = TRUE] ELSE j] IN
                    [j \in {quiet[i] : i \in DOMAIN quiet} |->
                        BagCardinality([i \in {n \in DOMAIN quiet : quiet[n] = j} |->
                                            Take(job)[i]])]
         /\ IF job.quiet \/ ~Stored(job.video) THEN UNCHANGED video
                                               ELSE SetStatus(job.video, "FAILED")
    ELSE IF job.attempt < Attempts
         THEN /\ Become(job, [job EXCEPT !.attempt = @ + 1, !.at = "waiting"])
              /\ UNCHANGED video
         ELSE /\ Finish(job)
              /\ IF job.kind = "transcode" /\ Stored(job.video)
                 THEN SetStatus(job.video, "FAILED") ELSE UNCHANGED video

\* process-video: only an uploaded video is started.
ProcessVideo(job) ==
    /\ job.kind \in {"process", "request"}
    /\ LET v == job.video IN
         \/ /\ job.at = "waiting"
            /\ IF Stored(v) /\ Status(v) = "UPLOADED"
               THEN Become(job, [job EXCEPT !.at = "mark"]) /\ UNCHANGED video
               ELSE Fail(job)
         \/ /\ job.at = "mark"
            /\ IF Stored(v)
               THEN SetStatus(v, "PROCESSING") /\ Become(job, [job EXCEPT !.at = "spawn"])
               ELSE Fail(job)
    /\ UNCHANGED <<mode, files, tasks, published, reviewed, halved, retries>>

QueueTranscoding(job) ==
    /\ job.kind \in {"process", "request"} /\ job.at = "spawn"
    /\ BagCardinality(jobs) + Cardinality(job.qualities) <= MaxJobs + 1
    /\ jobs' = Take(job) (+) SetToBag({[kind |-> "transcode", video |-> job.video,
                    quality |-> q, attempt |-> 1, at |-> "waiting"] : q \in job.qualities})
    /\ UNCHANGED <<mode, video, files, tasks, published, reviewed, halved, retries>>

ProcessVideoDirectly(job) ==
    /\ job.kind = "begin"
    /\ LET v == job.video IN
         IF Stored(v)
         THEN /\ SetStatus(v, "PROCESSING")
              /\ BagCardinality(jobs) + Cardinality(Qualities) <= MaxJobs + 1
              /\ jobs' = Take(job) (+) SetToBag({[kind |-> "direct", video |-> v,
                            quality |-> q, quiet |-> FALSE, batch |-> job.batch,
                            at |-> "run"] : q \in Qualities})
         ELSE Finish(job) /\ UNCHANGED video
    /\ UNCHANGED <<mode, files, tasks, published, reviewed, halved, retries>>

Transcodes(job) == job.kind \in {"transcode", "direct"}

\* Fault: the variant is recorded before its file is uploaded.
CreateVariantEarly(job) ==
    /\ Transcodes(job)
    /\ job.at = "run"
    /\ Stored(job.video)
    /\ video' = [video EXCEPT ![job.video].variants = @ \cup {job.quality}]
    /\ Become(job, [job EXCEPT !.at = "stored"])
    /\ UNCHANGED <<mode, files, tasks, published, reviewed, halved, retries>>

\* A worker takes the job and uploads what it has transcoded.
TranscodeVideo(job) ==
    /\ Transcodes(job)
    /\ \/ job.at = "waiting" /\ Become(job, [job EXCEPT !.at = "run"]) /\ UNCHANGED files
       \/ /\ job.at = "run"
          /\ files' = [files EXCEPT ![job.video] = @ \cup {job.quality}]
          /\ Become(job, [job EXCEPT !.at = "stored"])
    /\ UNCHANGED <<mode, video, tasks, published, reviewed, halved, retries>>

\* videoVariant.create and the updates of the video fail when it was deleted.
CreateVariant(job) ==
    /\ Transcodes(job)
    /\ job.at = "stored"
    /\ IF Stored(job.video)
       THEN /\ video' = [video EXCEPT ![job.video].variants = @ \cup {job.quality}]
            /\ Become(job, [job EXCEPT !.at = "check"])
       ELSE Fail(job)
    /\ UNCHANGED <<mode, files, tasks, published, reviewed, halved, retries>>

\* Fault: one quality is taken for all.
CompleteWithAny(v) == video[v].variants # {}
Complete(v) == Qualities \subseteq video[v].variants

\* Fault: nobody is asked.
OutcomeReady == "READY"
Outcome == IF published THEN "READY" ELSE "PENDING_REVIEW"

\* checkAndFinalizeVideo reads the variants and the course ...
CheckAndFinalizeVideo(job) ==
    /\ Transcodes(job)
    /\ job.at = "check"
    /\ IF Stored(job.video) /\ Complete(job.video)
       THEN Become(job, [job EXCEPT !.at = Outcome])
       ELSE Finish(job)
    /\ reviewed' = IF published THEN reviewed \cup {job.video} ELSE reviewed
    /\ UNCHANGED <<mode, video, files, tasks, published, halved, retries>>

\* ... and writes the status it decided on over whatever it is by now.
FinalizeVideo(job) ==
    /\ Transcodes(job)
    /\ job.at \in {"READY", "PENDING_REVIEW"}
    /\ IF Stored(job.video) THEN SetStatus(job.video, job.at) /\ Finish(job)
                            ELSE Fail(job)
    /\ UNCHANGED <<mode, files, tasks, published, reviewed, halved, retries>>

\* ffmpeg, the storage or the disk fails.
TranscodeFails(job) ==
    /\ Transcodes(job)
    /\ job.at = "run"
    /\ Fail(job)
    /\ UNCHANGED <<mode, files, tasks, published, reviewed, halved, retries>>

\* Fault: those the process has in hand are left out.
StalledUnlessActive(v) ==
    Stored(v) /\ Status(v) = "PROCESSING" /\ \A j \in BagToSet(jobs) : j.video # v
Stalled(v) == Stored(v) /\ Status(v) = "PROCESSING"

\* Two hours may have passed for any of them.
CleanupStalledVideos ==
    /\ \E v \in Videos : Stalled(v)
    /\ video' = [v \in Videos |->
            IF Stalled(v) THEN [video[v] EXCEPT !.status = "FAILED"] ELSE video[v]]
    /\ UNCHANGED <<mode, files, jobs, tasks, published, reviewed, halved, retries>>

-----------------------------------------------------------------------------
(* Review and removal *)

ApproveVideo(x, v) ==
    /\ tasks[x] = NoTask
    /\ Stored(v)
    /\ Status(v) = "PENDING_REVIEW"
    /\ Task(x, [at |-> "approve", video |-> v])
    /\ UNCHANGED <<mode, video, files, jobs, published, reviewed, halved, retries>>

StoreApproval(x) ==
    /\ Is(x, "approve")
    /\ LET v == tasks[x].video IN
         IF Stored(v) THEN SetStatus(v, "READY") /\ reviewed' = reviewed \cup {v}
                      ELSE UNCHANGED <<video, reviewed>>
    /\ Done(x)
    /\ UNCHANGED <<mode, files, jobs, published, halved, retries>>

\* approveCourse publishes the course, and then looks for its pending videos ...
PublishTheCourse(x) ==
    /\ tasks[x] = NoTask
    /\ ~published
    /\ Again
    /\ published' = TRUE
    /\ Task(x, [at |-> "pending"])
    /\ UNCHANGED <<mode, video, files, jobs, reviewed, halved>>

FindPending(x) ==
    /\ Is(x, "pending")
    /\ Task(x, [at |-> "approveAll",
                left |-> {v \in Videos : Stored(v) /\ Status(v) = "PENDING_REVIEW"}])
    /\ UNCHANGED <<mode, video, files, jobs, published, reviewed, halved, retries>>

\* ... which are approved one after the other; one that is gone ends it.
ApproveFound(x) ==
    /\ Is(x, "approveAll")
    /\ \/ tasks[x].left = {} /\ Done(x) /\ UNCHANGED <<video, reviewed>>
       \/ \E v \in tasks[x].left :
            IF Stored(v)
            THEN /\ SetStatus(v, "READY")
                 /\ reviewed' = reviewed \cup {v}
                 /\ Task(x, [at |-> "approveAll", left |-> tasks[x].left \ {v}])
            ELSE Done(x) /\ UNCHANGED <<video, reviewed>>
    /\ UNCHANGED <<mode, files, jobs, published, halved, retries>>

WithdrawTheCourse ==
    /\ published
    /\ Again
    /\ published' = FALSE
    /\ UNCHANGED <<mode, video, files, jobs, tasks, reviewed, halved>>

\* deleteVideo by the instructor, rejectVideo and rejectCourse by an
\* administrator: the keys are those of the variants that were read.
DeleteVideo(x, v) ==
    /\ tasks[x] = NoTask
    /\ Stored(v)
    /\ Task(x, [at |-> "delete", video |-> v, keys |-> video[v].variants])
    /\ UNCHANGED <<mode, video, files, jobs, published, reviewed, halved, retries>>

\* The administrator's removal goes on when the storage fails.
DeleteObjects(x) ==
    /\ Is(x, "delete")
    /\ LET v == tasks[x].video IN
         /\ files' = [files EXCEPT ![v] = @ \ tasks[x].keys]
         /\ halved' = halved \cup {v}
         /\ Task(x, [at |-> "erase", video |-> v])
    /\ UNCHANGED <<mode, video, jobs, published, reviewed, retries>>

\* The variants go with their video.
DeleteRecord(x) ==
    /\ Is(x, "erase")
    /\ video' = [video EXCEPT ![tasks[x].video] = NoVideo]
    /\ Done(x)
    /\ UNCHANGED <<mode, files, jobs, published, reviewed, halved, retries>>

\* The process dies: jobs of the queue are found stalled and wait again, those
\* of the process and the requests are lost.
CrashPipeline ==
    /\ Again
    /\ tasks' = [x \in Tasks |-> NoTask]
    /\ LET queued == {j \in BagToSet(jobs) : j.kind \in {"process", "transcode"}}
           waits == [j \in queued |-> [j EXCEPT !.at = "waiting"]] IN
         jobs' = [w \in {waits[j] : j \in queued} |->
                    BagCardinality([j \in {i \in queued : waits[i] = w} |-> jobs[j]])]
    /\ UNCHANGED <<mode, video, files, published, reviewed, halved>>

Work(job) ==
    \/ ProcessVideo(job) \/ QueueTranscoding(job) \/ ProcessVideoDirectly(job)
    \/ TranscodeVideo(job) \/ CreateVariant(job) \/ CheckAndFinalizeVideo(job)
    \/ FinalizeVideo(job) \/ TranscodeFails(job)

VideoNext ==
    \/ \E x \in Tasks :
         \/ \E v \in Videos :
              \/ UploadVideo(x, v) \/ CompleteUpload(x, v) \/ RetryFailedVideo(x, v)
              \/ ApproveVideo(x, v) \/ DeleteVideo(x, v)
         \/ DirectPlay(x) \/ Enqueue(x) \/ StoreRetry(x) \/ Requeue(x) \/ StoreApproval(x)
         \/ PublishTheCourse(x) \/ FindPending(x) \/ ApproveFound(x)
         \/ DeleteObjects(x) \/ DeleteRecord(x)
    \/ \E job \in BagToSet(jobs) : Work(job)
    \/ \E v \in Videos, qualities \in SUBSET Qualities : InitiateProcessing(v, qualities)
    \/ \E v \in Videos : InitiateUpload(v)
    \/ CleanupStalledVideos \/ WithdrawTheCourse \/ CrashPipeline

\* The scheduler's job runs every six hours.
VideoFairness == WF_videoVars(CleanupStalledVideos)

VideoSpec == VideoInit /\ [][VideoNext]_videoVars /\ VideoFairness

-----------------------------------------------------------------------------
(* Playback *)

Original == "original"

\* Fault: the status is not looked at.
StreamableAnyStatus(v) == TRUE
Streamable(v) == Status(v) = "READY"

\* generateSignedUrl, streamVideoChunk, getPlaybackInfo and getDownloadUrl answer
\* for a ready video: one of its variants, or the upload itself without any.
StreamUrls(v) ==
    IF ~Streamable(v) THEN {}
    ELSE IF video[v].variants = {} THEN {Original} ELSE video[v].variants

\* The administrator's preview and the playlists a token opens for six hours do
\* not ask for the status ...
PreviewUrls(v) == video[v].variants

\* ... and neither do getVideoStatus and getHLSManifest, which anyone signed in
\* may call: the URL of each variant, and its playlist.
StatusUrls(v) == video[v].variants

-----------------------------------------------------------------------------
(* Properties *)

\* Every variable keeps its type.
VideoTypeOK ==
    /\ video \in [Videos -> VideoRows \cup {NoVideo}]
    /\ files \in [Videos -> SUBSET Qualities]
    /\ IsABag(jobs) /\ BagToSet(jobs) \subseteq ProcessJobs \cup TranscodeJobs \cup DirectJobs
    /\ BagCardinality(jobs) <= MaxJobs
    /\ tasks \in [Tasks -> VideoTasks]
    /\ reviewed \subseteq Videos /\ halved \subseteq Videos
    /\ retries \in 0..MaxRetries

\* What a reviewer or a student is shown has every quality, whatever jobs
\* overlap, fail, are retried or overtake an administrator.
ShownIsComplete ==
    \A v \in Videos :
        Stored(v) /\ Status(v) \in {"PENDING_REVIEW", "READY"} /\ mode # "play" =>
            Qualities \subseteq video[v].variants

\* A video is ready, and whoever asks for that streams it, only once an
\* administrator let it through, or the course it belongs to; direct play alone
\* goes without.  (What StatusUrls answers is out before the decision.)
ReadyWasReviewed ==
    \A v \in Videos : Stored(v) /\ StreamUrls(v) # {} => v \in reviewed \/ mode = "play"

\* What a player is sent to is in the storage, except in a video whose deletion
\* began: if the process dies then, the rest of it stays on record.
ServedHasFile ==
    \A v \in Videos :
        Stored(v) => \/ v \in halved
                     \/ (StreamUrls(v) \cup PreviewUrls(v) \cup StatusUrls(v)) \ {Original}
                          \subseteq files[v]

\* What is played is all there, in the records and in the storage.
PlaybackIsWhole == ShownIsComplete /\ ServedHasFile

\* Whatever is lost, retried late or overtaken, a video stops being processed
\* for good once nobody asks for it again.
VideosSettle ==
    \A v \in Videos : <>[](Stored(v) => Status(v) # "PROCESSING")
=============================================================================
