-------------------------------- MODULE Notices --------------------------------
(***************************************************************************)
(* Notifications (src/modules/notifications): stored in a table, passed to *)
(* the sockets of a user who is connected and pushed to the devices of one *)
(* who is not, by the queue's worker or, without Redis, by the caller; the *)
(* announcements that cause them (src/modules/announcements); and the job  *)
(* that deletes old ones.                                                  *)
(***************************************************************************)
EXTENDS Naturals, FiniteSets

CONSTANTS
    Readers,        \* users
    Devices,        \* device tokens
    Announcements,  \* rows of course_announcements that may be created (a bound)
    Alerts,         \* other occasions: single notices and broadcasts (a bound)
    NoticeAttempts, \* attempts of a job (2)
    NoticeStalls    \* times a job of a dead worker is taken up again (1)

ASSUME NoticesAssumption ==
    /\ Announcements \cap Alerts = {}
    /\ NoticeAttempts \in Nat \ {0} /\ NoticeStalls \in Nat

Occasions == Announcements \cup Alerts
Copies == 1..(NoticeAttempts + NoticeStalls)

VARIABLES
    viaQueue,       \* REDIS_AVAILABLE
    dispatch,       \* what is done of the notice of an occasion to a user
    notice,         \* notifications: the rows stored for it
    aged,           \* occasions thirty days ago
    token,          \* device_tokens
    gone,           \* tokens that the push service calls unregistered
    online,         \* users with a socket
    active,         \* users with an ACTIVE enrollment
    announcement,   \* course_announcements
    announcing,     \* those whose broadcast is under way
    due,            \* history: the devices a stored notice must be pushed to
    pushed,         \* history: the devices it has been pushed to
    excused         \* history: who need not have been told of an announcement

noticesVars == <<viaQueue, dispatch, notice, aged, token, gone, online, active,
                 announcement, announcing, due, pushed, excused>>
feed == <<aged, announcement, announcing, active, excused>>
people == <<token, gone, online>>

-----------------------------------------------------------------------------
Untold == [at |-> "none", tries |-> 0, stalls |-> 0, lapses |-> 0, known |-> {}]
Dispatches ==
    [at : {"none", "waiting", "starting", "stored", "listed", "sending", "removing",
           "done", "failed"},
     tries : 0..NoticeAttempts, stalls : 0..NoticeStalls,
     lapses : 0..(NoticeAttempts + NoticeStalls), known : SUBSET Devices]
Rows == {"none", "unread", "read", "deleted"}
Drafts == {"none", "hidden", "published", "deleted"}

NoticesInit ==
    /\ viaQueue \in BOOLEAN
    /\ dispatch = [o \in Occasions |-> [u \in Readers |-> Untold]]
    /\ notice = [o \in Occasions |-> [u \in Readers |-> [c \in Copies |-> "none"]]]
    /\ aged = {}
    /\ token = {}
    /\ gone = {}
    /\ online = {}
    /\ active \in SUBSET Readers
    /\ announcement = [a \in Announcements |-> "none"]
    /\ announcing = {}
    /\ due = [o \in Occasions |-> [u \in Readers |-> {}]]
    /\ pushed = [o \in Occasions |-> [u \in Readers |-> {}]]
    /\ excused = {}

\* Fault: one row is read.
OneTokenOf(u) ==
    LET found == {d \in Devices : <<u, d>> \in token} IN
    IF found = {} THEN {} ELSE {CHOOSE d \in found : TRUE}
TokensOf(u) == {d \in Devices : <<u, d>> \in token}
Stored(o, u) == {c \in Copies : notice[o][u][c] # "none"}
AtStep(o, u, step) == dispatch[o][u].at = step

\* A row is stored; its user, if not connected, is due a push on each device.
WithRow(rows) ==
    LET c == CHOOSE c \in Copies : rows[c] = "none" /\ \A d \in 1..(c - 1) : rows[d] # "none"
    IN [rows EXCEPT ![c] = "unread"]
DueTo(u) == {d \in Devices \ gone : u \notin online /\ <<u, d>> \in token}

Going(o, u, record) == dispatch' = [dispatch EXCEPT ![o][u] = record]
GoingTo(o, u, step) == dispatch' = [dispatch EXCEPT ![o][u].at = step]

\* createNotification: a job, unless the queue refuses it, or the caller's own work.
Refused == [Untold EXCEPT !.at = "failed"]
Begun == IF viaQueue THEN {[Untold EXCEPT !.at = "waiting"], Refused}
                     ELSE {[Untold EXCEPT !.at = "starting", !.tries = 1]}

-----------------------------------------------------------------------------
(* Occasions *)

CreateNotification(o, u) ==
    /\ o \in Alerts
    /\ \A v \in Readers : AtStep(o, v, "none")
    /\ \E begun \in Begun : Going(o, u, begun)
    /\ UNCHANGED <<viaQueue, notice, people, feed, due, pushed>>

\* broadcastToRole, broadcastToUsers: the rows of all at once.
Broadcast(o, users) ==
    /\ o \in Alerts /\ users # {}
    /\ \A v \in Readers : AtStep(o, v, "none")
    /\ dispatch' = [dispatch EXCEPT ![o] =
            [u \in Readers |-> IF u \in users THEN [Untold EXCEPT !.at = "listed"] ELSE @[u]]]
    /\ notice' = [notice EXCEPT ![o] =
            [u \in Readers |-> IF u \in users THEN WithRow(@[u]) ELSE @[u]]]
    /\ due' = [due EXCEPT ![o] = [u \in Readers |-> IF u \in users THEN DueTo(u) ELSE {}]]
    /\ UNCHANGED <<viaQueue, people, feed, pushed>>

\* ... and their tokens in one query; the sockets are looked for after it.
ReadAllTokens(o) ==
    /\ \E u \in Readers : AtStep(o, u, "listed")
    /\ dispatch' = [dispatch EXCEPT ![o] = [u \in Readers |->
            IF @[u].at = "listed" THEN [@[u] EXCEPT !.at = "sending", !.known = TokensOf(u)]
                                  ELSE @[u]]]
    /\ UNCHANGED <<viaQueue, notice, people, feed, due, pushed>>

\* The query fails: the rows are stored, and nobody is sent anything.
LoseAllTokens(o) ==
    /\ \E u \in Readers : AtStep(o, u, "listed")
    /\ dispatch' = [dispatch EXCEPT ![o] = [u \in Readers |->
            IF @[u].at = "listed" THEN [@[u] EXCEPT !.at = "failed"] ELSE @[u]]]
    /\ UNCHANGED <<viaQueue, notice, people, feed, due, pushed>>

-----------------------------------------------------------------------------
(* Announcements *)

Visible(published) == IF published THEN "published" ELSE "hidden"

CreateAnnouncement(a, published) ==
    /\ announcement[a] = "none"
    /\ announcement' = [announcement EXCEPT ![a] = Visible(published)]
    /\ announcing' = IF published THEN announcing \cup {a} ELSE announcing
    /\ excused' = IF published THEN excused ELSE excused \cup ({a} \X Readers)
    /\ UNCHANGED <<viaQueue, dispatch, notice, aged, people, active, due, pushed>>

\* Fault: a page of the students is read.
FirstStudent == IF active = {} THEN {} ELSE {CHOOSE u \in active : TRUE}
Students == active

\* The students are read after the response, whatever became of it meanwhile.
BroadcastToEnrolledStudents(a) ==
    /\ a \in announcing
    /\ announcing' = announcing \ {a}
    /\ \E begun \in [Students -> Begun] :
           dispatch' = [dispatch EXCEPT ![a] =
                           [u \in Readers |-> IF u \in Students THEN begun[u] ELSE @[u]]]
    /\ excused' = excused \cup ({a} \X (Readers \ active))
    /\ UNCHANGED <<viaQueue, notice, aged, people, active, announcement, due, pushed>>

\* They cannot be read: the error is dropped.
LoseBroadcast(a) ==
    /\ a \in announcing
    /\ announcing' = announcing \ {a}
    /\ excused' = excused \cup ({a} \X Readers)
    /\ UNCHANGED <<viaQueue, dispatch, notice, aged, people, active, announcement, due,
                   pushed>>

\* An update may publish; it tells nobody.
UpdateAnnouncement(a, published) ==
    /\ announcement[a] \in {"hidden", "published"}
    /\ announcement' = [announcement EXCEPT ![a] = Visible(published)]
    /\ UNCHANGED <<viaQueue, dispatch, notice, aged, people, active, announcing, due,
                   pushed, excused>>

DeleteAnnouncement(a) ==
    /\ announcement[a] \in {"hidden", "published"}
    /\ announcement' = [announcement EXCEPT ![a] = "deleted"]
    /\ UNCHANGED <<viaQueue, dispatch, notice, aged, people, active, announcing, due,
                   pushed, excused>>

\* Enrollments come and go.
Enroll(u) ==
    /\ u \notin active
    /\ active' = active \cup {u}
    /\ UNCHANGED <<viaQueue, dispatch, notice, aged, people, announcement, announcing, due,
                   pushed, excused>>

EndEnrollment(u) ==
    /\ u \in active
    /\ active' = active \ {u}
    /\ UNCHANGED <<viaQueue, dispatch, notice, aged, people, announcement, announcing, due,
                   pushed, excused>>

-----------------------------------------------------------------------------
(* Delivery *)

\* The worker takes the job up.
TakeUp(o, u) ==
    /\ AtStep(o, u, "waiting")
    /\ Going(o, u, [dispatch[o][u] EXCEPT !.at = "starting", !.tries = @ + 1])
    /\ UNCHANGED <<viaQueue, notice, people, feed, due, pushed>>

\* Fault: the row is not stored when the user is away.
StoreNoticeIfOnline(o, u) ==
    /\ AtStep(o, u, "starting")
    /\ GoingTo(o, u, "stored")
    /\ notice' = IF u \in online THEN [notice EXCEPT ![o][u] = WithRow(@)] ELSE notice
    /\ due' = [due EXCEPT ![o][u] = DueTo(u)]
    /\ UNCHANGED <<viaQueue, people, feed, pushed>>

\* The worker or the caller stores the row.
StoreNotice(o, u) ==
    /\ AtStep(o, u, "starting")
    /\ GoingTo(o, u, "stored")
    /\ notice' = [notice EXCEPT ![o][u] = WithRow(@)]
    /\ due' = [due EXCEPT ![o][u] = DueTo(u)]
    /\ UNCHANGED <<viaQueue, people, feed, pushed>>

\* A job that throws is tried again, or fails; the caller's errors are dropped.
Again(d) ==
    IF viaQueue
    THEN [d EXCEPT !.at = IF d.tries < NoticeAttempts THEN "waiting" ELSE "failed"]
    ELSE [d EXCEPT !.at = "failed"]

\* The row is not stored,
LoseNotice(o, u) ==
    /\ AtStep(o, u, "starting")
    /\ Going(o, u, Again(dispatch[o][u]))
    /\ UNCHANGED <<viaQueue, notice, people, feed, due, pushed>>

\* ... or it is and the answer is lost.
LoseStored(o, u) ==
    /\ AtStep(o, u, "starting")
    /\ Going(o, u, [Again(dispatch[o][u]) EXCEPT !.lapses = @ + 1])
    /\ notice' = [notice EXCEPT ![o][u] = WithRow(@)]
    /\ UNCHANGED <<viaQueue, people, feed, due, pushed>>

IsUserConnected(u) == u \in online

\* A connected user is sent the notice; of another the devices are read.
Deliver(o, u) ==
    /\ AtStep(o, u, "stored")
    /\ Going(o, u, IF IsUserConnected(u) THEN [dispatch[o][u] EXCEPT !.at = "done"]
                   ELSE [dispatch[o][u] EXCEPT !.at = "sending", !.known = TokensOf(u)])
    /\ UNCHANGED <<viaQueue, notice, people, feed, due, pushed>>

\* The query for the devices fails.
LoseTokens(o, u) ==
    /\ AtStep(o, u, "stored")
    /\ ~IsUserConnected(u)
    /\ Going(o, u, [Again(dispatch[o][u]) EXCEPT !.lapses = @ + 1])
    /\ UNCHANGED <<viaQueue, notice, people, feed, due, pushed>>

\* A broadcast has no tries.
IsBroadcast(o, u) == dispatch[o][u].tries = 0

\* The push service takes the message, for every token it knows; only the
\* caller's own push then removes those it does not.
SendPush(o, u) ==
    /\ AtStep(o, u, "sending")
    /\ IF IsBroadcast(o, u) /\ IsUserConnected(u)
       THEN GoingTo(o, u, "done") /\ UNCHANGED pushed
       ELSE /\ pushed' = [pushed EXCEPT ![o][u] = @ \cup (dispatch[o][u].known \ gone)]
            /\ IF viaQueue \/ IsBroadcast(o, u) THEN GoingTo(o, u, "done")
               ELSE Going(o, u, [dispatch[o][u] EXCEPT !.at = "removing",
                                                       !.known = @ \cap gone])
    /\ UNCHANGED <<viaQueue, notice, people, feed, due>>

\* Fault: a push that fails fails the job.
RetryPush(o, u) ==
    /\ AtStep(o, u, "sending")
    /\ Going(o, u, Again(dispatch[o][u]))
    /\ UNCHANGED <<viaQueue, notice, people, feed, due, pushed>>

\* It cannot be reached: logged, and nothing is tried again.
LosePush(o, u) ==
    /\ AtStep(o, u, "sending")
    /\ GoingTo(o, u, "failed")
    /\ UNCHANGED <<viaQueue, notice, people, feed, due, pushed>>

\* Fault: every token of the user's is removed.
AllTokens(o, u) == {u} \X Devices
StaleTokens(o, u) == Readers \X dispatch[o][u].known

\* deleteMany by token, whoever registered it.
RemoveStaleTokens(o, u) ==
    /\ AtStep(o, u, "removing")
    /\ token' = token \ StaleTokens(o, u)
    /\ GoingTo(o, u, "done")
    /\ UNCHANGED <<viaQueue, notice, gone, online, feed, due, pushed>>

\* The process ends.  Jobs wait in Redis; one that was being worked on is taken
\* up again, a limited number of times.  The rest is lost.  It is a lapse once
\* the row is stored.
Stalled(d) ==
    IF d.at \in {"none", "waiting", "done", "failed"} THEN d
    ELSE IF viaQueue /\ d.tries > 0 /\ d.stalls < NoticeStalls
    THEN [d EXCEPT !.at = "waiting", !.tries = @ - 1, !.stalls = @ + 1,
                   !.lapses = IF d.at = "starting" THEN @ ELSE @ + 1]
    ELSE [d EXCEPT !.at = "failed"]

NoticesCrash ==
    /\ dispatch' = [o \in Occasions |-> [u \in Readers |-> Stalled(dispatch[o][u])]]
    /\ online' = {}
    /\ announcing' = {}
    /\ excused' = excused \cup (announcing \X Readers)
    /\ UNCHANGED <<viaQueue, notice, aged, token, gone, active, announcement, due, pushed>>

-----------------------------------------------------------------------------
(* Users *)

\* What is due to a device ends with its row, its token or its user's absence.
NoMore(Ends(_, _)) ==
    due' = [o \in Occasions |-> [u \in Readers |-> {d \in due[o][u] : ~Ends(u, d)}]]

HandleConnect(u) ==
    /\ u \notin online
    /\ online' = online \cup {u}
    /\ NoMore(LAMBDA v, d : v = u)
    /\ UNCHANGED <<viaQueue, dispatch, notice, token, gone, feed, pushed>>

HandleClose(u) ==
    /\ u \in online
    /\ online' = online \ {u}
    /\ UNCHANGED <<viaQueue, dispatch, notice, token, gone, feed, due, pushed>>

SaveDeviceToken(u, d) ==
    /\ d \notin gone
    /\ token' = token \cup {<<u, d>>}
    /\ UNCHANGED <<viaQueue, dispatch, notice, gone, online, feed, due, pushed>>

RemoveDeviceToken(u, d) ==
    /\ <<u, d>> \in token
    /\ token' = token \ {<<u, d>>}
    /\ NoMore(LAMBDA v, e : v = u /\ e = d)
    /\ UNCHANGED <<viaQueue, dispatch, notice, gone, online, feed, pushed>>

\* The application is uninstalled: its token never works again.
Unregister(d) ==
    /\ d \notin gone
    /\ gone' = gone \cup {d}
    /\ NoMore(LAMBDA v, e : e = d)
    /\ UNCHANGED <<viaQueue, dispatch, notice, token, online, feed, pushed>>

MarkAsRead(o, u, c) ==
    /\ notice[o][u][c] = "unread"
    /\ notice' = [notice EXCEPT ![o][u][c] = "read"]
    /\ UNCHANGED <<viaQueue, dispatch, people, feed, due, pushed>>

MarkAllAsRead(u) ==
    /\ notice' = [o \in Occasions |-> [notice[o] EXCEPT ![u] =
            [c \in Copies |-> IF @[c] = "unread" THEN "read" ELSE @[c]]]]
    /\ UNCHANGED <<viaQueue, dispatch, people, feed, due, pushed>>

DeleteNotification(o, u, c) ==
    /\ notice[o][u][c] \in {"unread", "read"}
    /\ notice' = [notice EXCEPT ![o][u][c] = "deleted"]
    /\ UNCHANGED <<viaQueue, dispatch, people, feed, due, pushed>>

Age(o) ==
    /\ o \notin aged
    /\ \A u \in Readers : dispatch[o][u].at \in {"none", "done", "failed"}
    /\ \E u \in Readers : Stored(o, u) # {}
    /\ aged' = aged \cup {o}
    /\ UNCHANGED <<viaQueue, dispatch, notice, people, active, announcement, announcing,
                   excused, due, pushed>>

ExpiredNotice(o, row) == o \in aged /\ row = "read"

CleanupOldNotifications ==
    /\ notice' = [o \in Occasions |-> [u \in Readers |-> [c \in Copies |->
            IF ExpiredNotice(o, notice[o][u][c]) THEN "deleted" ELSE notice[o][u][c]]]]
    /\ UNCHANGED <<viaQueue, dispatch, people, feed, due, pushed>>

NoticesNext ==
    \/ \E o \in Occasions :
           \/ \E users \in SUBSET Readers : Broadcast(o, users)
           \/ ReadAllTokens(o) \/ LoseAllTokens(o) \/ Age(o)
           \/ \E u \in Readers :
                  \/ CreateNotification(o, u) \/ TakeUp(o, u) \/ StoreNotice(o, u)
                  \/ LoseNotice(o, u) \/ LoseStored(o, u) \/ Deliver(o, u)
                  \/ LoseTokens(o, u) \/ SendPush(o, u) \/ LosePush(o, u)
                  \/ RemoveStaleTokens(o, u)
                  \/ \E c \in Copies : MarkAsRead(o, u, c) \/ DeleteNotification(o, u, c)
    \/ \E a \in Announcements :
           \/ \E published \in BOOLEAN :
                  CreateAnnouncement(a, published) \/ UpdateAnnouncement(a, published)
           \/ BroadcastToEnrolledStudents(a) \/ LoseBroadcast(a) \/ DeleteAnnouncement(a)
    \/ \E u \in Readers :
           \/ Enroll(u) \/ EndEnrollment(u)
           \/ HandleConnect(u) \/ HandleClose(u) \/ MarkAllAsRead(u)
           \/ \E d \in Devices : SaveDeviceToken(u, d) \/ RemoveDeviceToken(u, d)
    \/ \E d \in Devices : Unregister(d)
    \/ CleanupOldNotifications
    \/ NoticesCrash
NoticesSpec == NoticesInit /\ [][NoticesNext]_noticesVars

-----------------------------------------------------------------------------
(* Properties *)

\* Every variable keeps its type; nothing is pushed or removed before a row of
\* the notice is stored.
NoticesTypeOK ==
    /\ viaQueue \in BOOLEAN
    /\ dispatch \in [Occasions -> [Readers -> Dispatches]]
    /\ notice \in [Occasions -> [Readers -> [Copies -> Rows]]]
    /\ aged \subseteq Occasions
    /\ token \subseteq Readers \X Devices /\ gone \subseteq Devices
    /\ online \subseteq Readers /\ active \subseteq Readers
    /\ announcement \in [Announcements -> Drafts] /\ announcing \subseteq Announcements
    /\ due \in [Occasions -> [Readers -> SUBSET Devices]]
    /\ pushed \in [Occasions -> [Readers -> SUBSET Devices]]
    /\ excused \subseteq Announcements \X Readers
    /\ \A o \in Occasions, u \in Readers :
           dispatch[o][u].at \in {"sending", "removing", "done"} => Stored(o, u) # {}

\* A notice is stored again only when, after it was stored, the answer was lost,
\* the query for the devices failed or the worker died: a push that fails
\* repeats nothing.
RepeatedOnlyByLapses ==
    \A o \in Occasions, u \in Readers :
        Cardinality(Stored(o, u)) <= 1 + dispatch[o][u].lapses

\* A device that was registered and working, and its user away, from when the
\* notice was stored until it was dealt with, has been pushed it, whoever came
\* and went meanwhile and whatever other devices were found stale.
AbsentAreReached ==
    \A o \in Occasions, u \in Readers :
        AtStep(o, u, "done") => due[o][u] \subseteq pushed[o][u]

\* A token that works is removed by its user only.
WorkingTokensStay ==
    [][\A u \in Readers, d \in Devices :
           <<u, d>> \in token /\ <<u, d>> \notin token' =>
               d \in gone \/ RemoveDeviceToken(u, d)]_noticesVars

\* Nothing more is tried: the queue refused the job, the caller's only try
\* failed, or the job used up its attempts, or the deaths of its workers.
GivenUp(d) ==
    /\ d.at = "failed"
    /\ viaQueue /\ d.tries > 0 => d.tries = NoticeAttempts \/ d.stalls = NoticeStalls

\* Who may read an announcement has a notice of it stored, unless they were not
\* enrolled when it was broadcast, it was a draft when it was written, its
\* broadcast or the notice is under way, the process ended or the students could
\* not be read before it, or the notice was given up.
WhoMayReadWasTold ==
    \A a \in Announcements, u \in active :
        announcement[a] = "published" /\ <<a, u>> \notin excused =>
            \/ a \in announcing
            \/ AtStep(a, u, "waiting") \/ AtStep(a, u, "starting")
            \/ Stored(a, u) # {}
            \/ GivenUp(dispatch[a][u])

\* A notice is told to everyone it is meant for, once, on all their devices.
NoticesArrive ==
    /\ [](RepeatedOnlyByLapses /\ AbsentAreReached /\ WhoMayReadWasTold)
    /\ WorkingTokensStay
================================================================================
