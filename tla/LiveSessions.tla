---------------------------- MODULE LiveSessions ----------------------------
(***************************************************************************)
(* One instructor's live classes                                           *)
(* (src/modules/live-sessions/live-sessions.service.ts) and the job that   *)
(* removes them (modules/scheduler).                                       *)
(*                                                                         *)
(* A handler reads and checks, then writes: `calls' holds what each        *)
(* request in flight has read, and calls[None] what the clean-up job has.  *)
(* Rows that are removed are never reused.                                 *)
(***************************************************************************)
EXTENDS Naturals, FiniteSets

CONSTANTS
    Sessions,       \* rows of LiveSession ever created (a bound)
    Requests,       \* rows of SessionRequest ever created (a bound)
    Students,
    Calls,          \* requests in flight at once (a bound)
    Starts, Lengths, Seats,     \* what instructors ask for (bounds)
    MaxTime,        \* minutes the clock runs (a bound)
    Lead,           \* the fifteen minutes of early joining
    Grace,          \* graceMs
    MaxEdits,       \* updates by the instructor, and crashes (a bound)
    Unborn, Removed, None

ASSUME LiveSessionsAssumption ==
    /\ Starts \subseteq Nat \ {0} /\ Lengths \subseteq Nat \ {0}
    /\ Seats \subseteq Nat \ {0}
    /\ MaxTime \in Nat /\ Lead \in Nat /\ Grace \in Nat /\ MaxEdits \in Nat
    /\ None \notin Sessions \cup Requests \cup Students \cup Calls
    /\ IsFiniteSet(Requests) /\ IsFiniteSet(Calls)

VARIABLES
    session,    \* LiveSession
    request,    \* SessionRequest
    calls,      \* the handler each request in flight is executing
    clock,
    offered,    \* history: the most seats a session ever had
    withdrawn,  \* history: sessions the instructor deleted
    late,       \* history: applications made while their class was being removed
    edits

liveVars == <<session, request, calls, clock, offered, withdrawn, late, edits>>

Threads == Calls \cup {None}

-----------------------------------------------------------------------------
\* started: IN_PROGRESS instead of SCHEDULED; no code writes another status.
SessionRows ==
    [start : Starts, length : Lengths, seats : Seats, student : Students \cup {None},
     origin : Requests \cup {None}, started : BOOLEAN, room : BOOLEAN]

\* An application names the session it is for; a private request does not.
\* filed is a history of what the application named when it was made.
RequestRows ==
    [student : Students, target : Sessions \cup {None}, filed : Sessions \cup {None},
     start : Starts, length : Lengths, status : {"pending", "accepted", "cancelled"}]

Resting == [at |-> "rest"]

\* The fields an update carries: None is undefined.
Changes ==
    [start : Starts, length : Lengths \cup {None}, seats : {None}]
    \cup [start : {None}, length : Lengths, seats : {None}]
    \cup [start : {None}, length : {None}, seats : Seats]

CallRows ==
    {Resting}
    \cup [at : {"create"}, row : SessionRows]
    \cup [at : {"update"}, session : Sessions, changes : Changes]
    \cup [at : {"ask"}, row : RequestRows]
    \cup [at : {"apply"}, row : RequestRows]
    \cup [at : {"answer"}, request : Requests, status : {"accepted", "cancelled"}]
    \cup [at : {"room"}, session : Sessions, started : BOOLEAN, room : BOOLEAN]
    \cup [at : {"start"}, session : Sessions]
    \cup [at : {"delete", "end"}, gone : SUBSET Sessions]
    \cup [at : {"remove"}, gone : SUBSET Sessions, applications : SUBSET Requests]

ASSUME LiveRowsAssumption ==
    /\ Unborn # Removed
    /\ Unborn \notin SessionRows \cup RequestRows
    /\ Removed \notin SessionRows \cup RequestRows

LiveInit ==
    /\ session = [s \in Sessions |-> Unborn]
    /\ request = [r \in Requests |-> Unborn]
    /\ calls = [c \in Threads |-> Resting]
    /\ clock = 0
    /\ offered = [s \in Sessions |-> 0]
    /\ withdrawn = {}
    /\ late = {}
    /\ edits = 0

Alive(s) == session[s] \notin {Unborn, Removed}
Made(r) == request[r] \notin {Unborn, Removed}
At(c, stage) == calls[c].at = stage
Call(c, job) == calls' = [calls EXCEPT ![c] = job]
Return(c) == Call(c, Resting)
Larger(m, n) == IF m > n THEN m ELSE n

Of(s) == {r \in Requests : Made(r) /\ request[r].target = s}
Accepted(s) == {r \in Of(s) : request[r].status = "accepted"}
Pending(s) == {r \in Of(s) : request[r].status = "pending"}

Overlaps(start, length, s) ==
    /\ session[s].start < start + length
    /\ session[s].start + session[s].length > start

\* checkConflict; an update leaves the session itself out.
Conflict(start, length, but) ==
    \E s \in Sessions \ {but} : Alive(s) /\ Overlaps(start, length, s)

\* Classes a transaction has deleted the applications of, and is about to
\* delete; what it deleted is still there for everybody else, but locked.
BeingRemoved == UNION {calls[x].gone : x \in {x \in Threads : At(x, "remove")}}
Locked == UNION {calls[x].applications : x \in {x \in Threads : At(x, "remove")}}

\* A session that came from a locked application is rewritten by the same
\* transaction: its row is locked, too.
Free(s) == Alive(s) => session[s].origin \notin Locked

\* The deletion x waits for the rows y has deleted or rewritten.
WaitsFor(x, y) ==
    /\ x # y /\ At(y, "remove")
    /\ \E s \in calls[x].gone :
         Alive(s) /\ (Of(s) \cup {session[s].origin}) \cap calls[y].applications # {}

\* They deadlock when y deletes the same class and so waits for x: the database
\* ends one of the two.
Ended(x) == \E y \in Threads : WaitsFor(x, y)
FinishCall(x) ==
    calls' = [y \in Threads |-> IF y = x \/ WaitsFor(x, y) THEN Resting ELSE calls[y]]

\* Deleting a row sets the foreign keys that point to it to null.
Unlink(gone) ==
    [r \in Requests |->
        IF Made(r) /\ request[r].target \in gone THEN [request[r] EXCEPT !.target = None]
                                                 ELSE request[r]]

\* Fault: only the session is deleted.
RemoveAlone(gone, applications) ==
    /\ session' = [s \in Sessions |-> IF s \in gone /\ Alive(s) THEN Removed ELSE session[s]]
    /\ request' = Unlink(gone)

\* The applications that were there are deleted, and those that came since
\* are unlinked.
Remove(gone, applications) ==
    /\ session' = [s \in Sessions |->
            IF s \in gone /\ Alive(s) THEN Removed
            ELSE IF Alive(s) /\ session[s].origin \in applications
                 THEN [session[s] EXCEPT !.origin = None]
                 ELSE session[s]]
    /\ request' = [r \in Requests |-> IF r \in applications THEN Removed ELSE Unlink(gone)[r]]

\* A new row takes a fresh id, whichever.
Insert(row) ==
    /\ \E s \in Sessions : session[s] = Unborn
    /\ LET s == CHOOSE fresh \in Sessions : session[fresh] = Unborn IN
         /\ session' = [session EXCEPT ![s] = row]
         /\ offered' = [offered EXCEPT ![s] = row.seats]

File(row) ==
    /\ \E r \in Requests : request[r] = Unborn
    /\ LET r == CHOOSE fresh \in Requests : request[fresh] = Unborn IN
         request' = [request EXCEPT ![r] = row]

-----------------------------------------------------------------------------
(* The instructor's calendar *)

CreateLiveSession(c, start, length, seats) ==
    /\ calls[c] = Resting
    /\ start > clock
    /\ ~Conflict(start, length, None)
    /\ Call(c, [at |-> "create",
                row |-> [start |-> start, length |-> length, seats |-> seats,
                         student |-> None, origin |-> None, started |-> FALSE,
                         room |-> FALSE]])
    /\ UNCHANGED <<session, request, clock, offered, withdrawn, late, edits>>

\* Fault: nothing says that a request has one session only.
InsertSessionTwice(c) ==
    /\ At(c, "create")
    /\ Insert(calls[c].row)
    /\ Return(c)
    /\ UNCHANGED <<request, clock, withdrawn, late, edits>>

\* sessionRequestId is unique and a foreign key.
Refused(origin) ==
    /\ origin # None
    /\ ~Made(origin) \/ \E s \in Sessions : Alive(s) /\ session[s].origin = origin

InsertSession(c) ==
    /\ At(c, "create")
    /\ calls[c].row.origin \notin Locked
    /\ IF Refused(calls[c].row.origin) THEN UNCHANGED <<session, offered>>
                                       ELSE Insert(calls[c].row)
    /\ Return(c)
    /\ UNCHANGED <<request, clock, withdrawn, late, edits>>

\* The calendar is consulted only when the date changes.
UpdateLiveSession(c, s, changes) ==
    /\ calls[c] = Resting
    /\ Alive(s)
    /\ edits < MaxEdits
    /\ changes.start # None =>
         /\ changes.start > clock
         /\ ~Conflict(changes.start,
                IF changes.length = None THEN session[s].length ELSE changes.length, s)
    /\ edits' = edits + 1
    /\ Call(c, [at |-> "update", session |-> s, changes |-> changes])
    /\ UNCHANGED <<session, request, clock, offered, withdrawn, late>>

\* Fault: a field that is missing is stored as missing.
StoreUpdateWhole(c) ==
    /\ At(c, "update")
    /\ LET s == calls[c].session IN
         session' = IF Alive(s)
                    THEN [session EXCEPT ![s].start = calls[c].changes.start]
                    ELSE session
    /\ Return(c)
    /\ UNCHANGED <<request, clock, offered, withdrawn, late, edits>>

\* Only the fields of the request are written.
StoreUpdate(c) ==
    /\ At(c, "update")
    /\ Free(calls[c].session)
    /\ LET s == calls[c].session
           changes == calls[c].changes
           Set(old, new) == IF new = None THEN old ELSE new IN
         IF Alive(s)
         THEN /\ session' = [session EXCEPT
                    ![s].start = Set(@, changes.start),
                    ![s].length = Set(@, changes.length),
                    ![s].seats = Set(@, changes.seats)]
              /\ offered' = [offered EXCEPT ![s] = Larger(@, session'[s].seats)]
         ELSE UNCHANGED <<session, offered>>
    /\ Return(c)
    /\ UNCHANGED <<request, clock, withdrawn, late, edits>>

DeleteLiveSession(c, s) ==
    /\ calls[c] = Resting
    /\ Alive(s)
    /\ Call(c, [at |-> "delete", gone |-> {s}])
    /\ UNCHANGED <<session, request, clock, offered, withdrawn, late, edits>>

\* The applications stay, for no session.
DeleteRow(c) ==
    /\ At(c, "delete")
    /\ \/ /\ Remove(calls[c].gone, {})
          /\ withdrawn' = withdrawn \cup {s \in calls[c].gone : Alive(s)}
          /\ FinishCall(c)
       \/ Ended(c) /\ Return(c) /\ UNCHANGED <<session, request, withdrawn>>
    /\ UNCHANGED <<clock, offered, late, edits>>

-----------------------------------------------------------------------------
(* Applications to a class, and private requests *)

\* The seats are compared with the applications that still wait.
ApplyToSession(c, s, u) ==
    /\ calls[c] = Resting
    /\ Alive(s)
    /\ ~session[s].started
    /\ session[s].start > clock
    /\ Cardinality(Pending(s)) < session[s].seats
    /\ \A r \in Of(s) : request[r].student # u
    /\ Call(c, [at |-> "apply",
                row |-> [student |-> u, target |-> s, filed |-> s,
                         start |-> session[s].start, length |-> session[s].length,
                         status |-> "pending"]])
    /\ UNCHANGED <<session, request, clock, offered, withdrawn, late, edits>>

CreateSessionRequest(c, u, start, length) ==
    /\ calls[c] = Resting
    /\ ~Conflict(start, length, None)
    /\ Call(c, [at |-> "ask",
                row |-> [student |-> u, target |-> None, filed |-> None,
                         start |-> start, length |-> length, status |-> "pending"]])
    /\ UNCHANGED <<session, request, clock, offered, withdrawn, late, edits>>

\* liveSessionId is a foreign key: a session that is gone refuses the row.
InsertRequest(c) ==
    /\ calls[c].at \in {"apply", "ask"}
    /\ LET row == calls[c].row IN
         IF row.target = None \/ Alive(row.target)
         THEN /\ row.target # None => Free(row.target)
              /\ File(row)
              /\ late' = late \cup (IF row.target \in BeingRemoved
                                    THEN {r \in Requests : request'[r] # request[r]} ELSE {})
         ELSE UNCHANGED <<request, late>>
    /\ Return(c)
    /\ UNCHANGED <<session, clock, offered, withdrawn, edits>>

\* Fault: the seats are not counted.
HasSeatAlways(s) == TRUE
HasSeat(s) == Cardinality(Accepted(s)) < session[s].seats

AcceptApplication(c, r) ==
    /\ calls[c] = Resting
    /\ Made(r)
    /\ request[r].status = "pending"
    /\ request[r].target # None
    /\ HasSeat(request[r].target)
    /\ Call(c, [at |-> "answer", request |-> r, status |-> "accepted"])
    /\ UNCHANGED <<session, request, clock, offered, withdrawn, late, edits>>

\* rejectApplication, and cancelSessionRequest by either side.
RejectApplication(c, r) ==
    /\ calls[c] = Resting
    /\ Made(r)
    /\ request[r].status # "cancelled"
    /\ Call(c, [at |-> "answer", request |-> r, status |-> "cancelled"])
    /\ UNCHANGED <<session, request, clock, offered, withdrawn, late, edits>>

StoreAnswer(c) ==
    /\ At(c, "answer")
    /\ calls[c].request \notin Locked
    /\ LET r == calls[c].request IN
         request' = IF Made(r) THEN [request EXCEPT ![r].status = calls[c].status]
                               ELSE request
    /\ Return(c)
    /\ UNCHANGED <<session, clock, offered, withdrawn, late, edits>>

\* Any pending request, an application too; it stays pending.  The date may
\* have passed by now.
ConfirmSessionRequest(c, r) ==
    /\ calls[c] = Resting
    /\ Made(r)
    /\ request[r].status = "pending"
    /\ ~Conflict(request[r].start, request[r].length, None)
    /\ \E seats \in Seats :
         Call(c, [at |-> "create",
                  row |-> [start |-> request[r].start, length |-> request[r].length,
                           seats |-> seats, student |-> request[r].student,
                           origin |-> r, started |-> FALSE, room |-> FALSE]])
    /\ UNCHANGED <<session, request, clock, offered, withdrawn, late, edits>>

-----------------------------------------------------------------------------
(* The class *)

\* The instructor, or someone who belongs to the class.
JoinSession(c, s) ==
    /\ calls[c] = Resting
    /\ Alive(s)
    /\ session[s].started \/ clock + Lead >= session[s].start
    /\ Call(c, [at |-> "room", session |-> s, started |-> session[s].started,
                room |-> session[s].room])
    /\ UNCHANGED <<session, request, clock, offered, withdrawn, late, edits>>

\* Fault: the class starts before its room is stored.
OpenRoomLater(c) ==
    /\ At(c, "room")
    /\ LET s == calls[c].session IN
         /\ session' = IF Alive(s) THEN [session EXCEPT ![s].started = TRUE] ELSE session
         /\ Return(c)
    /\ UNCHANGED <<request, clock, offered, withdrawn, late, edits>>

\* The room that was read decides whether one is stored; so does the status.
OpenRoom(c) ==
    /\ At(c, "room")
    /\ ~calls[c].room => Free(calls[c].session)
    /\ LET s == calls[c].session
           next == IF calls[c].started THEN Resting ELSE [at |-> "start", session |-> s] IN
         IF calls[c].room
         THEN Call(c, next) /\ UNCHANGED session
         ELSE IF Alive(s)
              THEN Call(c, next) /\ session' = [session EXCEPT ![s].room = TRUE]
              ELSE Return(c) /\ UNCHANGED session
    /\ UNCHANGED <<request, clock, offered, withdrawn, late, edits>>

StartSession(c) ==
    /\ At(c, "start")
    /\ Free(calls[c].session)
    /\ LET s == calls[c].session IN
         session' = IF Alive(s) THEN [session EXCEPT ![s].started = TRUE] ELSE session
    /\ Return(c)
    /\ UNCHANGED <<request, clock, offered, withdrawn, late, edits>>

\* Anybody of the class may end it.
EndSession(c, s) ==
    /\ calls[c] = Resting
    /\ Alive(s)
    /\ session[s].started
    /\ Call(c, [at |-> "end", gone |-> {s}])
    /\ UNCHANGED <<session, request, clock, offered, withdrawn, late, edits>>

\* First the applications ...
DeleteApplications(x) ==
    /\ At(x, "end")
    /\ LET applications == UNION {Of(s) : s \in calls[x].gone} IN
         /\ applications \cap Locked = {}
         /\ Call(x, [at |-> "remove", gone |-> calls[x].gone, applications |-> applications])
    /\ UNCHANGED <<session, request, clock, offered, withdrawn, late, edits>>

\* ... then the class, in one transaction.  It fails as a whole when a request
\* finds the class gone; the job does not mind.
RemoveEnded(x) ==
    /\ At(x, "remove")
    /\ LET failing == x # None /\ \E s \in calls[x].gone : ~Alive(s) IN
         \/ ~failing /\ Remove(calls[x].gone, calls[x].applications) /\ FinishCall(x)
         \/ /\ failing \/ Ended(x)
            /\ Return(x)
            /\ UNCHANGED <<session, request>>
    /\ UNCHANGED <<clock, offered, withdrawn, late, edits>>

-----------------------------------------------------------------------------
(* The scheduler *)

\* Fault: a class that was started is left to its instructor.
ExpiredUnstarted(s) ==
    Alive(s) /\ ~session[s].started /\ clock > session[s].start + session[s].length + Grace
Expired(s) ==
    Alive(s) /\ clock > session[s].start + session[s].length + Grace

\* cleanupEndedSessions selects, and then deletes what it selected, moved to
\* another date or not.
SelectEnded ==
    /\ calls[None] = Resting
    /\ {s \in Sessions : Expired(s)} # {}
    /\ Call(None, [at |-> "end", gone |-> {s \in Sessions : Expired(s)}])
    /\ UNCHANGED <<session, request, clock, offered, withdrawn, late, edits>>

Minute ==
    /\ clock < MaxTime
    /\ clock' = clock + 1
    /\ UNCHANGED <<session, request, calls, offered, withdrawn, late, edits>>

\* The process restarts: the requests in flight and the job are lost, and a
\* transaction that was not finished changes nothing.
Restart ==
    /\ edits < MaxEdits
    /\ edits' = edits + 1
    /\ calls' = [c \in Threads |-> Resting]
    /\ UNCHANGED <<session, request, clock, offered, withdrawn, late>>

LiveNext ==
    \/ \E c \in Calls :
         \/ \E start \in Starts, length \in Lengths :
              \/ \E seats \in Seats : CreateLiveSession(c, start, length, seats)
              \/ \E u \in Students : CreateSessionRequest(c, u, start, length)
         \/ \E s \in Sessions :
              \/ \E changes \in Changes : UpdateLiveSession(c, s, changes)
              \/ \E u \in Students : ApplyToSession(c, s, u)
              \/ DeleteLiveSession(c, s) \/ JoinSession(c, s) \/ EndSession(c, s)
         \/ \E r \in Requests :
              AcceptApplication(c, r) \/ RejectApplication(c, r) \/ ConfirmSessionRequest(c, r)
         \/ InsertSession(c) \/ StoreUpdate(c) \/ DeleteRow(c)
         \/ InsertRequest(c) \/ StoreAnswer(c)
         \/ OpenRoom(c) \/ StartSession(c)
    \/ \E x \in Threads : DeleteApplications(x) \/ RemoveEnded(x)
    \/ SelectEnded \/ Minute \/ Restart

\* The clock runs, the job is run again and again, and a transaction that has
\* begun ends.
LiveFairness ==
    /\ WF_liveVars(Minute)
    /\ WF_liveVars(SelectEnded) /\ WF_liveVars(DeleteApplications(None))
    /\ \A x \in Threads : WF_liveVars(RemoveEnded(x))

LiveSpec == LiveInit /\ [][LiveNext]_liveVars /\ LiveFairness

-----------------------------------------------------------------------------
(* Properties *)

\* Every variable keeps its type.
LiveTypeOK ==
    /\ session \in [Sessions -> SessionRows \cup {Unborn, Removed}]
    /\ request \in [Requests -> RequestRows \cup {Unborn, Removed}]
    /\ calls \in [Threads -> CallRows]
    /\ clock \in 0..MaxTime
    /\ offered \in [Sessions -> Seats \cup {0}]
    /\ withdrawn \subseteq Sessions /\ late \subseteq Requests
    /\ edits \in 0..MaxEdits

\* Acceptances count the seats before they take one, so they may overbook a
\* class, but by no more than the requests that overlapped: a student less
\* than there are of them.
OverbookingIsBounded ==
    \A s \in Sessions :
        LET accepting == {c \in Calls : At(c, "answer") /\ calls[c].status = "accepted"
                                       /\ calls[c].request \in Of(s)} IN
        Alive(s) => Cardinality(Accepted(s)) + Cardinality(accepting)
                        < offered[s] + Cardinality(Calls)

\* A confirmed request stays pending; still, however often and at once it is
\* confirmed, it leads to one session.
OneSessionPerRequest ==
    \A s, t \in Sessions :
        Alive(s) /\ Alive(t) /\ session[s].origin = session[t].origin
            /\ session[s].origin # None => s = t

\* A class in progress has the room its participants are let into.
StartedHasRoom ==
    \A s \in Sessions : Alive(s) /\ session[s].started => session[s].room

\* "A finished class is removed entirely": an application outlives its class
\* only when the instructor deleted the class, or when it was made between the
\* two statements of the transaction that removes them.
FinishedLeavesNothing ==
    \A r \in Requests \ late :
        Made(r) /\ request[r].filed # None /\ request[r].target = None =>
            request[r].filed \in withdrawn

\* What hangs on a class comes and goes with it, whatever handlers and jobs
\* overlap: its request, its room and its applications.
SessionsAreSound == OneSessionPerRequest /\ StartedHasRoom /\ FinishedLeavesNothing

\* "Instructors never accumulate completed or expired sessions": every class
\* goes, started or not, ended or forgotten, unless it is moved for ever, and
\* though the process restarts.
ClassesGoAway == \A s \in Sessions : Alive(s) ~> ~Alive(s)
=============================================================================
