------------------------------- MODULE LiveProofs -------------------------------
(***************************************************************************)
(* Proofs about LiveSessions, for any number of classes, applications,     *)
(* students and requests in flight, and a clock that runs for any time;    *)
(* about Classroom, for any number of members and sockets and any cap of   *)
(* the board; and about the two together.                                  *)
(***************************************************************************)
EXTENDS MCLive, FiniteSetTheorems, TLAPS

-----------------------------------------------------------------------------
(***************************************************************************)
(* LiveSessions                                                            *)
(***************************************************************************)

\* What a handler in flight read or did before, and still relies on.
Sound(j) ==
    /\ j.at = "create" => ~j.row.started
    /\ j.at \in {"apply", "ask"} => j.row.filed = j.row.target /\ j.row.status = "pending"
    /\ j.at = "answer" => request[j.request] # Unborn
    /\ j.at \in {"room", "start"} => session[j.session] # Unborn
    /\ j.at = "room" /\ j.room /\ Alive(j.session) => session[j.session].room
    /\ j.at = "start" /\ Alive(j.session) => session[j.session].room

CallsAreSound == \A c \in Threads : Sound(calls[c])

\* An application belongs to a class that is there, the one it was filed for.
TargetsExist ==
    \A r \in Requests : Made(r) /\ request[r].target # None =>
        Alive(request[r].target) /\ request[r].filed = request[r].target

SeatsWereOffered == \A s \in Sessions : Alive(s) => session[s].seats <= offered[s]

\* What is filed for a class after a transaction has deleted its applications
\* is late.
RemovalsKnow ==
    \A x \in Threads : At(x, "remove") =>
        \A r \in Requests : Made(r) /\ request[r].target \in calls[x].gone =>
            r \in calls[x].applications \/ r \in late

RowsInv ==
    /\ LiveTypeOK
    /\ CallsAreSound
    /\ TargetsExist
    /\ SeatsWereOffered
    /\ RemovalsKnow
    /\ OneSessionPerRequest
    /\ StartedHasRoom
    /\ FinishedLeavesNothing

-----------------------------------------------------------------------------
(* Rows *)

LEMMA SessionFields ==
    ASSUME LiveTypeOK, NEW s \in Sessions, Alive(s)
    PROVE  session[s] \in SessionRows
BY DEF LiveTypeOK, Alive

LEMMA RequestFields ==
    ASSUME LiveTypeOK, NEW r \in Requests, Made(r)
    PROVE  request[r] \in RequestRows
BY DEF LiveTypeOK, Made

LEMMA StartsAndSeats ==
    Starts \subseteq Nat \ {0} /\ Lengths \subseteq Nat \ {0} /\ Seats \subseteq Nat \ {0}
BY LiveSessionsAssumption

\* What the stage of a call says of its fields.
LEMMA CallFields ==
    ASSUME NEW j \in CallRows
    PROVE  /\ j.at = "create" => j.row \in SessionRows
           /\ j.at = "update" => j.session \in Sessions /\ j.changes \in Changes
           /\ j.at \in {"ask", "apply"} => j.row \in RequestRows
           /\ j.at = "answer" => j.request \in Requests
                                 /\ j.status \in {"accepted", "cancelled"}
           /\ j.at = "room" => j.started \in BOOLEAN /\ j.room \in BOOLEAN
           /\ j.at \in {"room", "start"} => j.session \in Sessions
           /\ j.at \in {"delete", "end", "remove"} => j.gone \subseteq Sessions
           /\ j.at = "remove" => j.applications \subseteq Requests
BY DEF CallRows, Resting

LEMMA CallsAreThreads == Calls \subseteq Threads /\ None \in Threads
BY DEF Threads

LEMMA RestingIsSound == Resting \in CallRows /\ Sound(Resting)
BY DEF CallRows, Resting, Sound

-----------------------------------------------------------------------------
(* The handlers that read: what they go on with is sound, and nothing else *)
(* changes.                                                                *)

Begins(c, j) ==
    /\ j \in CallRows /\ Sound(j) /\ j.at # "remove"
    /\ Call(c, j)
    /\ edits' \in 0..MaxEdits
    /\ UNCHANGED <<session, request, clock, offered, withdrawn, late>>

LEMMA CalendarBegins ==
    ASSUME LiveTypeOK, NEW c \in Calls,
           \/ \E start \in Starts, length \in Lengths, seats \in Seats :
                CreateLiveSession(c, start, length, seats)
           \/ \E start \in Starts, length \in Lengths, u \in Students :
                CreateSessionRequest(c, u, start, length)
           \/ \E s \in Sessions, changes \in Changes : UpdateLiveSession(c, s, changes)
    PROVE  \E j \in CallRows : j.at # "answer" /\ Begins(c, j)
<1>1. ASSUME NEW start \in Starts, NEW length \in Lengths, NEW seats \in Seats,
             CreateLiveSession(c, start, length, seats)
      PROVE  \E j \in CallRows : j.at # "answer" /\ Begins(c, j)
  <2> DEFINE j == [at |-> "create",
                   row |-> [start |-> start, length |-> length, seats |-> seats,
                            student |-> None, origin |-> None, started |-> FALSE,
                            room |-> FALSE]]
  <2>1. j \in CallRows /\ Sound(j) /\ j.at \notin {"answer", "remove"}
    BY DEF CallRows, SessionRows, Sound
  <2>2. Call(c, j) /\ UNCHANGED <<session, request, clock, offered, withdrawn, late, edits>>
    BY <1>1 DEF CreateLiveSession
  <2> HIDE DEF j
  <2> QED
    BY <2>1, <2>2 DEF Begins, LiveTypeOK
<1>2. ASSUME NEW start \in Starts, NEW length \in Lengths, NEW u \in Students,
             CreateSessionRequest(c, u, start, length)
      PROVE  \E j \in CallRows : j.at # "answer" /\ Begins(c, j)
  <2> DEFINE j == [at |-> "ask",
                   row |-> [student |-> u, target |-> None, filed |-> None,
                            start |-> start, length |-> length, status |-> "pending"]]
  <2>1. j \in CallRows /\ Sound(j) /\ j.at \notin {"answer", "remove"}
    BY DEF CallRows, RequestRows, Sound
  <2>2. Call(c, j) /\ UNCHANGED <<session, request, clock, offered, withdrawn, late, edits>>
    BY <1>2 DEF CreateSessionRequest
  <2> HIDE DEF j
  <2> QED
    BY <2>1, <2>2 DEF Begins, LiveTypeOK
<1>3. ASSUME NEW s \in Sessions, NEW changes \in Changes, UpdateLiveSession(c, s, changes)
      PROVE  \E j \in CallRows : j.at # "answer" /\ Begins(c, j)
  <2> DEFINE j == [at |-> "update", session |-> s, changes |-> changes]
  <2>1. j \in CallRows /\ Sound(j) /\ j.at \notin {"answer", "remove"}
    BY DEF CallRows, Sound
  <2>2. /\ Call(c, j) /\ edits < MaxEdits /\ edits' = edits + 1
        /\ UNCHANGED <<session, request, clock, offered, withdrawn, late>>
    BY <1>3 DEF UpdateLiveSession
  <2> HIDE DEF j
  <2> QED
    BY <2>1, <2>2, LiveSessionsAssumption DEF Begins, LiveTypeOK
<1> QED
  BY <1>1, <1>2, <1>3

LEMMA ClassBegins ==
    ASSUME LiveTypeOK, NEW c \in Calls, NEW s \in Sessions,
           \/ \E u \in Students : ApplyToSession(c, s, u)
           \/ DeleteLiveSession(c, s) \/ JoinSession(c, s) \/ EndSession(c, s)
    PROVE  \E j \in CallRows : j.at # "answer" /\ Begins(c, j)
<1>0. Alive(s) /\ session[s] \in SessionRows /\ session[s] # Unborn
  BY SessionFields DEF ApplyToSession, DeleteLiveSession, JoinSession, EndSession, Alive
<1>1. ASSUME NEW u \in Students, ApplyToSession(c, s, u)
      PROVE  \E j \in CallRows : j.at # "answer" /\ Begins(c, j)
  <2> DEFINE j == [at |-> "apply",
                   row |-> [student |-> u, target |-> s, filed |-> s,
                            start |-> session[s].start, length |-> session[s].length,
                            status |-> "pending"]]
  <2>1. j \in CallRows /\ Sound(j) /\ j.at \notin {"answer", "remove"}
    BY <1>0 DEF CallRows, RequestRows, SessionRows, Sound
  <2>2. Call(c, j) /\ UNCHANGED <<session, request, clock, offered, withdrawn, late, edits>>
    BY <1>1 DEF ApplyToSession
  <2> HIDE DEF j
  <2> QED
    BY <2>1, <2>2 DEF Begins, LiveTypeOK
<1>2. CASE JoinSession(c, s)
  <2> DEFINE j == [at |-> "room", session |-> s, started |-> session[s].started,
                   room |-> session[s].room]
  <2>1. j \in CallRows /\ Sound(j) /\ j.at \notin {"answer", "remove"}
    BY <1>0 DEF CallRows, SessionRows, Sound
  <2>2. Call(c, j) /\ UNCHANGED <<session, request, clock, offered, withdrawn, late, edits>>
    BY <1>2 DEF JoinSession
  <2> HIDE DEF j
  <2> QED
    BY <2>1, <2>2 DEF Begins, LiveTypeOK
<1>3. CASE DeleteLiveSession(c, s) \/ EndSession(c, s)
  <2>1. ASSUME NEW st \in {"delete", "end"}
        PROVE  /\ [at |-> st, gone |-> {s}] \in CallRows
               /\ Sound([at |-> st, gone |-> {s}])
               /\ [at |-> st, gone |-> {s}].at \notin {"answer", "remove"}
    BY DEF CallRows, Sound
  <2>2. PICK st \in {"delete", "end"} :
          /\ Call(c, [at |-> st, gone |-> {s}])
          /\ UNCHANGED <<session, request, clock, offered, withdrawn, late, edits>>
    BY <1>3 DEF DeleteLiveSession, EndSession
  <2> QED
    BY <2>1, <2>2 DEF Begins, LiveTypeOK
<1> QED
  BY <1>1, <1>2, <1>3

\* The only answers that accept were given where there was a seat.
LEMMA AnswerBegins ==
    ASSUME LiveTypeOK, NEW c \in Calls, NEW r \in Requests,
           \/ AcceptApplication(c, r) \/ RejectApplication(c, r)
           \/ ConfirmSessionRequest(c, r)
    PROVE  \E j \in CallRows :
             /\ Begins(c, j)
             /\ j.at = "answer" /\ j.status = "accepted" =>
                  /\ j.request = r /\ Made(r) /\ request[r].target # None
                  /\ HasSeat(request[r].target)
<1>0. request[r] # Unborn /\ request[r] \in RequestRows
  BY RequestFields DEF AcceptApplication, RejectApplication, ConfirmSessionRequest, Made
<1>1. ASSUME NEW st \in {"accepted", "cancelled"}
      PROVE  /\ [at |-> "answer", request |-> r, status |-> st] \in CallRows
             /\ Sound([at |-> "answer", request |-> r, status |-> st])
  BY <1>0 DEF CallRows, Sound
<1>2. CASE AcceptApplication(c, r)
  <2> DEFINE j == [at |-> "answer", request |-> r, status |-> "accepted"]
  <2>1. Call(c, j) /\ UNCHANGED <<session, request, clock, offered, withdrawn, late, edits>>
    BY <1>2 DEF AcceptApplication
  <2>2. j \in CallRows /\ Sound(j) /\ j.request = r /\ j.at # "remove"
    BY <1>1
  <2> HIDE DEF j
  <2>3. Begins(c, j)
    BY <2>1, <2>2 DEF Begins, LiveTypeOK
  <2> QED
    BY <1>2, <2>2, <2>3 DEF AcceptApplication
<1>3. CASE RejectApplication(c, r)
  <2> DEFINE j == [at |-> "answer", request |-> r, status |-> "cancelled"]
  <2>1. Call(c, j) /\ UNCHANGED <<session, request, clock, offered, withdrawn, late, edits>>
    BY <1>3 DEF RejectApplication
  <2>2. j \in CallRows /\ Sound(j) /\ j.status # "accepted" /\ j.at # "remove"
    BY <1>1
  <2> HIDE DEF j
  <2> QED
    BY <2>1, <2>2 DEF Begins, LiveTypeOK
<1>4. CASE ConfirmSessionRequest(c, r)
  <2>1. PICK seats \in Seats :
          Call(c, [at |-> "create",
                   row |-> [start |-> request[r].start, length |-> request[r].length,
                            seats |-> seats, student |-> request[r].student,
                            origin |-> r, started |-> FALSE, room |-> FALSE]])
    BY <1>4 DEF ConfirmSessionRequest
  <2> DEFINE j == [at |-> "create",
                   row |-> [start |-> request[r].start, length |-> request[r].length,
                            seats |-> seats, student |-> request[r].student,
                            origin |-> r, started |-> FALSE, room |-> FALSE]]
  <2>2. j \in CallRows /\ Sound(j) /\ j.at \notin {"answer", "remove"}
    BY <1>0 DEF CallRows, SessionRows, RequestRows, Sound
  <2>3. UNCHANGED <<session, request, clock, offered, withdrawn, late, edits>>
    BY <1>4 DEF ConfirmSessionRequest
  <2> HIDE DEF j
  <2> QED
    BY <2>1, <2>2, <2>3 DEF Begins, LiveTypeOK, j
<1> QED
  BY <1>2, <1>3, <1>4

-----------------------------------------------------------------------------
(* What no step undoes *)

NothingUndone ==
    /\ \A s \in Sessions : session[s] # Unborn =>
         /\ session'[s] # Unborn
         /\ Alive(s)' => Alive(s) /\ (session[s].room => session'[s].room)
    /\ \A r \in Requests :
         /\ request[r] # Unborn => request'[r] # Unborn
         /\ Made(r)' /\ request'[r].target # None =>
              \/ Made(r) /\ request'[r].target = request[r].target
              \/ r \in late' \/ request'[r].target \notin BeingRemoved
    /\ late \subseteq late'

LEMMA SoundStays ==
    ASSUME NothingUndone, NEW j \in CallRows, Sound(j)
    PROVE  Sound(j)'
<1>1. /\ j.at \in {"room", "start"} => j.session \in Sessions
      /\ j.at = "answer" => j.request \in Requests
  BY CallFields
<1> QED
  BY <1>1 DEF NothingUndone, Sound

LEMMA CallsStep ==
    ASSUME LiveTypeOK, CallsAreSound, NothingUndone, NEW c \in Threads,
           calls'[c] = calls[c] \/ (calls'[c] \in CallRows /\ Sound(calls[c])')
    PROVE  calls'[c] \in CallRows /\ Sound(calls[c])'
<1>1. CASE calls'[c] = calls[c]
  <2>1. PICK i \in CallRows : i = calls[c] /\ Sound(i)
    BY DEF LiveTypeOK, CallsAreSound
  <2>2. Sound(i)'
    BY <2>1, SoundStays
  <2> QED
    BY <1>1, <2>1, <2>2 DEF Sound
<1>2. CASE calls'[c] \in CallRows /\ Sound(calls[c])'
  BY <1>2 DEF Sound
<1> QED
  BY <1>1, <1>2

\* A transaction that goes on goes on knowing.
LEMMA RemovalsStep ==
    ASSUME LiveTypeOK, LiveTypeOK', RemovalsKnow, NothingUndone,
           \A x \in Threads : calls'[x] = calls[x] \/ calls'[x].at # "remove"
    PROVE  RemovalsKnow'
<1> SUFFICES ASSUME NEW x \in Threads, At(x, "remove")', NEW r \in Requests, Made(r)',
                    request'[r].target \in calls'[x].gone
             PROVE  r \in calls'[x].applications \/ r \in late'
  BY DEF RemovalsKnow
<1>1. calls'[x] = calls[x] /\ At(x, "remove")
  BY DEF At
<1>2. calls[x].gone \subseteq Sessions /\ calls[x].gone \subseteq BeingRemoved
  BY <1>1, CallFields DEF LiveTypeOK, At, BeingRemoved
<1>3. request'[r].target # None
  BY <1>1, <1>2, LiveSessionsAssumption
<1> QED
  BY <1>1, <1>2, <1>3 DEF NothingUndone, RemovalsKnow

\* What a step leaves of rows: everything of RowsInv but the calls.
RowsHold ==
    /\ session \in [Sessions -> SessionRows \cup {Unborn, Removed}]
    /\ request \in [Requests -> RequestRows \cup {Unborn, Removed}]
    /\ clock \in 0..MaxTime
    /\ offered \in [Sessions -> Seats \cup {0}]
    /\ withdrawn \subseteq Sessions /\ late \subseteq Requests
    /\ edits \in 0..MaxEdits
    /\ TargetsExist
    /\ SeatsWereOffered
    /\ OneSessionPerRequest
    /\ StartedHasRoom
    /\ FinishedLeavesNothing

LEMMA RowsAndCalls ==
    RowsInv <=> /\ RowsHold /\ calls \in [Threads -> CallRows]
                /\ CallsAreSound /\ RemovalsKnow
BY DEF RowsInv, RowsHold, LiveTypeOK

LEMMA RowsType ==
    ASSUME RowsHold, calls \in [Threads -> CallRows]
    PROVE  LiveTypeOK
BY DEF RowsHold, LiveTypeOK

\* Each request goes on, or comes to a stage that is sound, or is over.
LEMMA CallersStep ==
    ASSUME RowsInv, RowsHold', NothingUndone, calls' = [x \in Threads |-> calls'[x]],
           \A x \in Threads :
              \/ calls'[x] = calls[x]
              \/ calls'[x] \in CallRows /\ Sound(calls[x])' /\ calls'[x].at # "remove"
    PROVE  RowsInv'
<1>1. \A x \in Threads : calls'[x] \in CallRows /\ Sound(calls[x])'
  BY CallsStep DEF RowsInv
<1>2. calls' \in [Threads -> CallRows] /\ CallsAreSound'
  BY <1>1 DEF CallsAreSound
<1>3. LiveTypeOK'
  BY <1>2 DEF RowsHold, LiveTypeOK
<1>4. RemovalsKnow'
  BY <1>3, RemovalsStep DEF RowsInv
<1> QED
  BY <1>2, <1>4 DEF RowsInv, RowsHold, LiveTypeOK

LEMMA WriterStep ==
    ASSUME RowsInv, RowsHold', NothingUndone, NEW c \in Threads,
           NEW j \in CallRows, Sound(j)', j.at # "remove", Call(c, j)
    PROVE  RowsInv'
<1>1. calls' = [calls EXCEPT ![c] = j] /\ calls \in [Threads -> CallRows]
  BY DEF Call, RowsInv, LiveTypeOK
<1>2. Sound(calls[c])'
  BY <1>1 DEF Sound
<1> QED
  BY <1>1, <1>2, CallersStep

-----------------------------------------------------------------------------
(* Writing fields of a class *)

TouchedAt(s) ==
    IF Alive(s)
    THEN /\ session'[s] \in SessionRows
         /\ session'[s].origin = session[s].origin
         /\ session[s].room => session'[s].room
         /\ session'[s].started => session'[s].room
         /\ session'[s].seats <= offered'[s]
    ELSE session'[s] = session[s]

Touched ==
    /\ UNCHANGED <<request, clock, withdrawn, late, edits>>
    /\ session' \in [Sessions -> SessionRows \cup {Unborn, Removed}]
    /\ offered' \in [Sessions -> Seats \cup {0}]
    /\ \A s \in Sessions : TouchedAt(s)

LEMMA Untouched ==
    ASSUME RowsInv, NEW s \in Sessions, session'[s] = session[s],
           offered'[s] = offered[s]
    PROVE  TouchedAt(s)
BY SessionFields DEF RowsInv, StartedHasRoom, SeatsWereOffered, TouchedAt

LEMMA AllUntouched ==
    ASSUME RowsInv, UNCHANGED <<session, request, clock, offered, withdrawn, late, edits>>
    PROVE  Touched
BY Untouched DEF Touched, RowsInv, LiveTypeOK

LEMMA TouchStep ==
    ASSUME RowsInv, Touched
    PROVE  RowsHold' /\ NothingUndone
<1> USE DEF RowsInv, LiveTypeOK, Touched, TouchedAt
<1>1. ASSUME NEW s \in Sessions PROVE Alive(s)' <=> Alive(s)
  BY <1>1, LiveRowsAssumption DEF Alive
<1>2. ASSUME NEW r \in Requests
      PROVE  /\ Made(r)' <=> Made(r)
             /\ Made(r) /\ request[r].target # None => request[r].target \in Sessions
  BY RequestFields DEF Made, RequestRows
<1>3. NothingUndone
  BY <1>1, <1>2 DEF NothingUndone, Alive
<1>4. TargetsExist' /\ FinishedLeavesNothing'
  BY <1>1, <1>2 DEF TargetsExist, FinishedLeavesNothing
<1>5. SeatsWereOffered' /\ StartedHasRoom'
  BY <1>1 DEF SeatsWereOffered, StartedHasRoom
<1>7. OneSessionPerRequest'
  BY <1>1 DEF OneSessionPerRequest
<1> QED
  BY <1>3, <1>4, <1>5, <1>7 DEF RowsHold

LEMMA UpdateTouches ==
    ASSUME RowsInv, NEW c \in Calls, StoreUpdate(c)
    PROVE  Touched
<1> LiveTypeOK
  BY DEF RowsInv
<1> DEFINE s == calls[c].session
           changes == calls[c].changes
<1>1. /\ s \in Sessions /\ changes \in Changes
      /\ UNCHANGED <<request, clock, withdrawn, late, edits>> /\ Return(c)
  BY CallFields, CallsAreThreads DEF StoreUpdate, At, LiveTypeOK
<1>2. CASE ~Alive(s)
  <2>1. UNCHANGED <<session, offered>>
    BY <1>2 DEF StoreUpdate
  <2> QED
    BY <1>1, <2>1, AllUntouched
<1>3. CASE Alive(s)
  <2>1. /\ session[s] \in SessionRows
        /\ changes.start \in Starts \cup {None} /\ changes.length \in Lengths \cup {None}
        /\ changes.seats \in Seats \cup {None}
    BY <1>1, <1>3, SessionFields DEF Changes
  <2>2. PICK row \in SessionRows :
          /\ row.origin = session[s].origin /\ row.room = session[s].room
          /\ row.started = session[s].started
          /\ session' = [session EXCEPT ![s] = row]
    <3> DEFINE new == [session[s] EXCEPT
                         !.start = IF changes.start = None THEN @ ELSE changes.start,
                         !.length = IF changes.length = None THEN @ ELSE changes.length,
                         !.seats = IF changes.seats = None THEN @ ELSE changes.seats]
    <3>1. /\ new \in SessionRows /\ new.origin = session[s].origin
          /\ new.room = session[s].room /\ new.started = session[s].started
      BY <2>1 DEF SessionRows
    <3>2. session' = [session EXCEPT ![s] = new]
      BY <1>1, <1>3 DEF StoreUpdate, LiveTypeOK
    <3> HIDE DEF new
    <3> QED
      BY <3>1, <3>2
  <2>3. offered' = [offered EXCEPT ![s] = Larger(@, session'[s].seats)]
    BY <1>1, <1>3 DEF StoreUpdate, LiveTypeOK
  <2>4. session[s].started => session[s].room
    BY <1>1, <1>3 DEF RowsInv, StartedHasRoom
  <2>5. s \in Sessions
    BY <1>1
  <2> HIDE DEF s, changes
  <2>6. session'[s] = row /\ row.seats \in Seats /\ offered[s] \in Seats \cup {0}
    BY <2>2, <2>5 DEF SessionRows, LiveTypeOK
  <2>7. /\ offered'[s] \in Seats /\ row.seats <= offered'[s]
    <3>1. Seats \subseteq Nat \ {0}
      BY StartsAndSeats
    <3>2. row.seats \in Nat \ {0} /\ offered[s] \in Nat
      <4>1. row.seats \in Seats /\ offered[s] \in Seats \cup {0}
        BY ONLY <2>6
      <4>2. 0 \in Nat
        OBVIOUS
      <4> QED
        BY ONLY <3>1, <4>1, <4>2
    <3>3. offered'[s] = Larger(offered[s], row.seats)
      BY <2>3, <2>5, <2>6 DEF LiveTypeOK
    <3> QED
      BY <2>6, <3>2, <3>3 DEF Larger
  <2>8. TouchedAt(s)
    BY <1>3, <2>2, <2>3, <2>4, <2>5, <2>6, <2>7 DEF TouchedAt, LiveTypeOK
  <2>9. ASSUME NEW t \in Sessions, t # s PROVE TouchedAt(t)
    BY <2>2, <2>3, <2>9, Untouched DEF LiveTypeOK
  <2>10. session' \in [Sessions -> SessionRows \cup {Unborn, Removed}]
    BY <2>2 DEF LiveTypeOK
  <2>11. offered' \in [Sessions -> Seats \cup {0}]
    BY <2>3, <2>5, <2>7 DEF LiveTypeOK
  <2> QED
    BY <1>1, <2>8, <2>9, <2>10, <2>11 DEF Touched
<1> QED
  BY <1>2, <1>3

\* Starting a class: its room first, then its status.
LEMMA RoomTouches ==
    ASSUME RowsInv, NEW c \in Calls, OpenRoom(c) \/ StartSession(c)
    PROVE  Touched
<1> DEFINE s == calls[c].session
<1>1. s \in Sessions /\ (At(c, "start") /\ Alive(s) => session[s].room)
  BY CallFields, CallsAreThreads DEF OpenRoom, StartSession, At, RowsInv, LiveTypeOK, CallsAreSound, Sound
<1>2. UNCHANGED <<request, clock, offered, withdrawn, late, edits>>
  BY DEF OpenRoom, StartSession
<1>3. CASE UNCHANGED session
  BY <1>2, <1>3, AllUntouched
<1>4. CASE Alive(s) /\ \E row \in SessionRows :
             /\ session' = [session EXCEPT ![s] = row]
             /\ row.start = session[s].start /\ row.origin = session[s].origin
             /\ row.seats = session[s].seats
             /\ (session[s].room => row.room) /\ (row.started => row.room)
  <2> HIDE DEF s
  <2>1. PICK row \in SessionRows :
             /\ session' = [session EXCEPT ![s] = row]
             /\ row.start = session[s].start /\ row.origin = session[s].origin
             /\ row.seats = session[s].seats
             /\ (session[s].room => row.room) /\ (row.started => row.room)
    BY <1>4
  <2>2. session[s].seats <= offered[s]
    BY <1>1, <1>4 DEF RowsInv, SeatsWereOffered
  <2>3. session' \in [Sessions -> SessionRows \cup {Unborn, Removed}] /\ session'[s] = row
    BY <1>1, <2>1 DEF RowsInv, LiveTypeOK
  <2>4. TouchedAt(s)
    <3>1. /\ Alive(s) /\ session'[s] = row /\ offered'[s] = offered[s]
      BY <1>2, <1>4, <2>3
    <3>2. row.seats <= offered[s]
      BY <2>1, <2>2
    <3> QED
      BY <2>1, <3>1, <3>2 DEF TouchedAt
  <2>5. ASSUME NEW t \in Sessions, t # s PROVE TouchedAt(t)
    BY <1>2, <2>1, <2>5, Untouched DEF RowsInv, LiveTypeOK
  <2> QED
    BY <1>2, <2>3, <2>4, <2>5 DEF Touched, RowsInv, LiveTypeOK
<1>5. ASSUME Alive(s), OpenRoom(c) /\ ~calls[c].room
      PROVE  session' = [session EXCEPT ![s] = [session[s] EXCEPT !.room = TRUE]]
  BY <1>1, <1>5 DEF OpenRoom, RowsInv, LiveTypeOK
<1>6. ASSUME Alive(s), StartSession(c)
      PROVE  session' = [session EXCEPT ![s] = [session[s] EXCEPT !.started = TRUE]]
  BY <1>1, <1>6 DEF StartSession, RowsInv, LiveTypeOK
<1>7. ASSUME Alive(s)
      PROVE  session[s] \in SessionRows /\ (session[s].started => session[s].room)
  BY <1>1, <1>7, SessionFields DEF RowsInv, StartedHasRoom
<1>8. CASE Alive(s) /\ OpenRoom(c) /\ ~calls[c].room
  <2> DEFINE row == [session[s] EXCEPT !.room = TRUE]
  <2>0. session[s] \in SessionRows
    BY <1>7, <1>8
  <2>1. /\ row \in SessionRows /\ row.start = session[s].start
        /\ row.origin = session[s].origin /\ row.seats = session[s].seats /\ row.room
    BY <2>0 DEF SessionRows
  <2>2. session' = [session EXCEPT ![s] = row]
    BY <1>5, <1>8
  <2> HIDE DEF row
  <2> QED
    BY <1>4, <1>8, <2>1, <2>2
<1>9. CASE Alive(s) /\ StartSession(c)
  <2> DEFINE row == [session[s] EXCEPT !.started = TRUE]
  <2>0. session[s] \in SessionRows
    BY <1>7, <1>9
  <2>1. /\ row \in SessionRows /\ row.start = session[s].start /\ row.room = session[s].room
        /\ row.origin = session[s].origin /\ row.seats = session[s].seats
    BY <2>0 DEF SessionRows
  <2>2. session' = [session EXCEPT ![s] = row] /\ session[s].room
    BY <1>1, <1>6, <1>9 DEF StartSession
  <2> HIDE DEF row
  <2> QED
    BY <1>4, <1>9, <2>1, <2>2
<1>10. CASE OpenRoom(c) /\ (calls[c].room \/ ~Alive(s))
  BY <1>3, <1>10 DEF OpenRoom
<1>11. CASE StartSession(c) /\ ~Alive(s)
  BY <1>3, <1>11 DEF StartSession
<1> QED
  BY <1>8, <1>9, <1>10, <1>11

LEMMA TouchingStep ==
    ASSUME RowsInv, NEW c \in Calls, StoreUpdate(c) \/ OpenRoom(c) \/ StartSession(c)
    PROVE  RowsInv'
<1>1. Touched
  BY UpdateTouches, RoomTouches
<1>2. RowsHold' /\ NothingUndone
  BY <1>1, TouchStep
<1>3. CASE Return(c)
  BY <1>2, <1>3, RestingIsSound, CallsAreThreads, WriterStep DEF Return, Resting, Sound
<1>4. CASE OpenRoom(c) /\ ~Return(c)
  <2>1. PICK s \in Sessions : s = calls[c].session /\ Sound(calls[c])
    BY <1>4, CallFields, CallsAreThreads DEF OpenRoom, At, RowsInv, LiveTypeOK, CallsAreSound
  <2> DEFINE j == [at |-> "start", session |-> s]
  <2>2. /\ Call(c, j) /\ At(c, "room")
        /\ \/ calls[c].room /\ UNCHANGED session
           \/ Alive(s) /\ session' = [session EXCEPT ![s].room = TRUE]
    BY <1>4, <2>1 DEF OpenRoom, Return
  <2>3. session[s] # Unborn
    BY <2>1, <2>2 DEF Sound, At
  <2>4. Alive(s)' => session'[s].room
    <3>1. CASE calls[c].room /\ UNCHANGED session
      <4>1. Alive(s) => session[s].room
        BY <2>1, <2>2, <3>1 DEF Sound, At
      <4>2. Alive(s)' <=> Alive(s)
        BY <3>1 DEF Alive
      <4> QED
        BY <3>1, <4>1, <4>2
    <3>2. CASE Alive(s) /\ session' = [session EXCEPT ![s].room = TRUE]
      <4>1. session[s] \in SessionRows
        BY <2>1, <3>2, SessionFields DEF RowsInv
      <4> QED
        BY <2>1, <3>2, <4>1 DEF SessionRows, RowsInv, LiveTypeOK, Alive
    <3> QED
      BY <2>2, <3>1, <3>2
  <2>5. session'[s] # Unborn
    BY <1>2, <2>1, <2>3 DEF NothingUndone
  <2>6. j \in CallRows /\ j.at # "remove"
    BY <2>1 DEF CallRows
  <2>7. Sound(j)'
    BY <2>4, <2>5 DEF Sound
  <2> HIDE DEF j
  <2> QED
    BY <1>2, <2>2, <2>6, <2>7, CallsAreThreads, WriterStep
<1> QED
  BY <1>3, <1>4 DEF StoreUpdate, StartSession

-----------------------------------------------------------------------------
(* New classes *)

LEMMA InsertStep ==
    ASSUME RowsInv, NEW row \in SessionRows, ~row.started, ~Refused(row.origin),
           Insert(row), UNCHANGED <<request, clock, withdrawn, late, edits>>
    PROVE  RowsHold' /\ NothingUndone
<1> USE DEF RowsInv, LiveTypeOK
<1>1. PICK s \in Sessions :
        /\ session[s] = Unborn
        /\ session' = [session EXCEPT ![s] = row]
        /\ offered' = [offered EXCEPT ![s] = row.seats]
  BY DEF Insert
<1>2. row # Unborn /\ row # Removed /\ row.seats \in Seats
  BY LiveRowsAssumption DEF SessionRows
<1>3. ASSUME NEW t \in Sessions
      PROVE  /\ Alive(t)' <=> Alive(t) \/ t = s
             /\ t # s => session'[t] = session[t] /\ offered'[t] = offered[t]
             /\ session'[s] = row /\ offered'[s] = row.seats /\ ~Alive(s)
  BY <1>1, <1>2 DEF Alive
<1>5. ASSUME NEW r \in Requests
      PROVE  /\ Made(r)' <=> Made(r)
             /\ Made(r) /\ request[r].target # None => request[r].target \in Sessions
  BY RequestFields DEF Made, RequestRows
<1>4. NothingUndone
  BY <1>1, <1>2, <1>3, <1>5 DEF NothingUndone
<1>6. TargetsExist' /\ FinishedLeavesNothing'
  BY <1>3, <1>5 DEF TargetsExist, FinishedLeavesNothing
<1>7. SeatsWereOffered' /\ StartedHasRoom'
  <2>1. row.seats \in Nat
    BY <1>2, StartsAndSeats
  <2> QED
    BY <1>2, <1>3, <2>1 DEF SeatsWereOffered, StartedHasRoom
<1>9. OneSessionPerRequest'
  <2>1. row.origin # None => \A t \in Sessions : Alive(t) => session[t].origin # row.origin
    BY DEF Refused
  <2> QED
    BY <1>3, <2>1 DEF OneSessionPerRequest
<1>10. /\ session' \in [Sessions -> SessionRows \cup {Unborn, Removed}]
       /\ offered' \in [Sessions -> Seats \cup {0}]
  BY <1>1, <1>2
<1> QED
  BY <1>4, <1>6, <1>7, <1>9, <1>10 DEF RowsHold

LEMMA InsertSessionStep ==
    ASSUME RowsInv, NEW c \in Calls, InsertSession(c)
    PROVE  RowsInv'
<1> DEFINE row == calls[c].row
<1>1. row \in SessionRows /\ ~row.started
  BY CallFields, CallsAreThreads DEF InsertSession, At, RowsInv, LiveTypeOK, CallsAreSound, Sound
<1>2. /\ Return(c) /\ UNCHANGED <<request, clock, withdrawn, late, edits>>
      /\ IF Refused(row.origin) THEN UNCHANGED <<session, offered>> ELSE Insert(row)
  BY DEF InsertSession
<1> HIDE DEF row
<1>4. RowsHold' /\ NothingUndone
  <2>1. CASE Refused(row.origin)
    BY <1>2, <2>1, AllUntouched, TouchStep
  <2>2. CASE ~Refused(row.origin)
    BY <1>1, <1>2, <2>2, InsertStep
  <2> QED
    BY <2>1, <2>2
<1> QED
  BY <1>2, <1>4, RestingIsSound, CallsAreThreads, WriterStep DEF Return, Resting, Sound

-----------------------------------------------------------------------------
(* Applications and requests *)

\* A request is stored or answered, and no class changes.
LEMMA RequestStep ==
    ASSUME RowsInv, NEW r \in Requests, NEW row \in RequestRows,
           request' = [request EXCEPT ![r] = row],
           row.target # None =>
              /\ Alive(row.target) /\ row.filed = row.target
              /\ \/ Made(r) /\ request[r].target = row.target
                 \/ r \in late' \/ row.target \notin BeingRemoved,
           row.target = None /\ row.filed # None => r \in late' \/ row.filed \in withdrawn,
           late \subseteq late', late' \subseteq Requests,
           UNCHANGED <<session, clock, offered, withdrawn, edits>>
    PROVE  RowsHold' /\ NothingUndone
<1> USE DEF RowsInv, LiveTypeOK
<1>1. row # Unborn /\ row # Removed
  BY LiveRowsAssumption
<1>2. ASSUME NEW q \in Requests
      PROVE  /\ request'[r] = row
             /\ q # r => request'[q] = request[q]
             /\ q # r => (Made(q)' <=> Made(q))
  BY DEF Made
<1>3. ASSUME NEW s, s \in Sessions \/ s = row.target \/ \E q \in Requests : s = request[q].target
      PROVE  Alive(s)' <=> Alive(s)
  BY DEF Alive
<1>4. NothingUndone
  <2>1. \A q \in Requests : request[q] # Unborn => request'[q] # Unborn
    BY <1>1, <1>2
  <2>2. ASSUME NEW q \in Requests, Made(q)', request'[q].target # None
        PROVE  \/ Made(q) /\ request'[q].target = request[q].target
               \/ q \in late' \/ request'[q].target \notin BeingRemoved
    BY <1>2, <2>2
  <2> QED
    BY <1>3, <2>1, <2>2 DEF NothingUndone
<1>5. TargetsExist'
  BY <1>2, <1>3 DEF TargetsExist
<1>6. FinishedLeavesNothing'
  BY <1>2 DEF FinishedLeavesNothing
<1>7. SeatsWereOffered' /\ StartedHasRoom' /\ OneSessionPerRequest'
  BY <1>3 DEF SeatsWereOffered, StartedHasRoom, OneSessionPerRequest
<1> QED
  BY <1>4, <1>5, <1>6, <1>7 DEF RowsHold

LEMMA NothingStep ==
    ASSUME RowsInv, UNCHANGED <<session, request, clock, offered, withdrawn, late, edits>>
    PROVE  RowsHold' /\ NothingUndone
BY AllUntouched, TouchStep

LEMMA InsertRequestStep ==
    ASSUME RowsInv, NEW c \in Calls, InsertRequest(c)
    PROVE  RowsInv'
<1>1. PICK row \in RequestRows :
        row = calls[c].row /\ row.filed = row.target /\ row.status = "pending"
  BY CallFields, CallsAreThreads
     DEF InsertRequest, RowsInv, LiveTypeOK, CallsAreSound, Sound
<1>2. /\ UNCHANGED <<session, clock, offered, withdrawn, edits>>
      /\ Return(c)
      /\ \/ UNCHANGED <<request, late>>
         \/ /\ (row.target = None \/ Alive(row.target)) /\ File(row)
            /\ late' = late \cup (IF row.target \in BeingRemoved
                                  THEN {r \in Requests : request'[r] # request[r]} ELSE {})
  BY <1>1 DEF InsertRequest
<1>3. RowsHold' /\ NothingUndone
  <2>1. CASE UNCHANGED <<request, late>>
    BY <1>2, <2>1, NothingStep
  <2>2. CASE ~UNCHANGED <<request, late>>
    <3>1. PICK r \in Requests : request[r] = Unborn /\ request' = [request EXCEPT ![r] = row]
      BY <1>2, <2>2 DEF File
    <3>2. request'[r] # request[r]
      BY <3>1, LiveRowsAssumption DEF RowsInv, LiveTypeOK
    <3>3. /\ late \subseteq late' /\ late' \subseteq Requests
          /\ row.target \in BeingRemoved => r \in late'
      BY <1>2, <2>2, <3>2 DEF RowsInv, LiveTypeOK
    <3>4. row.target # None => Alive(row.target) /\ row.filed = row.target
      BY <1>1, <1>2, <2>2
    <3> QED
      BY <1>1, <1>2, <3>1, <3>3, <3>4, RequestStep
  <2> QED
    BY <2>1, <2>2
<1> QED
  BY <1>2, <1>3, RestingIsSound, CallsAreThreads, WriterStep DEF Return, Resting, Sound

LEMMA StoreAnswerStep ==
    ASSUME RowsInv, NEW c \in Calls, StoreAnswer(c)
    PROVE  RowsInv'
<1>1. PICK r \in Requests : r = calls[c].request /\ calls[c].status \in {"accepted", "cancelled"}
  BY CallFields, CallsAreThreads DEF StoreAnswer, At, RowsInv, LiveTypeOK
<1>2. /\ UNCHANGED <<session, clock, offered, withdrawn, late, edits>>
      /\ Return(c)
      /\ \/ UNCHANGED request
         \/ Made(r) /\ request' = [request EXCEPT ![r].status = calls[c].status]
  BY <1>1 DEF StoreAnswer
<1>3. RowsHold' /\ NothingUndone
  <2>1. CASE UNCHANGED request
    BY <1>2, <2>1, NothingStep
  <2>2. CASE Made(r) /\ request' = [request EXCEPT ![r].status = calls[c].status]
    <3>0. request[r] \in RequestRows
      BY <2>2, RequestFields DEF RowsInv
    <3> DEFINE row == [request[r] EXCEPT !.status = calls[c].status]
    <3>1. /\ row \in RequestRows
          /\ row.target = request[r].target /\ row.filed = request[r].filed
      BY <1>1, <3>0 DEF RequestRows
    <3>2. request' = [request EXCEPT ![r] = row]
      BY <2>2 DEF RowsInv, LiveTypeOK
    <3> HIDE DEF row
    <3>3. /\ row.target # None => Alive(row.target) /\ row.filed = row.target
          /\ row.target = None /\ row.filed # None => r \in late \/ row.filed \in withdrawn
      BY <2>2, <3>1 DEF RowsInv, TargetsExist, FinishedLeavesNothing
    <3>4. late' = late /\ late \subseteq Requests
      BY <1>2 DEF RowsInv, LiveTypeOK
    <3> QED
      BY <1>2, <2>2, <3>1, <3>2, <3>3, <3>4, RequestStep
  <2> QED
    BY <1>2, <2>1, <2>2
<1> QED
  BY <1>2, <1>3, RestingIsSound, CallsAreThreads, WriterStep DEF Return, Resting, Sound

-----------------------------------------------------------------------------
(* Removing classes *)

LEMMA RemoveStep ==
    ASSUME RowsInv, NEW gone \in SUBSET Sessions, NEW applications \in SUBSET Requests,
           Remove(gone, applications),
           \A r \in Requests \ applications :
              Made(r) /\ request[r].target \in gone =>
                 r \in late \/ request[r].target \in withdrawn',
           withdrawn \subseteq withdrawn', withdrawn' \subseteq Sessions,
           UNCHANGED <<clock, offered, late, edits>>
    PROVE  RowsHold' /\ NothingUndone
<1> USE DEF RowsInv, LiveTypeOK
<1>1. /\ session' = [s \in Sessions |->
            IF s \in gone /\ Alive(s) THEN Removed
            ELSE IF Alive(s) /\ session[s].origin \in applications
                 THEN [session[s] EXCEPT !.origin = None]
                 ELSE session[s]]
      /\ request' = [r \in Requests |-> IF r \in applications THEN Removed
                                        ELSE Unlink(gone)[r]]
  BY DEF Remove
<1>3. ASSUME NEW t \in Sessions, Alive(t)
      PROVE  /\ session[t] \in SessionRows
             /\ [session[t] EXCEPT !.origin = None] \in SessionRows
             /\ [session[t] EXCEPT !.origin = None].origin = None
             /\ [session[t] EXCEPT !.origin = None].seats = session[t].seats
             /\ [session[t] EXCEPT !.origin = None].start = session[t].start
             /\ [session[t] EXCEPT !.origin = None].room = session[t].room
             /\ [session[t] EXCEPT !.origin = None].started = session[t].started
             /\ [session[t] EXCEPT !.origin = None] \notin {Unborn, Removed}
  <2>1. session[t] \in SessionRows
    BY <1>3, SessionFields
  <2>2. [session[t] EXCEPT !.origin = None] \in SessionRows
    BY <2>1 DEF SessionRows
  <2>3. [session[t] EXCEPT !.origin = None] \notin {Unborn, Removed}
    BY <2>2, LiveRowsAssumption
  <2> QED
    BY <2>1, <2>2, <2>3 DEF SessionRows
<1>4. ASSUME NEW t \in Sessions
      PROVE  \/ session'[t] = Removed /\ Alive(t) /\ t \in gone
             \/ ~(Alive(t) /\ t \in gone) /\ session'[t] = session[t]
             \/ /\ t \notin gone /\ Alive(t)
                /\ session'[t] = [session[t] EXCEPT !.origin = None]
  BY <1>1
<1>5. ASSUME NEW t \in Sessions PROVE Alive(t)' <=> Alive(t) /\ t \notin gone
  BY <1>3, <1>4, LiveRowsAssumption DEF Alive
<1>6. ASSUME NEW t \in Sessions, Alive(t)'
      PROVE  /\ Alive(t)
             /\ session'[t].origin \in {session[t].origin, None}
             /\ session'[t].seats = session[t].seats
             /\ session'[t].start = session[t].start
             /\ session'[t].room = session[t].room
             /\ session'[t].started = session[t].started
  BY <1>3, <1>4, <1>5, <1>6
<1>2. ASSUME NEW r \in Requests, Made(r)
      PROVE  /\ request[r] \in RequestRows /\ request[r].target \in Sessions \cup {None}
             /\ [request[r] EXCEPT !.target = None] \in RequestRows
             /\ [request[r] EXCEPT !.target = None].target = None
             /\ [request[r] EXCEPT !.target = None].filed = request[r].filed
             /\ [request[r] EXCEPT !.target = None] \notin {Unborn, Removed}
  <2>1. request[r] \in RequestRows
    BY <1>2, RequestFields
  <2>2. [request[r] EXCEPT !.target = None] \in RequestRows
    BY <2>1 DEF RequestRows
  <2>3. [request[r] EXCEPT !.target = None] \notin {Unborn, Removed}
    BY <2>2, LiveRowsAssumption
  <2> QED
    BY <2>1, <2>2, <2>3 DEF RequestRows
<1>7. ASSUME NEW r \in Requests
      PROVE  \/ r \in applications /\ request'[r] = Removed
             \/ /\ r \notin applications /\ Made(r) /\ request[r].target \in gone
                /\ request'[r] = [request[r] EXCEPT !.target = None]
             \/ /\ r \notin applications /\ ~(Made(r) /\ request[r].target \in gone)
                /\ request'[r] = request[r]
  BY <1>1 DEF Unlink
<1>15. request' \in [Requests -> RequestRows \cup {Unborn, Removed}]
  BY <1>1, <1>2, <1>7
<1>16. ASSUME NEW r \in Requests, Made(r)'
       PROVE  /\ Made(r) /\ r \notin applications /\ request'[r].filed = request[r].filed
              /\ \/ request[r].target \in gone /\ request'[r].target = None
                 \/ /\ request[r].target \notin gone
                    /\ request'[r].target = request[r].target
  BY <1>2, <1>7, <1>16 DEF Made
<1>8. NothingUndone
  <2>1. \A r \in Requests : request[r] # Unborn => request'[r] # Unborn
    BY <1>2, <1>7, LiveRowsAssumption DEF Made
  <2>2. \A t \in Sessions : session[t] # Unborn => session'[t] # Unborn
    BY <1>3, <1>4, LiveRowsAssumption
  <2>3. ASSUME NEW r \in Requests, Made(r)', request'[r].target # None
        PROVE  Made(r) /\ request'[r].target = request[r].target
    BY <1>16, <2>3
  <2> QED
    BY <1>6, <2>1, <2>2, <2>3 DEF NothingUndone
<1>9. TargetsExist'
  <2> SUFFICES ASSUME NEW r \in Requests, Made(r)', request'[r].target # None
               PROVE  (Alive(request[r].target) /\ request[r].filed = request[r].target)'
    BY DEF TargetsExist
  <2>1. /\ Made(r) /\ request'[r].target = request[r].target /\ request[r].target \notin gone
        /\ request'[r].filed = request[r].filed
    BY <1>16
  <2>2. request[r].target \in Sessions
    BY <2>1, <1>2
  <2> QED
    BY <1>5, <2>1, <2>2 DEF TargetsExist
<1>10. FinishedLeavesNothing'
  <2> SUFFICES ASSUME NEW r \in Requests \ late, Made(r)', request'[r].filed # None,
                      request'[r].target = None
               PROVE  request'[r].filed \in withdrawn'
    BY DEF FinishedLeavesNothing
  <2>1. /\ Made(r) /\ r \notin applications /\ request'[r].filed = request[r].filed
        /\ request[r].target \in gone \/ request[r].target = None
    BY <1>16
  <2>2. CASE request[r].target \in gone
    <3>1. request[r].target # None
      BY <2>2, LiveSessionsAssumption
    <3>2. request[r].filed = request[r].target /\ request[r].target \in withdrawn'
      BY <2>1, <2>2, <3>1 DEF TargetsExist
    <3> QED
      BY <2>1, <3>2
  <2>3. CASE request[r].target = None
    BY <2>1, <2>3 DEF FinishedLeavesNothing
  <2> QED
    BY <2>1, <2>2, <2>3
<1>11. SeatsWereOffered' /\ StartedHasRoom'
  BY <1>6 DEF SeatsWereOffered, StartedHasRoom
<1>12. OneSessionPerRequest'
  BY <1>6 DEF OneSessionPerRequest
<1>14. session' \in [Sessions -> SessionRows \cup {Unborn, Removed}]
  BY <1>1, <1>3
<1> QED
  BY <1>8, <1>9, <1>10, <1>11, <1>12, <1>14, <1>15 DEF RowsHold

\* The requests in flight go on, or are over.
LEMMA JobStep ==
    ASSUME RowsInv, RowsHold', NothingUndone, calls' = [x \in Threads |-> calls'[x]],
           \A x \in Threads : calls'[x] = calls[x] \/ calls'[x] = Resting
    PROVE  RowsInv'
<1>1. Resting \in CallRows /\ Sound(Resting)' /\ Resting.at # "remove"
  BY RestingIsSound DEF Sound, Resting
<1>2. ASSUME NEW x \in Threads, calls'[x] = Resting PROVE Sound(calls[x])'
  BY <1>1, <1>2 DEF Sound, Resting
<1> QED
  BY <1>1, <1>2, CallersStep

LEMMA FinishedCalls ==
    ASSUME RowsInv, NEW c \in Threads, FinishCall(c) \/ Return(c)
    PROVE  /\ calls' = [x \in Threads |-> calls'[x]]
           /\ \A x \in Threads : calls'[x] = calls[x] \/ calls'[x] = Resting
<1>1. CASE FinishCall(c)
  <2> DEFINE F(y) == IF y = c \/ WaitsFor(c, y) THEN Resting ELSE calls[y]
  <2>1. calls' = [y \in Threads |-> F(y)]
    BY <1>1 DEF FinishCall
  <2>2. \A y \in Threads : F(y) = calls[y] \/ F(y) = Resting
    OBVIOUS
  <2> HIDE DEF F
  <2> QED
    BY <2>1, <2>2
<1>2. CASE Return(c)
  BY <1>2 DEF Return, Call, RowsInv, LiveTypeOK
<1> QED
  BY <1>1, <1>2

LEMMA RemovingStep ==
    ASSUME RowsInv, NEW c \in Threads, DeleteRow(c) \/ RemoveEnded(c)
    PROVE  RowsInv'
<1>1. FinishCall(c) \/ Return(c)
  BY DEF DeleteRow, RemoveEnded
<1>2. RowsHold' /\ NothingUndone
  <2> DEFINE gone == calls[c].gone
             applications == calls[c].applications
  <2>1. CASE UNCHANGED <<session, request, withdrawn>>
    BY <2>1, NothingStep DEF DeleteRow, RemoveEnded
  <2>2. CASE DeleteRow(c) /\ ~UNCHANGED <<session, request, withdrawn>>
    <3>1. gone \in SUBSET Sessions
      BY <2>2, CallFields DEF DeleteRow, At, RowsInv, LiveTypeOK
    <3>2. /\ Remove(gone, {}) /\ withdrawn' = withdrawn \cup {s \in gone : Alive(s)}
          /\ UNCHANGED <<clock, offered, late, edits>>
      BY <2>2 DEF DeleteRow
    <3>3. withdrawn \subseteq withdrawn' /\ withdrawn' \subseteq Sessions
      BY <3>1, <3>2 DEF RowsInv, LiveTypeOK
    <3>4. ASSUME NEW r \in Requests, Made(r), request[r].target \in gone
          PROVE  request[r].target \in withdrawn'
      <4>1. Alive(request[r].target)
        BY <3>1, <3>4, LiveSessionsAssumption DEF RowsInv, TargetsExist
      <4> QED
        BY <3>2, <3>4, <4>1
    <3> HIDE DEF gone
    <3>5. {} \in SUBSET Requests
      OBVIOUS
    <3> QED
      BY <3>1, <3>2, <3>3, <3>4, <3>5, RemoveStep
  <2>3. CASE RemoveEnded(c) /\ ~UNCHANGED <<session, request, withdrawn>>
    <3>1. gone \in SUBSET Sessions /\ applications \in SUBSET Requests
      BY <2>3, CallFields DEF RemoveEnded, At, RowsInv, LiveTypeOK
    <3>2. /\ Remove(gone, applications) /\ UNCHANGED <<clock, offered, withdrawn, late, edits>>
      BY <2>3 DEF RemoveEnded
    <3>3. \A r \in Requests \ applications :
            Made(r) /\ request[r].target \in gone => r \in late
      BY <2>3 DEF RemoveEnded, RowsInv, RemovalsKnow
    <3>4. withdrawn \subseteq withdrawn' /\ withdrawn' \subseteq Sessions
      BY <3>2 DEF RowsInv, LiveTypeOK
    <3> HIDE DEF gone, applications
    <3> QED
      BY <3>1, <3>2, <3>3, <3>4, RemoveStep
  <2> QED
    BY <2>1, <2>2, <2>3
<1> QED
  BY <1>1, <1>2, FinishedCalls, JobStep

\* The applications a transaction has deleted are all there are.
LEMMA DeletingStep ==
    ASSUME RowsInv, NEW c \in Threads, DeleteApplications(c)
    PROVE  RowsInv'
<1> DEFINE applications == UNION {Of(s) : s \in calls[c].gone}
           j == [at |-> "remove", gone |-> calls[c].gone, applications |-> applications]
<1>1. /\ calls' = [calls EXCEPT ![c] = j] /\ calls \in [Threads -> CallRows]
      /\ UNCHANGED <<session, request, clock, offered, withdrawn, late, edits>>
  BY DEF DeleteApplications, Call, RowsInv, LiveTypeOK
<1>2. RowsHold' /\ NothingUndone
  BY <1>1, NothingStep
<1>3. j \in CallRows
  <2>1. calls[c].gone \subseteq Sessions
    BY CallFields DEF DeleteApplications, At, RowsInv, LiveTypeOK
  <2>2. applications \subseteq Requests
    BY DEF Of
  <2> QED
    BY <2>1, <2>2 DEF CallRows
<1>4. \A r \in Requests : Made(r) /\ request[r].target \in calls[c].gone => r \in applications
  BY DEF Of
<1>5. j.at = "remove" /\ j.gone = calls[c].gone /\ j.applications = applications
  OBVIOUS
<1> HIDE DEF applications, j
<1>6. calls' \in [Threads -> CallRows] /\ calls'[c] = j
  BY <1>1, <1>3
<1>7. Sound(calls[c])'
  BY <1>5, <1>6 DEF Sound
<1>8. CallsAreSound'
  <2> SUFFICES ASSUME NEW d \in Threads PROVE Sound(calls[d])'
    BY DEF CallsAreSound
  <2>1. calls'[d] = calls[d] \/ (calls'[d] \in CallRows /\ Sound(calls[d])')
    <3>1. CASE d = c
      BY <1>3, <1>6, <1>7, <3>1
    <3>2. CASE d # c
      BY <1>1, <3>2
    <3> QED
      BY <3>1, <3>2
  <2> QED
    BY <1>2, <2>1, CallsStep DEF RowsInv
<1>9. RemovalsKnow'
  <2> SUFFICES ASSUME NEW x \in Threads, At(x, "remove")', NEW r \in Requests, Made(r)',
                      request'[r].target \in calls'[x].gone
               PROVE  r \in calls'[x].applications \/ r \in late'
    BY DEF RemovalsKnow
  <2>1. Made(r) /\ request' = request /\ late' = late
    BY <1>1 DEF Made
  <2>2. CASE x = c
    BY <1>4, <1>5, <1>6, <2>1, <2>2
  <2>3. CASE x # c
    BY <1>1, <2>1, <2>3 DEF RowsInv, RemovalsKnow, At
  <2> QED
    BY <2>2, <2>3
<1> QED
  BY <1>2, <1>6, <1>8, <1>9, RowsAndCalls DEF RowsInv, RowsHold, LiveTypeOK

-----------------------------------------------------------------------------
(* The scheduler, a restart, and every step *)

\* Rows and their histories stay as they are.
LEMMA IdleStep ==
    ASSUME RowsInv,
           UNCHANGED <<session, request, offered, withdrawn, late>>,
           clock' \in 0..MaxTime, edits' \in 0..MaxEdits
    PROVE  RowsHold' /\ NothingUndone
<1>1. RowsHold'
  BY DEF RowsInv, RowsHold, LiveTypeOK, TargetsExist, SeatsWereOffered,
         OneSessionPerRequest, StartedHasRoom, FinishedLeavesNothing, Alive, Made
<1>2. NothingUndone
  BY DEF NothingUndone, Alive, Made
<1> QED
  BY <1>1, <1>2

LEMMA BeginStep ==
    ASSUME RowsInv, NEW c \in Threads, NEW j \in CallRows, Begins(c, j)
    PROVE  RowsInv'
<1>1. RowsHold' /\ NothingUndone
  BY IdleStep DEF Begins, RowsInv, LiveTypeOK
<1>2. Sound(j)'
  BY <1>1, SoundStays DEF Begins
<1> QED
  BY <1>1, <1>2, WriterStep DEF Begins

LEMMA SelectStep ==
    ASSUME RowsInv, SelectEnded
    PROVE  RowsInv'
<1> DEFINE j == [at |-> "end", gone |-> {s \in Sessions : Expired(s)}]
<1>1. j \in CallRows /\ Sound(j) /\ j.at # "remove"
  BY DEF CallRows, Sound
<1>2. Call(None, j) /\ UNCHANGED <<session, request, clock, offered, withdrawn, late, edits>>
  BY DEF SelectEnded
<1> HIDE DEF j
<1>3. Begins(None, j)
  BY <1>1, <1>2 DEF Begins, RowsInv, LiveTypeOK
<1> QED
  BY <1>1, <1>3, CallsAreThreads, BeginStep

LEMMA SessionsStep ==
    ASSUME RowsInv, [LiveNext]_liveVars
    PROVE  RowsInv'
<1>1. ASSUME NEW c \in Calls, \E j \in CallRows : Begins(c, j) PROVE RowsInv'
  BY <1>1, CallsAreThreads, BeginStep
<1>2. ASSUME NEW c \in Calls, NEW start \in Starts, NEW length \in Lengths,
             \/ \E seats \in Seats : CreateLiveSession(c, start, length, seats)
             \/ \E u \in Students : CreateSessionRequest(c, u, start, length)
      PROVE  RowsInv'
  BY <1>1, <1>2, CalendarBegins DEF RowsInv
<1>3. ASSUME NEW c \in Calls, NEW s \in Sessions,
             \/ \E changes \in Changes : UpdateLiveSession(c, s, changes)
             \/ \E u \in Students : ApplyToSession(c, s, u)
             \/ DeleteLiveSession(c, s) \/ JoinSession(c, s) \/ EndSession(c, s)
      PROVE  RowsInv'
  BY <1>1, <1>3, CalendarBegins, ClassBegins DEF RowsInv
<1>4. ASSUME NEW c \in Calls, NEW r \in Requests,
             AcceptApplication(c, r) \/ RejectApplication(c, r) \/ ConfirmSessionRequest(c, r)
      PROVE  RowsInv'
  BY <1>1, <1>4, AnswerBegins DEF RowsInv
<1>5. ASSUME NEW c \in Calls,
             \/ InsertSession(c) \/ StoreUpdate(c) \/ DeleteRow(c)
             \/ InsertRequest(c) \/ StoreAnswer(c)
             \/ OpenRoom(c) \/ StartSession(c)
      PROVE  RowsInv'
  BY <1>5, CallsAreThreads, InsertSessionStep, TouchingStep, RemovingStep,
     InsertRequestStep, StoreAnswerStep
<1>6. ASSUME NEW x \in Threads, DeleteApplications(x) \/ RemoveEnded(x) PROVE RowsInv'
  BY <1>6, DeletingStep, RemovingStep
<1>7. CASE Minute \/ Restart \/ UNCHANGED liveVars
  <2>1. /\ UNCHANGED <<session, request, offered, withdrawn, late>>
        /\ clock' \in 0..MaxTime /\ edits' \in 0..MaxEdits
        /\ calls' = calls \/ calls' = [c \in Threads |-> Resting]
    BY <1>7, LiveSessionsAssumption DEF Minute, Restart, liveVars, RowsInv, LiveTypeOK
  <2>2. calls \in [Threads -> CallRows]
    BY DEF RowsInv, LiveTypeOK
  <2>3. /\ calls' = [x \in Threads |-> calls'[x]]
        /\ \A x \in Threads : calls'[x] = calls[x] \/ calls'[x] = Resting
    BY <2>1, <2>2
  <2> QED
    BY <2>1, <2>3, IdleStep, JobStep
<1>8. CASE SelectEnded
  BY <1>8, SelectStep
<1> QED
  BY <1>2, <1>3, <1>4, <1>5, <1>6, <1>7, <1>8 DEF LiveNext

LEMMA RowsAtStart ==
    ASSUME LiveInit
    PROVE  RowsInv
<1>1. LiveTypeOK
  BY RestingIsSound, LiveSessionsAssumption DEF LiveInit, LiveTypeOK
<1>2. CallsAreSound
  BY RestingIsSound DEF LiveInit, CallsAreSound
<1>3. RemovalsKnow
  BY DEF LiveInit, RemovalsKnow, At, Resting
<1> QED
  BY <1>1, <1>2, <1>3
     DEF LiveInit, RowsInv, TargetsExist, SeatsWereOffered,
         OneSessionPerRequest, StartedHasRoom, FinishedLeavesNothing, Alive, Made

LEMMA LiveInvariance == LiveSpec => []RowsInv
<1>1. LiveInit => RowsInv
  BY RowsAtStart
<1>2. RowsInv /\ [LiveNext]_liveVars => RowsInv'
  BY SessionsStep
<1> QED
  BY <1>1, <1>2, PTL DEF LiveSpec

\* The rows of classes and requests, and the requests in flight, keep their
\* types, whatever overlaps.
THEOREM LiveTypes == LiveSpec => []LiveTypeOK
<1>1. RowsInv => LiveTypeOK
  BY DEF RowsInv
<1> QED
  BY <1>1, LiveInvariance, PTL

\* A request leads to one class, a class in progress has its room, and a class
\* that ends takes its applications along, the late ones excepted.
THEOREM SoundSessions == LiveSpec => []SessionsAreSound
<1>1. RowsInv => SessionsAreSound
  BY DEF RowsInv, SessionsAreSound
<1> QED
  BY <1>1, LiveInvariance, PTL

-----------------------------------------------------------------------------
(* How far a class is overbooked: an acceptance in flight has counted the   *)
(* seats, and takes one when it is stored.                                  *)

Accepting(s) ==
    {c \in Calls : At(c, "answer") /\ calls[c].status = "accepted"
                   /\ calls[c].request \in Of(s)}

Booked(s) ==
    Alive(s) => Cardinality(Accepted(s)) + Cardinality(Accepting(s))
                    < offered[s] + Cardinality(Calls)

SeatsHold == \A s \in Sessions : Booked(s)

LEMMA Counts ==
    ASSUME NEW S, NEW T, IsFiniteSet(T), S \subseteq T
    PROVE  /\ IsFiniteSet(S) /\ Cardinality(S) \in Nat /\ Cardinality(T) \in Nat
           /\ Cardinality(S) <= Cardinality(T)
BY FS_Subset, FS_CardinalityType

LEMMA SetsOfCalls ==
    ASSUME NEW s
    PROVE  /\ Accepted(s) \subseteq Requests /\ Accepting(s) \subseteq Calls
           /\ IsFiniteSet(Accepted(s)) /\ IsFiniteSet(Accepting(s))
           /\ Cardinality(Accepted(s)) \in Nat /\ Cardinality(Accepting(s)) \in Nat
           /\ Cardinality(Accepting(s)) <= Cardinality(Calls)
           /\ Cardinality(Calls) \in Nat
<1>1. Accepted(s) \subseteq Requests /\ Accepting(s) \subseteq Calls
  BY DEF Accepted, Of, Accepting
<1> QED
  BY <1>1, Counts, LiveSessionsAssumption

LEMMA SetsOfCallsNext ==
    ASSUME NEW s
    PROVE  /\ (Accepted(s))' \subseteq Requests /\ (Accepting(s))' \subseteq Calls
           /\ IsFiniteSet((Accepted(s))') /\ IsFiniteSet((Accepting(s))')
           /\ Cardinality((Accepted(s))') \in Nat /\ Cardinality((Accepting(s))') \in Nat
           /\ Cardinality((Accepting(s))') <= Cardinality(Calls)
<1>1. (Accepted(s))' \subseteq Requests /\ (Accepting(s))' \subseteq Calls
  BY DEF Accepted, Of, Accepting
<1> QED
  BY <1>1, Counts, LiveSessionsAssumption

LEMMA SeatsAreNumbers ==
    ASSUME NEW f \in [Sessions -> Seats \cup {0}], NEW s \in Sessions
    PROVE  f[s] \in Nat
<1>1. f[s] \in Seats \cup {0} /\ Seats \subseteq Nat
  BY StartsAndSeats
<1>2. Seats \cup {0} \subseteq Nat
  BY <1>1
<1> QED
  BY <1>1, <1>2

\* No application is accepted, and no acceptance begins.
CalmRequest(r) ==
    Made(r)' /\ request'[r].target # None =>
        \/ /\ Made(r) /\ request'[r].target = request[r].target
           /\ request'[r].status = "accepted" => request[r].status = "accepted"
        \/ request[r] = Unborn /\ request'[r].status # "accepted"

CalmCall(c) ==
    \/ calls'[c] = calls[c]
    \/ ~(calls'[c].at = "answer" /\ calls'[c].status = "accepted")

Calm ==
    /\ \A r \in Requests : CalmRequest(r)
    /\ \A c \in Calls : CalmCall(c)
    /\ \A s \in Sessions : Alive(s) => offered[s] <= offered'[s]

LEMMA CalmStep ==
    ASSUME RowsInv, RowsInv', SeatsHold, Calm
    PROVE  SeatsHold'
<1> SUFFICES ASSUME NEW s \in Sessions, Alive(s)' PROVE Booked(s)'
  BY DEF SeatsHold, Booked
<1>0. s # None
  BY LiveSessionsAssumption
<1>1. (Accepted(s))' \subseteq Accepted(s)
  BY <1>0 DEF Calm, CalmRequest, Accepted, Of
<1>2. (Accepting(s))' \subseteq Accepting(s)
  <2> SUFFICES ASSUME NEW c \in Calls, (c \in Accepting(s))' PROVE c \in Accepting(s)
    BY SetsOfCallsNext
  <2>1. /\ At(c, "answer")' /\ calls'[c].status = "accepted" /\ calls'[c].request \in (Of(s))'
        /\ calls'[c] = calls[c]
    BY DEF Accepting, Calm, CalmCall, At
  <2>2. PICK r \in Requests : r = calls[c].request /\ request[r] # Unborn
    BY <2>1, CallsAreThreads DEF Of, At, RowsInv, CallsAreSound, Sound
  <2>3. r \in Of(s)
    BY <1>0, <2>1, <2>2 DEF Of, Calm, CalmRequest
  <2> QED
    BY <2>1, <2>2, <2>3 DEF Accepting, At
<1>3. /\ Cardinality((Accepted(s))') <= Cardinality(Accepted(s))
      /\ Cardinality((Accepting(s))') <= Cardinality(Accepting(s))
  BY <1>1, <1>2, SetsOfCalls, FS_Subset
<1>4. offered[s] \in Nat /\ offered'[s] \in Nat
  BY SeatsAreNumbers DEF RowsInv, LiveTypeOK
<1>5. CASE Alive(s)
  <2>1. offered[s] <= offered'[s] /\ Booked(s)
    BY <1>5 DEF Calm, SeatsHold
  <2> QED
    BY <1>3, <1>4, <1>5, <2>1, SetsOfCalls, SetsOfCallsNext DEF Booked
<1>6. CASE ~Alive(s)
  <2>1. Of(s) = {}
    BY <1>0, <1>6 DEF Of, RowsInv, TargetsExist
  <2>2. Accepted(s) = {} /\ Accepting(s) = {}
    BY <2>1 DEF Accepted, Accepting
  <2>3. Cardinality((Accepted(s))') = 0 /\ Cardinality((Accepting(s))') = 0
    BY <1>3, <2>2, FS_EmptySet, SetsOfCallsNext
  <2>4. session'[s] \in SessionRows /\ session'[s].seats <= offered'[s]
    BY DEF RowsInv, LiveTypeOK, Alive, SeatsWereOffered
  <2>5. session'[s].seats \in Nat \ {0}
    BY <2>4, StartsAndSeats DEF SessionRows
  <2>6. 0 < offered'[s]
    BY <1>4, <2>4, <2>5
  <2> QED
    BY <1>4, <2>3, <2>6, SetsOfCalls DEF Booked
<1> QED
  BY <1>5, <1>6

\* A handler that reads is calm, unless it accepts.
LEMMA CalmBegins ==
    ASSUME RowsInv, NEW c \in Threads, NEW j \in CallRows, Begins(c, j),
           ~(j.at = "answer" /\ j.status = "accepted")
    PROVE  Calm
<1>1. \A d \in Calls : CalmCall(d)
  BY CallsAreThreads DEF Begins, Call, CalmCall, RowsInv, LiveTypeOK
<1>2. \A r \in Requests : CalmRequest(r)
  BY DEF Begins, CalmRequest, Made
<1>3. \A s \in Sessions : offered[s] <= offered'[s]
  <2>1. offered' = offered /\ offered \in [Sessions -> Seats \cup {0}]
    BY DEF Begins, RowsInv, LiveTypeOK
  <2> QED
    BY <2>1, SeatsAreNumbers
<1> QED
  BY <1>1, <1>2, <1>3 DEF Calm

\* An acceptance found a seat left, and is one of the requests in flight.
LEMMA AcceptanceStep ==
    ASSUME RowsInv, SeatsHold, NEW c \in Calls, NEW j \in CallRows, Begins(c, j),
           NEW r \in Requests, j.at = "answer", j.status = "accepted", j.request = r,
           Made(r), request[r].target # None, HasSeat(request[r].target)
    PROVE  SeatsHold'
<1> SUFFICES ASSUME NEW s \in Sessions, Alive(s)' PROVE Booked(s)'
  BY DEF SeatsHold, Booked
<1>1. /\ UNCHANGED <<session, request, offered>> /\ calls' = [calls EXCEPT ![c] = j]
      /\ calls \in [Threads -> CallRows]
  BY DEF Begins, Call, RowsInv, LiveTypeOK
<1>2. Alive(s) /\ (Of(s))' = Of(s) /\ (Accepted(s))' = Accepted(s)
  BY <1>1 DEF Alive, Of, Accepted, Made
<1>3. offered[s] \in Nat /\ offered'[s] = offered[s]
  BY <1>1, SeatsAreNumbers DEF RowsInv, LiveTypeOK
<1>4. CASE request[r].target = s
  <2>1. Cardinality(Accepted(s)) < session[s].seats /\ session[s].seats <= offered[s]
    BY <1>2, <1>4 DEF HasSeat, RowsInv, SeatsWereOffered
  <2>2. session[s].seats \in Nat
    BY <1>2, SessionFields, StartsAndSeats DEF SessionRows, RowsInv
  <2> QED
    BY <1>2, <1>3, <2>1, <2>2, SetsOfCalls, SetsOfCallsNext DEF Booked
<1>5. CASE request[r].target # s
  <2>1. (Accepting(s))' \subseteq Accepting(s)
    BY <1>1, <1>2, <1>5 DEF Accepting, At, Of
  <2>2. Cardinality((Accepting(s))') <= Cardinality(Accepting(s))
    BY <2>1, SetsOfCalls, FS_Subset
  <2> QED
    BY <1>2, <1>3, <2>2, SetsOfCalls, SetsOfCallsNext DEF Booked, SeatsHold
<1> QED
  BY <1>4, <1>5

\* The answer leaves the requests in flight as the application takes its seat.
LEMMA AnsweredStep ==
    ASSUME RowsInv, RowsInv', SeatsHold, NEW c \in Calls, StoreAnswer(c)
    PROVE  SeatsHold'
<1>1. PICK r \in Requests : r = calls[c].request /\ calls[c].status \in {"accepted", "cancelled"}
  BY CallFields, CallsAreThreads DEF StoreAnswer, At, RowsInv, LiveTypeOK
<1>2. /\ UNCHANGED <<session, offered>>
      /\ calls' = [calls EXCEPT ![c] = Resting] /\ calls \in [Threads -> CallRows]
      /\ request' = IF Made(r) THEN [request EXCEPT ![r].status = calls[c].status]
                               ELSE request
  BY <1>1 DEF StoreAnswer, Return, Call, RowsInv, LiveTypeOK
<1>3. request \in [Requests -> RequestRows \cup {Unborn, Removed}]
  BY DEF RowsInv, LiveTypeOK
<1>4. Made(r) => /\ request[r] \in RequestRows
                 /\ request'[r].target = request[r].target
                 /\ request'[r].status = calls[c].status
  BY <1>2, <1>3, RequestFields DEF RowsInv, RequestRows
<1>5. ASSUME NEW q \in Requests
      PROVE  /\ Made(q)' <=> Made(q)
             /\ q # r => request'[q] = request[q]
             /\ ~Made(r) => request'[q] = request[q]
  <2>1. CASE Made(r)
    <3>1. [request[r] EXCEPT !.status = calls[c].status] \in RequestRows
      BY <1>1, <1>4, <2>1 DEF RequestRows
    <3>2. request'[r] = [request[r] EXCEPT !.status = calls[c].status]
      BY <1>2, <1>3, <2>1
    <3> QED
      BY <1>2, <1>3, <2>1, <3>1, <3>2, LiveRowsAssumption DEF Made
  <2>2. CASE ~Made(r)
    BY <1>2, <2>2 DEF Made
  <2> QED
    BY <2>1, <2>2
<1>6. CASE calls[c].status # "accepted" \/ ~Made(r)
  <2>1. \A q \in Requests : CalmRequest(q)
    BY <1>1, <1>4, <1>5, <1>6 DEF CalmRequest
  <2>2. \A d \in Calls : CalmCall(d)
    BY <1>2 DEF CalmCall, Resting
  <2>3. \A s \in Sessions : offered[s] <= offered'[s]
    BY <1>2, StartsAndSeats DEF RowsInv, LiveTypeOK
  <2> QED
    BY <2>1, <2>2, <2>3, CalmStep DEF Calm
<1>7. CASE calls[c].status = "accepted" /\ Made(r)
  <2> SUFFICES ASSUME NEW s \in Sessions, Alive(s)' PROVE Booked(s)'
    BY DEF SeatsHold, Booked
  <2>0. Alive(s) /\ Booked(s) /\ offered'[s] = offered[s] /\ offered[s] \in Nat
    BY <1>2, StartsAndSeats DEF Alive, SeatsHold, RowsInv, LiveTypeOK
  <2>1. (Of(s))' = Of(s)
    BY <1>4, <1>5, <1>7 DEF Of
  <2>2. (Accepting(s))' = Accepting(s) \ {c}
    BY <1>2, <2>1, CallsAreThreads DEF Accepting, At, Resting
  <2>3. CASE r \in Of(s)
    <3>1. c \in Accepting(s)
      BY <1>1, <1>7, <2>3 DEF Accepting, StoreAnswer
    <3>2. Cardinality((Accepting(s))') = Cardinality(Accepting(s)) - 1
      BY <2>2, <3>1, SetsOfCalls, FS_RemoveElement
    <3>3. (Accepted(s))' \subseteq Accepted(s) \cup {r}
      BY <1>5, <2>1 DEF Accepted, Of
    <3>4. /\ IsFiniteSet(Accepted(s) \cup {r})
          /\ Cardinality(Accepted(s) \cup {r}) <= Cardinality(Accepted(s)) + 1
          /\ Cardinality(Accepted(s) \cup {r}) \in Nat
      <4>1. Cardinality(Accepted(s)) \in Nat /\ IsFiniteSet(Accepted(s))
        BY SetsOfCalls
      <4>2. /\ IsFiniteSet(Accepted(s) \cup {r})
            /\ Cardinality(Accepted(s) \cup {r}) =
                 IF r \in Accepted(s) THEN Cardinality(Accepted(s))
                                      ELSE Cardinality(Accepted(s)) + 1
        BY <4>1, FS_AddElement
      <4> QED
        BY <4>1, <4>2
    <3>5. Cardinality((Accepted(s))') <= Cardinality(Accepted(s) \cup {r})
      BY <3>3, <3>4, FS_Subset
    <3> QED
      BY <2>0, <3>2, <3>4, <3>5, SetsOfCalls, SetsOfCallsNext DEF Booked
  <2>4. CASE r \notin Of(s)
    <3>1. (Accepted(s))' \subseteq Accepted(s)
      BY <1>5, <2>1, <2>4 DEF Accepted, Of
    <3>2. /\ Cardinality((Accepted(s))') <= Cardinality(Accepted(s))
          /\ Cardinality((Accepting(s))') <= Cardinality(Accepting(s))
      BY <2>2, <3>1, SetsOfCalls, FS_Subset
    <3> QED
      BY <2>0, <3>2, SetsOfCalls, SetsOfCallsNext DEF Booked
  <2> QED
    BY <2>3, <2>4
<1> QED
  BY <1>6, <1>7

\* Every other writer is calm.
LEMMA ResumeCalms ==
    ASSUME RowsInv, NEW c \in Calls,
           \/ InsertSession(c) \/ StoreUpdate(c) \/ InsertRequest(c)
           \/ OpenRoom(c) \/ StartSession(c)
    PROVE  \A d \in Calls : CalmCall(d)
<1>1. \E j \in {Resting, [at |-> "start", session |-> calls[c].session]} : Call(c, j)
  BY DEF InsertSession, StoreUpdate, InsertRequest, OpenRoom, StartSession, Return
<1>2. PICK j : Call(c, j) /\ j.at # "answer"
  BY <1>1 DEF Resting
<1> QED
  BY <1>2 DEF Call, CalmCall, RowsInv, LiveTypeOK

LEMMA RequestsAsTheyWere ==
    ASSUME UNCHANGED request
    PROVE  \A r \in Requests : CalmRequest(r)
BY DEF CalmRequest, Made

LEMMA OfferedAsItWas ==
    ASSUME RowsInv, UNCHANGED offered
    PROVE  \A s \in Sessions : offered[s] <= offered'[s]
BY SeatsAreNumbers DEF RowsInv, LiveTypeOK

LEMMA CalendarCalms ==
    ASSUME RowsInv, NEW c \in Calls,
           InsertSession(c) \/ StoreUpdate(c) \/ OpenRoom(c) \/ StartSession(c)
    PROVE  Calm
<1>1. UNCHANGED request
  BY DEF InsertSession, StoreUpdate, OpenRoom, StartSession
<1>2. ASSUME NEW s \in Sessions, Alive(s) PROVE offered[s] <= offered'[s]
  <2>0. offered \in [Sessions -> Seats \cup {0}] /\ offered[s] \in Nat
    BY SeatsAreNumbers DEF RowsInv, LiveTypeOK
  <2>1. CASE UNCHANGED offered
    BY <2>1, <2>0
  <2>2. CASE InsertSession(c) /\ ~UNCHANGED offered
    <3>1. PICK t \in Sessions :
            session[t] = Unborn /\ \E n : offered' = [offered EXCEPT ![t] = n]
      BY <2>2 DEF InsertSession, Insert
    <3> QED
      BY <1>2, <2>0, <3>1 DEF Alive
  <2>3. CASE StoreUpdate(c) /\ ~UNCHANGED offered
    <3>1. PICK t \in Sessions : t = calls[c].session
      BY <2>3, CallFields, CallsAreThreads DEF StoreUpdate, At, RowsInv, LiveTypeOK
    <3>2. offered' = [offered EXCEPT ![t] = Larger(@, session'[t].seats)] /\ Alive(t)
      BY <2>3, <3>1 DEF StoreUpdate
    <3>3. RowsInv' /\ Touched
      BY <2>3, TouchingStep, UpdateTouches
    <3>4. session'[t].seats \in Nat
      BY <3>2, <3>3, StartsAndSeats DEF Touched, TouchedAt, SessionRows
    <3>5. offered'[t] = IF offered[t] > session'[t].seats THEN offered[t]
                                                          ELSE session'[t].seats
      BY <2>0, <3>2 DEF Larger
    <3>6. CASE s = t
      BY <2>0, <3>4, <3>5, <3>6
    <3>7. CASE s # t
      BY <2>0, <3>2, <3>7
    <3> QED
      BY <3>6, <3>7
  <2> QED
    BY <2>1, <2>2, <2>3 DEF InsertSession, OpenRoom, StartSession
<1> QED
  BY <1>1, <1>2, ResumeCalms, RequestsAsTheyWere DEF Calm

\* Calls that end accept nothing.
LEMMA EndingCalms ==
    ASSUME \A x \in Threads : calls'[x] = calls[x] \/ calls'[x] = Resting
    PROVE  \A d \in Calls : CalmCall(d)
BY CallsAreThreads DEF CalmCall, Resting

LEMMA RemovalCalms ==
    ASSUME RowsInv, NEW gone, NEW applications, Remove(gone, applications)
    PROVE  \A r \in Requests : CalmRequest(r)
<1> SUFFICES ASSUME NEW r \in Requests, Made(r)', request'[r].target # None
             PROVE  request'[r] = request[r] /\ Made(r)
  BY DEF CalmRequest
<1>1. r \notin applications /\ request'[r] = Unlink(gone)[r]
  BY DEF Remove, Made
<1>2. CASE Made(r) /\ request[r].target \in gone
  <2>1. request[r] \in RequestRows
    BY <1>2, RequestFields DEF RowsInv
  <2>2. [request[r] EXCEPT !.target = None].target = None
    BY <2>1 DEF RequestRows
  <2> QED
    BY <1>1, <1>2, <2>2 DEF Unlink
<1>3. CASE ~(Made(r) /\ request[r].target \in gone)
  BY <1>1, <1>3 DEF Unlink, Made
<1> QED
  BY <1>2, <1>3

LEMMA RemovingCalms ==
    ASSUME RowsInv, NEW c \in Threads, DeleteRow(c) \/ RemoveEnded(c)
    PROVE  Calm
<1>1. \A r \in Requests : CalmRequest(r)
  <2>1. CASE UNCHANGED request
    BY <2>1, RequestsAsTheyWere
  <2>2. CASE ~UNCHANGED request
    <3>1. \E applications : Remove(calls[c].gone, applications)
      BY <2>2 DEF DeleteRow, RemoveEnded
    <3> QED
      BY <3>1, RemovalCalms
  <2> QED
    BY <2>1, <2>2
<1>2. UNCHANGED offered
  BY DEF DeleteRow, RemoveEnded
<1>3. FinishCall(c) \/ Return(c)
  BY DEF DeleteRow, RemoveEnded
<1> QED
  BY <1>1, <1>2, <1>3, FinishedCalls, EndingCalms, OfferedAsItWas DEF Calm

LEMMA FilingCalms ==
    ASSUME RowsInv, NEW c \in Calls, InsertRequest(c)
    PROVE  Calm
<1>1. \A r \in Requests : CalmRequest(r)
  <2>1. CASE UNCHANGED request
    BY <2>1, RequestsAsTheyWere
  <2>2. CASE ~UNCHANGED request
    <3>1. PICK row \in RequestRows : row = calls[c].row /\ row.status = "pending"
      BY CallFields, CallsAreThreads DEF InsertRequest, RowsInv, LiveTypeOK, CallsAreSound, Sound
    <3>2. PICK q \in Requests :
            request[q] = Unborn /\ request' = [request EXCEPT ![q] = row]
      BY <2>2, <3>1 DEF InsertRequest, File
    <3> QED
      BY <3>1, <3>2 DEF CalmRequest, Made, RowsInv, LiveTypeOK
  <2> QED
    BY <2>1, <2>2
<1>2. UNCHANGED offered
  BY DEF InsertRequest
<1> QED
  BY <1>1, <1>2, ResumeCalms, OfferedAsItWas DEF Calm

LEMMA JobsCalm ==
    ASSUME RowsInv,
           \/ \E x \in Threads : DeleteApplications(x)
           \/ SelectEnded \/ Minute \/ Restart \/ UNCHANGED liveVars
    PROVE  Calm
<1>1. UNCHANGED <<request, offered>>
  BY DEF DeleteApplications, SelectEnded, Minute, Restart, liveVars
<1>2. \A c \in Calls : CalmCall(c)
  <2>1. CASE \E x \in Threads : DeleteApplications(x)
    <3>1. PICK x \in Threads : \E j : Call(x, j) /\ j.at = "remove"
      BY <2>1 DEF DeleteApplications
    <3> QED
      BY <3>1, CallsAreThreads DEF Call, CalmCall, RowsInv, LiveTypeOK
  <2>2. CASE SelectEnded
    <3>1. PICK j : Call(None, j) /\ j.at = "end"
      BY <2>2 DEF SelectEnded
    <3> QED
      BY <3>1, CallsAreThreads DEF Call, CalmCall, RowsInv, LiveTypeOK
  <2>3. CASE Minute \/ Restart \/ UNCHANGED liveVars
    BY <2>3, CallsAreThreads DEF Minute, Restart, liveVars, CalmCall, Resting
  <2> QED
    BY <2>1, <2>2, <2>3
<1> QED
  BY <1>1, <1>2, RequestsAsTheyWere, OfferedAsItWas DEF Calm

LEMMA SeatsStep ==
    ASSUME RowsInv, RowsInv', SeatsHold, [LiveNext]_liveVars
    PROVE  SeatsHold'
<1>1. ASSUME NEW c \in Calls, \E j \in CallRows : j.at # "answer" /\ Begins(c, j)
      PROVE  SeatsHold'
  BY <1>1, CallsAreThreads, CalmBegins, CalmStep
<1>2. ASSUME NEW c \in Calls, NEW start \in Starts, NEW length \in Lengths,
             \/ \E seats \in Seats : CreateLiveSession(c, start, length, seats)
             \/ \E u \in Students : CreateSessionRequest(c, u, start, length)
      PROVE  SeatsHold'
  BY <1>1, <1>2, CalendarBegins DEF RowsInv
<1>3. ASSUME NEW c \in Calls, NEW s \in Sessions,
             \/ \E changes \in Changes : UpdateLiveSession(c, s, changes)
             \/ \E u \in Students : ApplyToSession(c, s, u)
             \/ DeleteLiveSession(c, s) \/ JoinSession(c, s) \/ EndSession(c, s)
      PROVE  SeatsHold'
  BY <1>1, <1>3, CalendarBegins, ClassBegins DEF RowsInv
<1>4. ASSUME NEW c \in Calls, NEW r \in Requests,
             AcceptApplication(c, r) \/ RejectApplication(c, r) \/ ConfirmSessionRequest(c, r)
      PROVE  SeatsHold'
  <2>1. PICK j \in CallRows :
          /\ Begins(c, j)
          /\ j.at = "answer" /\ j.status = "accepted" =>
               /\ j.request = r /\ Made(r) /\ request[r].target # None
               /\ HasSeat(request[r].target)
    BY <1>4, AnswerBegins DEF RowsInv
  <2>2. CASE j.at = "answer" /\ j.status = "accepted"
    BY <2>1, <2>2, AcceptanceStep
  <2>3. CASE ~(j.at = "answer" /\ j.status = "accepted")
    BY <2>1, <2>3, CallsAreThreads, CalmBegins, CalmStep
  <2> QED
    BY <2>2, <2>3
<1>5. ASSUME NEW c \in Calls, StoreAnswer(c) PROVE SeatsHold'
  BY <1>5, AnsweredStep
<1>6. ASSUME NEW c \in Calls,
             \/ InsertSession(c) \/ StoreUpdate(c) \/ DeleteRow(c) \/ InsertRequest(c)
             \/ OpenRoom(c) \/ StartSession(c)
      PROVE  SeatsHold'
  BY <1>6, CallsAreThreads, CalendarCalms, RemovingCalms, FilingCalms, CalmStep
<1>7. ASSUME NEW x \in Threads, RemoveEnded(x) PROVE SeatsHold'
  BY <1>7, RemovingCalms, CalmStep
<1>8. CASE \/ \E x \in Threads : DeleteApplications(x)
           \/ SelectEnded \/ Minute \/ Restart \/ UNCHANGED liveVars
  BY <1>8, JobsCalm, CalmStep
<1> QED
  BY <1>2, <1>3, <1>4, <1>5, <1>6, <1>7, <1>8 DEF LiveNext

\* A class is overbooked by fewer students than there are requests in flight,
\* however its seats are raised and lowered and whoever is let go.
THEOREM BoundedOverbooking == LiveSpec => []OverbookingIsBounded
<1>1. LiveInit => SeatsHold
  BY DEF LiveInit, SeatsHold, Booked, Alive
<1>2. RowsInv /\ RowsInv' /\ SeatsHold /\ [LiveNext]_liveVars => SeatsHold'
  BY SeatsStep
<1>3. SeatsHold => OverbookingIsBounded
  BY DEF SeatsHold, Booked, OverbookingIsBounded, Accepting
<1> QED
  BY <1>1, <1>2, <1>3, LiveInvariance, PTL DEF LiveSpec

-----------------------------------------------------------------------------
(***************************************************************************)
(* Classroom                                                               *)
(***************************************************************************)

\* Every handler that tells the room something changes the view of each socket
\* as it changes the state, so that the two go on agreeing: Agrees says how,
\* and one lemma per event that the change keeps it.

\* A view shows these people, this sharer and this board.
Agrees(v, people, who, b) ==
    /\ v \in Views
    /\ v.people = people
    /\ v.sharer = who
    /\ v.board.active = b.active
    /\ v.board.strokes >= b.strokes
    /\ b.strokes < StrokeCap => v.board.strokes = b.strokes

Informed == \A x \in room : Agrees(told[x], present, CurrentSharer, board)

IInv ==
    /\ ClassTypeOK
    /\ Informed
    /\ ShareIsKnown
    /\ ParticipantsAreConnected

Crowds == [Members -> Persons \cup {Absent}]
Sharers == Members \cup {Nobody}

LEMMA Told ==
    ASSUME ClassTypeOK, NEW x \in Sockets
    PROVE  told[x] \in Views /\ told[x].people \in Crowds
           /\ told[x].sharer \in Sharers /\ told[x].board \in Boards
BY DEF ClassTypeOK, Views, Crowds, Sharers

\* What a list of sockets is told, it knows; the others know nothing.
LEMMA Emitted ==
    ASSUME NEW audience \in SUBSET Sockets, NEW seen, Emit(audience, seen),
           NEW people, NEW who, NEW b,
           \A x \in audience : Agrees(seen[x], people, who, b)
    PROVE  /\ told' \in [Sockets -> Views]
           /\ \A x \in audience : Agrees(told'[x], people, who, b)
<1>1. NoView \in Views
  BY ClassroomAssumption DEF NoView, Views, Boards, NoBoard
<1>2. \A x \in audience : seen[x] \in Views
  BY DEF Agrees
<1> QED
  BY <1>1, <1>2 DEF Emit

-----------------------------------------------------------------------------
(* One lemma per event *)

LEMMA LeftAgrees ==
    ASSUME NEW p \in Crowds, NEW s \in Sharers, NEW b \in Boards,
           NEW v, Agrees(v, p, s, b), NEW u \in Members
    PROVE  Agrees(Left(v, u), [p EXCEPT ![u] = Absent], IF s = u THEN Nobody ELSE s, b)
BY DEF Agrees, Left, Views, Crowds, Sharers

LEMMA SharingAgrees ==
    ASSUME NEW p \in Crowds, NEW s \in Sharers, NEW b \in Boards,
           NEW v, Agrees(v, p, s, b), NEW u \in Members, p[u] # Absent
    PROVE  Agrees([v EXCEPT !.sharer = u, !.people[u].sharing = TRUE],
                  [p EXCEPT ![u].sharing = TRUE], u, b)
BY ZenonT(40) DEF Agrees, Views, Crowds, Sharers, Persons

LEMMA StoppedAgrees ==
    ASSUME NEW p \in Crowds, NEW s \in Sharers, NEW b \in Boards,
           NEW v, Agrees(v, p, s, b), NEW u \in Members
    PROVE  Agrees(IF v.people[u] = Absent THEN [v EXCEPT !.sharer = Nobody]
                  ELSE [v EXCEPT !.sharer = Nobody, !.people[u].sharing = FALSE],
                  IF p[u] # Absent THEN [p EXCEPT ![u].sharing = FALSE] ELSE p,
                  Nobody, b)
<1>1. CASE p[u] = Absent
  BY <1>1, ZenonT(40) DEF Agrees, Views, Crowds, Sharers, Persons
<1>2. CASE p[u] # Absent
  BY <1>2, ZenonT(40) DEF Agrees, Views, Crowds, Sharers, Persons
<1> QED
  BY <1>1, <1>2

LEMMA BoardAgrees ==
    ASSUME NEW p \in Crowds, NEW s \in Sharers, NEW b \in Boards,
           NEW v, Agrees(v, p, s, b)
    PROVE  /\ \A new \in Boards : Agrees([v EXCEPT !.board = new], p, s, new)
           /\ \A on \in BOOLEAN :
                Agrees([v EXCEPT !.board.active = on], p, s, [b EXCEPT !.active = on])
           /\ Agrees([v EXCEPT !.board.strokes = 0], p, s, [b EXCEPT !.strokes = 0])
           /\ v.board.strokes < MaxStrokes =>
                Agrees([v EXCEPT !.board.strokes = @ + 1], p, s,
                       [b EXCEPT !.strokes = Kept(@)])
<1> USE ClassroomAssumption
<1>1. \A new \in Boards : Agrees([v EXCEPT !.board = new], p, s, new)
  BY DEF Agrees, Views, Boards
<1>2. \A on \in BOOLEAN :
        Agrees([v EXCEPT !.board.active = on], p, s, [b EXCEPT !.active = on])
  BY DEF Agrees, Views, Boards
<1>3. Agrees([v EXCEPT !.board.strokes = 0], p, s, [b EXCEPT !.strokes = 0])
  BY DEF Agrees, Views, Boards
<1>4. ASSUME v.board.strokes < MaxStrokes
      PROVE  Agrees([v EXCEPT !.board.strokes = @ + 1], p, s, [b EXCEPT !.strokes = Kept(@)])
  BY <1>4 DEF Agrees, Views, Boards, Kept
<1> QED
  BY <1>1, <1>2, <1>3, <1>4

LEMMA ChangedAgrees ==
    ASSUME NEW p \in Crowds, NEW s \in Sharers, NEW b \in Boards,
           NEW v, Agrees(v, p, s, b), NEW u \in Members, p[u] # Absent,
           NEW person \in Persons, person.sharing = p[u].sharing
    PROVE  Agrees([v EXCEPT !.people[u] =
                     IF @ = Absent THEN Absent
                     ELSE [@ EXCEPT !.media = person.media, !.hand = person.hand]],
                  [p EXCEPT ![u] = person], s, b)
<1>1. [p[u] EXCEPT !.media = person.media, !.hand = person.hand] = person
  BY DEF Crowds, Persons
<1> QED
  BY <1>1 DEF Agrees, Views, Crowds

-----------------------------------------------------------------------------
(* Types *)

LEMMA StateTypes ==
    ASSUME ClassTypeOK
    PROVE  present \in Crowds /\ CurrentSharer \in Sharers /\ board \in Boards
BY ClassroomAssumption DEF ClassTypeOK, Crowds, Sharers, CurrentSharer

\* Everything but what the sockets are told.
StateTypeOK ==
    /\ open \subseteq Sockets /\ joining \subseteq Sockets /\ room \subseteq open
    /\ present \in Crowds
    /\ sharer \in Members \cup {Nobody, Unset}
    /\ board \in Boards /\ board.strokes <= StrokeCap
    /\ overtaken \subseteq Members

LEMMA SocketsStep ==
    ASSUME ClassTypeOK, NEW k \in Sockets,
           \/ HandleConnection(k) \/ HandleDisconnect(k)
           \/ HandleJoinSession(k) \/ AddParticipant(k) \/ HandleLeaveSession(k)
           \/ HandleGetSessionState(k)
    PROVE  StateTypeOK'
<1> OwnerOf[k] \in Members
  BY ClassroomAssumption
<1> USE DEF ClassTypeOK, StateTypeOK, Crowds
<1>1. CASE HandleConnection(k)
  BY <1>1 DEF HandleConnection
<1>2. CASE HandleDisconnect(k)
  BY <1>2 DEF HandleDisconnect, TakeOutOf
<1>3. CASE HandleJoinSession(k)
  BY <1>3 DEF HandleJoinSession
<1>4. CASE AddParticipant(k)
  <2>1. [media |-> TRUE, hand |-> FALSE, sharing |-> sharer = OwnerOf[k]] \in Persons
    BY DEF Persons
  <2> QED
    BY <1>4, <2>1 DEF AddParticipant
<1>5. CASE HandleLeaveSession(k)
  BY <1>5 DEF HandleLeaveSession, TakeOutOf
<1>6. CASE HandleGetSessionState(k)
  BY <1>6 DEF HandleGetSessionState
<1> QED
  BY <1>1, <1>2, <1>3, <1>4, <1>5, <1>6

LEMMA TeachingStep ==
    ASSUME ClassTypeOK, NEW k \in Sockets,
           \/ HandleScreenShareStart(k) \/ HandleScreenShareStop(k)
           \/ HandleWhiteboardOpen(k) \/ HandleWhiteboardClose(k)
           \/ HandleWhiteboardDraw(k) \/ HandleWhiteboardClear(k)
    PROVE  StateTypeOK'
<1> OwnerOf[k] \in Members
  BY ClassroomAssumption
<1> USE DEF ClassTypeOK, StateTypeOK, Crowds
<1>1. CASE HandleScreenShareStart(k)
  BY <1>1, ClassroomAssumption DEF HandleScreenShareStart, Teaches, Here, Persons
<1>2. CASE HandleScreenShareStop(k)
  BY <1>2 DEF HandleScreenShareStop, Here, Persons
<1>3. CASE HandleWhiteboardOpen(k)
  BY <1>3 DEF HandleWhiteboardOpen, Boards
<1>4. CASE HandleWhiteboardClose(k)
  BY <1>4 DEF HandleWhiteboardClose, Boards
<1>5. CASE HandleWhiteboardDraw(k)
  BY <1>5, ClassroomAssumption DEF HandleWhiteboardDraw, Boards, Kept
<1>6. CASE HandleWhiteboardClear(k)
  BY <1>6, ClassroomAssumption DEF HandleWhiteboardClear, Boards
<1> QED
  BY <1>1, <1>2, <1>3, <1>4, <1>5, <1>6

\* A camera or a hand changes the person of a participant who stays.
LEMMA WhoChanges ==
    ASSUME ClassTypeOK, NEW k \in Sockets, NEW v \in Members, NEW on \in BOOLEAN,
           \/ HandleMediaStateChange(k, on) \/ HandleRaiseHand(k)
           \/ HandleLowerHand(k) \/ HandleCallOnStudent(k, v)
    PROVE  \E u \in Members, person \in Persons :
             present[u] # Absent /\ person.sharing = present[u].sharing /\ Change(u, person)
<1>1. OwnerOf[k] \in Members
  BY ClassroomAssumption
<1>2. ASSUME NEW u \in Members, Here(u)
      PROVE  /\ present[u] \in Persons
             /\ \A b \in BOOLEAN : [present[u] EXCEPT !.media = b] \in Persons
                  /\ [present[u] EXCEPT !.media = b].sharing = present[u].sharing
             /\ \A b \in BOOLEAN : [present[u] EXCEPT !.hand = b] \in Persons
                  /\ [present[u] EXCEPT !.hand = b].sharing = present[u].sharing
  <2>1. present[u] \in Persons
    BY <1>2 DEF ClassTypeOK, Here
  <2> QED
    BY <2>1 DEF Persons
<1>3. CASE HandleMediaStateChange(k, on)
  BY <1>1, <1>2, <1>3 DEF HandleMediaStateChange, Here
<1>4. CASE HandleRaiseHand(k)
  BY <1>1, <1>2, <1>4 DEF HandleRaiseHand, Here
<1>5. CASE HandleLowerHand(k)
  BY <1>1, <1>2, <1>5 DEF HandleLowerHand, Here
<1>6. CASE HandleCallOnStudent(k, v)
  BY <1>2, <1>6 DEF HandleCallOnStudent, Here
<1> QED
  BY <1>3, <1>4, <1>5, <1>6

LEMMA ChangeStep ==
    ASSUME ClassTypeOK, NEW u \in Members, NEW person \in Persons, Change(u, person)
    PROVE  StateTypeOK'
BY DEF ClassTypeOK, StateTypeOK, Crowds, Change

-----------------------------------------------------------------------------
(* What the room is told *)

\* The shape of the steps below: who is in the room afterwards is told what is
\* so afterwards.
LEMMA RoomTold ==
    ASSUME room' \subseteq Sockets, NEW seen, Emit(room', seen),
           \A x \in room' : Agrees(seen[x], present', CurrentSharer', board')
    PROVE  told' \in [Sockets -> Views] /\ Informed'
<1>1. /\ told' \in [Sockets -> Views]
      /\ \A x \in room' : Agrees(told'[x], present', CurrentSharer', board')
  BY Emitted
<1> QED
  BY <1>1 DEF Informed

LEMMA TakenOut ==
    ASSUME ClassTypeOK, Informed, NEW u \in Members, room' \subseteq room,
           UNCHANGED board, TakeOutOf(u, room')
    PROVE  told' \in [Sockets -> Views] /\ Informed'
<1>1. present' = [present EXCEPT ![u] = Absent]
      /\ CurrentSharer' = IF CurrentSharer = u THEN Nobody ELSE CurrentSharer
  BY ClassroomAssumption DEF TakeOutOf, CurrentSharer, ClassTypeOK
<1>2. ASSUME NEW x \in room'
      PROVE  Agrees([y \in Sockets |-> Left(told[y], u)][x], present', CurrentSharer', board')
  <2>1. x \in Sockets /\ Agrees(told[x], present, CurrentSharer, board)
    BY DEF Informed, ClassTypeOK
  <2> QED
    BY <1>1, <2>1, StateTypes, LeftAgrees
<1> QED
  BY <1>2, RoomTold DEF TakeOutOf, ClassTypeOK

LEMMA SocketsTold ==
    ASSUME ClassTypeOK, Informed, NEW k \in Sockets,
           \/ HandleConnection(k) \/ HandleDisconnect(k) \/ HandleJoinSession(k)
           \/ HandleLeaveSession(k) \/ HandleGetSessionState(k)
    PROVE  told' \in [Sockets -> Views] /\ Informed'
<1> OwnerOf[k] \in Members
  BY ClassroomAssumption
<1>1. CASE UNCHANGED <<room, present, sharer, board, told>>
  BY <1>1 DEF ClassTypeOK, Informed, CurrentSharer
<1>2. CASE HandleDisconnect(k)
  <2>1. room' \subseteq room /\ UNCHANGED board
    BY <1>2 DEF HandleDisconnect
  <2>2. CASE TakeOutOf(OwnerOf[k], room')
    BY <2>1, <2>2, TakenOut
  <2>3. CASE Emit(room', told) /\ UNCHANGED <<present, sharer>>
    BY <2>1, <2>3, RoomTold DEF Informed, ClassTypeOK, CurrentSharer
  <2> QED
    BY <1>2, <2>2, <2>3 DEF HandleDisconnect
<1>3. CASE HandleLeaveSession(k)
  BY <1>3, TakenOut DEF HandleLeaveSession
<1>4. CASE HandleGetSessionState(k)
  <2> DEFINE view == [people |-> present, sharer |-> CurrentSharer, board |-> board]
  <2>1. /\ view \in Views
        /\ Agrees(view, present, CurrentSharer, board)
    BY StateTypes DEF Agrees, Views, Crowds, Sharers, Boards
  <2>2. told' = [told EXCEPT ![k] = view] /\ UNCHANGED <<room, present, sharer, board>>
    BY <1>4 DEF HandleGetSessionState
  <2> HIDE DEF view
  <2> QED
    BY <2>1, <2>2 DEF ClassTypeOK, Informed, CurrentSharer
<1> QED
  BY <1>1, <1>2, <1>3, <1>4 DEF HandleConnection, HandleJoinSession

\* The newcomer is told everything, the others who came.
LEMMA JoinTold ==
    ASSUME ClassTypeOK, Informed, NEW k \in Sockets, AddParticipant(k)
    PROVE  told' \in [Sockets -> Views] /\ Informed'
<1> DEFINE u == OwnerOf[k]
           person == [media |-> TRUE, hand |-> FALSE, sharing |-> sharer = u]
           whole == [people |-> present', sharer |-> CurrentSharer, board |-> board]
           seen == [x \in Sockets |-> IF x = k THEN whole
                                      ELSE [told[x] EXCEPT !.people[u] = person]]
<1>1. u \in Members /\ person \in Persons
  BY ClassroomAssumption DEF Persons
<1>2. /\ present' = [present EXCEPT ![u] = person]
      /\ UNCHANGED <<sharer, board>> /\ CurrentSharer' = CurrentSharer
      /\ room' = room \cup (open \cap {k})
      /\ told' = [x \in Sockets |-> IF x \notin room' THEN NoView
                                     ELSE IF x = k THEN whole
                                     ELSE [told[x] EXCEPT !.people[u] = person]]
  BY DEF AddParticipant, CurrentSharer
<1>3. present' \in Crowds
  BY <1>1, <1>2 DEF ClassTypeOK, Crowds
<1>4. Agrees(whole, present', CurrentSharer, board)
  BY <1>3, StateTypes DEF Agrees, Views, Crowds, Sharers, Boards
<1>5. ASSUME NEW x \in room, x # k
      PROVE  Agrees([told[x] EXCEPT !.people[u] = person], present', CurrentSharer, board)
  <2>1. x \in Sockets /\ Agrees(told[x], present, CurrentSharer, board)
    BY DEF Informed, ClassTypeOK
  <2> HIDE DEF u, person
  <2> QED
    BY <1>1, <1>2, <1>3, <2>1 DEF Agrees, Views, Crowds
<1>6. Emit(room', seen)
  BY <1>2 DEF Emit
<1>7. room' \subseteq Sockets
  BY <1>2 DEF ClassTypeOK
<1>8. \A x \in room' : Agrees(seen[x], present', CurrentSharer', board')
  <2> HIDE DEF u, person, whole
  <2> QED
    BY <1>2, <1>4, <1>5, <1>7
<1> HIDE DEF seen
<1> QED
  BY <1>6, <1>7, <1>8, RoomTold

LEMMA SharingTold ==
    ASSUME ClassTypeOK, Informed, NEW k \in Sockets,
           HandleScreenShareStart(k) \/ HandleScreenShareStop(k)
    PROVE  told' \in [Sockets -> Views] /\ Informed'
<1>1. ASSUME NEW x \in room
      PROVE  x \in Sockets /\ Agrees(told[x], present, CurrentSharer, board)
  BY DEF Informed, ClassTypeOK
<1>2. present \in Crowds /\ CurrentSharer \in Sharers /\ board \in Boards
  BY StateTypes
<1>3. CASE HandleScreenShareStart(k)
  <2> DEFINE seen == [x \in Sockets |->
               [told[x] EXCEPT !.sharer = Teacher, !.people[Teacher].sharing = TRUE]]
  <2>1. /\ present' = [present EXCEPT ![Teacher].sharing = TRUE]
        /\ Teacher \in Members /\ CurrentSharer' = Teacher
        /\ present[Teacher] # Absent /\ UNCHANGED <<room, board>>
        /\ Emit(room', seen)
    BY <1>3, ClassroomAssumption
       DEF HandleScreenShareStart, Teaches, Here, CurrentSharer
  <2>2. ASSUME NEW x \in room' PROVE Agrees(seen[x], present', CurrentSharer', board')
    <3>1. x \in Sockets /\ Agrees(told[x], present, CurrentSharer, board)
      BY <1>1, <2>1
    <3>2. Agrees([told[x] EXCEPT !.sharer = Teacher, !.people[Teacher].sharing = TRUE],
                 [present EXCEPT ![Teacher].sharing = TRUE], Teacher, board)
      BY <1>2, <2>1, <3>1, SharingAgrees
    <3> QED
      BY <2>1, <3>1, <3>2
  <2> HIDE DEF seen
  <2> QED
    BY <1>1, <2>1, <2>2, RoomTold
<1>4. CASE HandleScreenShareStop(k)
  <2> DEFINE u == OwnerOf[k]
             seen == [x \in Sockets |->
               IF told[x].people[u] = Absent THEN [told[x] EXCEPT !.sharer = Nobody]
               ELSE [told[x] EXCEPT !.sharer = Nobody, !.people[u].sharing = FALSE]]
  <2>1. /\ u \in Members
        /\ present' = IF present[u] # Absent
                      THEN [present EXCEPT ![u].sharing = FALSE] ELSE present
        /\ CurrentSharer' = Nobody
        /\ UNCHANGED <<room, board>>
        /\ Emit(room', seen)
    BY <1>4, ClassroomAssumption DEF HandleScreenShareStop, Here, CurrentSharer
  <2>2. ASSUME NEW x \in room' PROVE Agrees(seen[x], present', CurrentSharer', board')
    <3>1. x \in Sockets /\ Agrees(told[x], present, CurrentSharer, board)
      BY <1>1, <2>1
    <3> HIDE DEF u
    <3>2. Agrees(IF told[x].people[u] = Absent THEN [told[x] EXCEPT !.sharer = Nobody]
                 ELSE [told[x] EXCEPT !.sharer = Nobody, !.people[u].sharing = FALSE],
                 IF present[u] # Absent THEN [present EXCEPT ![u].sharing = FALSE]
                 ELSE present,
                 Nobody, board)
      BY <1>2, <2>1, <3>1, StoppedAgrees
    <3> QED
      BY <2>1, <3>1, <3>2
  <2> HIDE DEF seen
  <2> QED
    BY <1>1, <2>1, <2>2, RoomTold
<1> QED
  BY <1>3, <1>4

LEMMA BoardTold ==
    ASSUME ClassTypeOK, Informed, NEW k \in Sockets,
           \/ HandleWhiteboardOpen(k) \/ HandleWhiteboardClose(k)
           \/ HandleWhiteboardDraw(k) \/ HandleWhiteboardClear(k)
    PROVE  told' \in [Sockets -> Views] /\ Informed'
<1> USE StateTypes
<1>1. ASSUME NEW x \in room
      PROVE  x \in Sockets /\ Agrees(told[x], present, CurrentSharer, board)
  BY DEF Informed, ClassTypeOK
<1>2. UNCHANGED <<room, present, sharer>> /\ UNCHANGED CurrentSharer
  BY DEF HandleWhiteboardOpen, HandleWhiteboardClose, HandleWhiteboardDraw,
     HandleWhiteboardClear, CurrentSharer
<1>3. CASE HandleWhiteboardOpen(k)
  <2> DEFINE seen == [x \in Sockets |-> [told[x] EXCEPT !.board = board']]
  <2>1. /\ board' = [board EXCEPT !.active = TRUE]
        /\ Emit(room', seen)
    BY <1>2, <1>3 DEF HandleWhiteboardOpen
  <2>2. board' \in Boards
    BY <2>1 DEF Boards
  <2>3. \A x \in room' : Agrees(seen[x], present', CurrentSharer', board')
    BY <1>1, <1>2, <2>1, <2>2, BoardAgrees
  <2> HIDE DEF seen
  <2> QED
    BY <1>1, <1>2, <2>1, <2>3, RoomTold
<1>4. CASE HandleWhiteboardClose(k)
  <2> DEFINE seen == [x \in Sockets |-> [told[x] EXCEPT !.board.active = FALSE]]
  <2>1. /\ board' = [board EXCEPT !.active = FALSE]
        /\ Emit(room', seen)
    BY <1>2, <1>4 DEF HandleWhiteboardClose
  <2>3. \A x \in room' : Agrees(seen[x], present', CurrentSharer', board')
    BY <1>1, <1>2, <2>1, BoardAgrees
  <2> HIDE DEF seen
  <2> QED
    BY <1>1, <1>2, <2>1, <2>3, RoomTold
<1>5. CASE HandleWhiteboardDraw(k)
  <2> DEFINE seen == [x \in Sockets |-> [told[x] EXCEPT !.board.strokes = @ + 1]]
  <2>1. /\ board' = [board EXCEPT !.strokes = Kept(@)]
        /\ Emit(room', seen)
        /\ \A x \in room : told[x].board.strokes < MaxStrokes
    BY <1>2, <1>5 DEF HandleWhiteboardDraw
  <2>3. \A x \in room' : Agrees(seen[x], present', CurrentSharer', board')
    BY <1>1, <1>2, <2>1, BoardAgrees
  <2> HIDE DEF seen
  <2> QED
    BY <1>1, <1>2, <2>1, <2>3, RoomTold
<1>6. CASE HandleWhiteboardClear(k)
  <2> DEFINE seen == [x \in Sockets |-> [told[x] EXCEPT !.board.strokes = 0]]
  <2>1. /\ board' = [board EXCEPT !.strokes = 0]
        /\ Emit(room', seen)
    BY <1>2, <1>6 DEF HandleWhiteboardClear
  <2>3. \A x \in room' : Agrees(seen[x], present', CurrentSharer', board')
    BY <1>1, <1>2, <2>1, BoardAgrees
  <2> HIDE DEF seen
  <2> QED
    BY <1>1, <1>2, <2>1, <2>3, RoomTold
<1> QED
  BY <1>3, <1>4, <1>5, <1>6

LEMMA ChangeTold ==
    ASSUME ClassTypeOK, Informed, NEW u \in Members, NEW person \in Persons,
           present[u] # Absent, person.sharing = present[u].sharing, Change(u, person)
    PROVE  told' \in [Sockets -> Views] /\ Informed'
<1> DEFINE seen == [x \in Sockets |-> [told[x] EXCEPT !.people[u] =
             IF @ = Absent THEN Absent
                           ELSE [@ EXCEPT !.media = person.media, !.hand = person.hand]]]
<1>1. /\ present' = [present EXCEPT ![u] = person]
      /\ UNCHANGED <<room, board>> /\ UNCHANGED CurrentSharer
      /\ Emit(room', seen)
  BY DEF Change, CurrentSharer
<1>2. room' \subseteq Sockets
  BY <1>1 DEF ClassTypeOK
<1>3. \A x \in room' : Agrees(seen[x], present', CurrentSharer', board')
  BY <1>1, <1>2, StateTypes, ChangedAgrees DEF Informed
<1> HIDE DEF seen
<1> QED
  BY <1>1, <1>2, <1>3, RoomTold

-----------------------------------------------------------------------------
(* The two records of who shares, and participants without a socket *)

LEMMA ShareStep ==
    ASSUME ClassTypeOK, ShareIsKnown, NEW k \in Sockets,
           \/ HandleConnection(k) \/ HandleDisconnect(k)
           \/ HandleJoinSession(k) \/ AddParticipant(k) \/ HandleLeaveSession(k)
           \/ HandleGetSessionState(k)
           \/ HandleScreenShareStart(k) \/ HandleScreenShareStop(k)
           \/ HandleWhiteboardOpen(k) \/ HandleWhiteboardClose(k)
           \/ HandleWhiteboardDraw(k) \/ HandleWhiteboardClear(k)
    PROVE  ShareIsKnown'
<1> OwnerOf[k] \in Members /\ Teacher \in Members
    /\ Nobody \notin Members /\ Unset \notin Members /\ Absent \notin Persons
  BY ClassroomAssumption DEF Persons
<1> USE DEF ClassTypeOK, ShareIsKnown, Here, Persons
<1>1. CASE UNCHANGED <<present, sharer>>
  BY <1>1
<1>2. CASE TakeOutOf(OwnerOf[k], room')
  BY <1>2 DEF TakeOutOf
<1>3. CASE AddParticipant(k)
  <2> DEFINE person == [media |-> TRUE, hand |-> FALSE, sharing |-> sharer = OwnerOf[k]]
  <2>1. person \in Persons /\ person.sharing = (sharer = OwnerOf[k])
    OBVIOUS
  <2>2. present' = [present EXCEPT ![OwnerOf[k]] = person] /\ UNCHANGED sharer
    BY <1>3 DEF AddParticipant
  <2> HIDE DEF person
  <2>3. /\ present'[OwnerOf[k]] = person
        /\ \A u \in Members : u # OwnerOf[k] => present'[u] = present[u]
    BY <2>2
  <2>4. person # Absent
    BY <2>1
  <2> QED
    BY <2>1, <2>2, <2>3, <2>4
<1>4. CASE HandleScreenShareStart(k)
  BY <1>4, Zenon DEF HandleScreenShareStart, Teaches
<1>5. CASE HandleScreenShareStop(k)
  BY <1>5, ZenonT(40) DEF HandleScreenShareStop, Teaches
<1> QED
  BY <1>1, <1>2, <1>3, <1>4, <1>5
     DEF HandleConnection, HandleDisconnect, HandleJoinSession, HandleLeaveSession,
         HandleGetSessionState, HandleWhiteboardOpen, HandleWhiteboardClose,
         HandleWhiteboardDraw, HandleWhiteboardClear

LEMMA ConnectedStep ==
    ASSUME ClassTypeOK, ParticipantsAreConnected, NEW k \in Sockets,
           \/ HandleConnection(k) \/ HandleDisconnect(k)
           \/ HandleJoinSession(k) \/ AddParticipant(k) \/ HandleLeaveSession(k)
           \/ HandleGetSessionState(k)
           \/ HandleScreenShareStart(k) \/ HandleScreenShareStop(k)
           \/ HandleWhiteboardOpen(k) \/ HandleWhiteboardClose(k)
           \/ HandleWhiteboardDraw(k) \/ HandleWhiteboardClear(k)
    PROVE  ParticipantsAreConnected'
<1> OwnerOf[k] \in Members /\ Teacher \in Members
  BY ClassroomAssumption
<1> USE DEF ClassTypeOK, ParticipantsAreConnected, Here
<1>1. CASE UNCHANGED <<open, present, overtaken>>
  BY <1>1 DEF SocketsOf
<1>2. CASE HandleConnection(k)
  BY <1>2 DEF HandleConnection, SocketsOf
<1>3. CASE HandleDisconnect(k)
  <2>1. /\ open' = open \ {k} /\ UNCHANGED overtaken
        /\ \/ /\ SocketsOf(OwnerOf[k]) = {k} /\ Here(OwnerOf[k])
              /\ present' = [present EXCEPT ![OwnerOf[k]] = Absent]
           \/ /\ ~(SocketsOf(OwnerOf[k]) = {k} /\ Here(OwnerOf[k]))
              /\ present' = present
        /\ k \in SocketsOf(OwnerOf[k])
    BY <1>3 DEF HandleDisconnect, TakeOutOf, SocketsOf
  <2>2. ASSUME NEW u \in Members, u # OwnerOf[k]
        PROVE  SocketsOf(u)' = SocketsOf(u) /\ present'[u] = present[u]
    BY <2>1, <2>2 DEF SocketsOf
  <2>3. SocketsOf(OwnerOf[k])' = SocketsOf(OwnerOf[k]) \ {k}
    BY <2>1 DEF SocketsOf
  <2>4. present'[OwnerOf[k]] # Absent => SocketsOf(OwnerOf[k]) # {k}
    BY <2>1
  <2>5. SocketsOf(OwnerOf[k]) # {k} => SocketsOf(OwnerOf[k]) \ {k} # {}
    BY <2>1
  <2> QED
    BY <2>1, <2>2, <2>3, <2>4, <2>5
<1>4. CASE AddParticipant(k)
  BY <1>4 DEF AddParticipant, SocketsOf
<1>5. CASE HandleLeaveSession(k)
  BY <1>5 DEF HandleLeaveSession, TakeOutOf, SocketsOf
<1>6. CASE HandleScreenShareStart(k)
  BY <1>6 DEF HandleScreenShareStart, Teaches, SocketsOf
<1>7. CASE HandleScreenShareStop(k)
  BY <1>7 DEF HandleScreenShareStop, SocketsOf
<1> QED
  BY <1>1, <1>2, <1>3, <1>4, <1>5, <1>6, <1>7
     DEF HandleJoinSession, HandleGetSessionState, HandleWhiteboardOpen,
         HandleWhiteboardClose, HandleWhiteboardDraw, HandleWhiteboardClear

-----------------------------------------------------------------------------
(* The theorems *)

LEMMA InitIInv == ClassInit => IInv
<1> SUFFICES ASSUME ClassInit PROVE IInv
  OBVIOUS
<1> USE ClassroomAssumption DEF ClassInit
<1>1. ClassTypeOK
  BY DEF ClassTypeOK, Views, Boards, NoView, NoBoard
<1>2. Informed /\ ParticipantsAreConnected
  BY DEF Informed, ParticipantsAreConnected, Here
<1>3. ShareIsKnown
  BY DEF ShareIsKnown, Here
<1> QED
  BY <1>1, <1>2, <1>3 DEF IInv

LEMMA StepIInv == IInv /\ [ClassNext]_classVars => IInv'
<1> SUFFICES ASSUME IInv, [ClassNext]_classVars PROVE IInv'
  OBVIOUS
<1> USE DEF IInv
<1>1. StateTypeOK' /\ told' \in [Sockets -> Views] => ClassTypeOK'
  BY DEF StateTypeOK, ClassTypeOK, Crowds
<1>2. CASE UNCHANGED classVars
  BY <1>2 DEF classVars, ClassTypeOK, Informed, CurrentSharer, ShareIsKnown,
     ParticipantsAreConnected, Here, SocketsOf
<1>3. ASSUME NEW k \in Sockets,
             \/ HandleConnection(k) \/ HandleDisconnect(k)
             \/ HandleJoinSession(k) \/ AddParticipant(k) \/ HandleLeaveSession(k)
             \/ HandleGetSessionState(k)
      PROVE  IInv'
  BY <1>1, <1>3, SocketsStep, SocketsTold, JoinTold, ShareStep, ConnectedStep
<1>4. ASSUME NEW k \in Sockets,
             \/ HandleScreenShareStart(k) \/ HandleScreenShareStop(k)
             \/ HandleWhiteboardOpen(k) \/ HandleWhiteboardClose(k)
             \/ HandleWhiteboardDraw(k) \/ HandleWhiteboardClear(k)
      PROVE  IInv'
  BY <1>1, <1>4, TeachingStep, SharingTold, BoardTold, ShareStep, ConnectedStep
<1>5. ASSUME NEW k \in Sockets, NEW v \in Members, NEW on \in BOOLEAN,
             \/ HandleMediaStateChange(k, on) \/ HandleRaiseHand(k)
             \/ HandleLowerHand(k) \/ HandleCallOnStudent(k, v)
      PROVE  IInv'
  <2>1. PICK u \in Members, person \in Persons :
          present[u] # Absent /\ person.sharing = present[u].sharing /\ Change(u, person)
    BY <1>5, WhoChanges
  <2>2. StateTypeOK' /\ told' \in [Sockets -> Views] /\ Informed'
    BY <2>1, ChangeStep, ChangeTold
  <2>3. /\ present' = [present EXCEPT ![u] = person]
        /\ UNCHANGED <<sharer, open, overtaken>>
    BY <2>1 DEF Change
  <2>4. ShareIsKnown'
    BY <2>1, <2>3, ClassroomAssumption DEF ShareIsKnown, Here, ClassTypeOK, Persons
  <2>5. ParticipantsAreConnected'
    BY <2>1, <2>3 DEF ParticipantsAreConnected, Here, SocketsOf, ClassTypeOK
  <2> QED
    BY <1>1, <2>2, <2>4, <2>5
<1>6. ClassNext => \E k \in Sockets :
        \/ HandleConnection(k) \/ HandleDisconnect(k)
        \/ HandleJoinSession(k) \/ AddParticipant(k) \/ HandleLeaveSession(k)
        \/ HandleGetSessionState(k)
        \/ HandleScreenShareStart(k) \/ HandleScreenShareStop(k)
        \/ HandleWhiteboardOpen(k) \/ HandleWhiteboardClose(k)
        \/ HandleWhiteboardDraw(k) \/ HandleWhiteboardClear(k)
        \/ \E on \in BOOLEAN, v \in Members :
             \/ HandleMediaStateChange(k, on) \/ HandleRaiseHand(k)
             \/ HandleLowerHand(k) \/ HandleCallOnStudent(k, v)
  BY ClassroomAssumption DEF ClassNext
<1> HIDE DEF IInv
<1> QED
  BY <1>2, <1>3, <1>4, <1>5, <1>6

LEMMA ClassInvariance == ClassSpec => []IInv
  BY InitIInv, StepIInv, PTL DEF ClassSpec

\* Every variable keeps its type, and the board its cap of strokes.
THEOREM ClassTypes == ClassSpec => []ClassTypeOK
<1>1. IInv => ClassTypeOK
  BY DEF IInv
<1> QED
  BY <1>1, ClassInvariance, PTL

\* Whoever is in the room sees the participants, the sharer and the board as the
\* gateway keeps them, however joins, leaves and disconnections interleave.
THEOREM RoomSees == ClassSpec => []RoomIsSeen
<1>1. IInv => RoomIsSeen
  BY DEF IInv, Informed, Agrees, RoomIsSeen, RoomKnowsThePeople, RoomSeesTheBoard
<1> QED
  BY <1>1, ClassInvariance, PTL

\* sessionScreenShare and the participants' own flags never disagree.
THEOREM SharerKnows == ClassSpec => []ShareIsKnown
<1>1. IInv => ShareIsKnown
  BY DEF IInv
<1> QED
  BY <1>1, ClassInvariance, PTL

\* handleDisconnect leaves nobody behind but those whose join it overtook.
THEOREM ParticipantsHaveSockets == ClassSpec => []ParticipantsAreConnected
<1>1. IInv => ParticipantsAreConnected
  BY DEF IInv
<1> QED
  BY <1>1, ClassInvariance, PTL

-----------------------------------------------------------------------------
(***************************************************************************)
(* The two together                                                        *)
(***************************************************************************)


\* What MCLive takes away in its initial states counts as removed before.
LEMMA InstanceBegins == Init => RowsInv /\ IInv
<1> SUFFICES ASSUME Init PROVE RowsInv /\ IInv
  OBVIOUS
<1>1. IInv
  BY InitIInv DEF Init
<1>2. /\ session \in [Sessions -> {Unborn, Removed}]
      /\ request \in [Requests -> {Unborn, Removed}]
      /\ edits \in 0..MaxEdits
  BY LiveSessionsAssumption DEF Init, Only
<1>3. LiveTypeOK
  BY <1>2, RestingIsSound, LiveSessionsAssumption DEF Init, LiveTypeOK
<1>4. CallsAreSound
  BY RestingIsSound DEF Init, CallsAreSound
<1>5. \A s \in Sessions : ~Alive(s)
  BY <1>2 DEF Alive
<1>6. \A r \in Requests : ~Made(r)
  BY <1>2 DEF Made
<1>7. /\ TargetsExist /\ SeatsWereOffered /\ RemovalsKnow
      /\ OneSessionPerRequest /\ StartedHasRoom /\ FinishedLeavesNothing
  BY <1>5, <1>6
     DEF Init, TargetsExist, SeatsWereOffered, RemovalsKnow, At, Resting,
         OneSessionPerRequest, StartedHasRoom, FinishedLeavesNothing
<1> QED
  BY <1>1, <1>3, <1>4, <1>7 DEF RowsInv

\* Every variable of the calendar and of the classroom keeps its type.
THEOREM LiveTypesTogether == Spec => []TypeOK
<1>1. [Next]_<<liveVars, classVars, focus>> => [LiveNext]_liveVars /\ [ClassNext]_classVars
  BY DEF Next
<1>2. RowsInv /\ [LiveNext]_liveVars => RowsInv'
  BY SessionsStep
<1>3. RowsInv /\ IInv => TypeOK
  BY DEF RowsInv, IInv, TypeOK
<1> QED
  BY <1>1, <1>2, <1>3, InstanceBegins, StepIInv, PTL DEF Spec
================================================================================
