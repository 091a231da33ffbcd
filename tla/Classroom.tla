------------------------------ MODULE Classroom ------------------------------
(***************************************************************************)
(* The classroom gateway (src/modules/live-sessions/classroom.gateway.ts): *)
(* one session's participants, screen share and whiteboard, kept in the    *)
(* memory of the process, and what each socket has been told of them.      *)
(*                                                                         *)
(* A handler runs to its end, but join_session awaits two queries: what    *)
(* happens meanwhile happens before the participant is added.              *)
(***************************************************************************)
EXTENDS Naturals, FiniteSets

CONSTANTS
    Members,        \* those the session admits
    Teacher,        \* its instructor
    Sockets,
    OwnerOf,        \* the user a socket is authenticated as
    StrokeCap,      \* the 2000 strokes that are kept
    MaxStrokes,     \* strokes drawn on a board before it is cleared (a bound)
    Absent, Nobody, Unset

ASSUME ClassroomAssumption ==
    /\ Teacher \in Members
    /\ OwnerOf \in [Sockets -> Members]
    /\ StrokeCap \in Nat /\ MaxStrokes \in Nat /\ StrokeCap <= MaxStrokes
    /\ Nobody \notin Members /\ Unset \notin Members /\ Unset # Nobody
    /\ Absent \notin [media : BOOLEAN, hand : BOOLEAN, sharing : BOOLEAN]

VARIABLES
    open,       \* sockets that are connected
    joining,    \* sockets whose join_session awaits its queries
    room,       \* sockets in the room session:<id>
    present,    \* sessionParticipants
    sharer,     \* sessionScreenShare: Unset before it is first written
    board,      \* sessionWhiteboards, strokes counted
    told,       \* history: the state each socket of the room was told
    overtaken   \* history: users added after their last socket had closed

classVars == <<open, joining, room, present, sharer, board, told, overtaken>>

-----------------------------------------------------------------------------
Persons == [media : BOOLEAN, hand : BOOLEAN, sharing : BOOLEAN]
Boards == [active : BOOLEAN, strokes : 0..MaxStrokes]
NoBoard == [active |-> FALSE, strokes |-> 0]
Views == [people : [Members -> Persons \cup {Absent}], sharer : Members \cup {Nobody},
          board : Boards]
NoView == [people |-> [u \in Members |-> Absent], sharer |-> Nobody, board |-> NoBoard]

ClassInit ==
    /\ open = {}
    /\ joining = {}
    /\ room = {}
    /\ present = [u \in Members |-> Absent]
    /\ sharer = Unset
    /\ board = NoBoard
    /\ told = [k \in Sockets |-> NoView]
    /\ overtaken = {}

Here(u) == present[u] # Absent
Teaches(k) == OwnerOf[k] = Teacher /\ Here(Teacher)
SocketsOf(u) == {k \in open : OwnerOf[k] = u}
CurrentSharer == IF sharer = Unset THEN Nobody ELSE sharer

\* An event reaches the sockets of an audience and changes what they know;
\* what a socket outside the room remembers is of no account.
Emit(audience, seen) ==
    told' = [k \in Sockets |-> IF k \in audience THEN seen[k] ELSE NoView]

Left(view, u) ==
    [view EXCEPT !.people[u] = Absent, !.sharer = IF @ = u THEN Nobody ELSE @]

\* A user leaves the session: participant_left, and screen_share_stopped.
TakeOutOf(u, audience) ==
    /\ present' = [present EXCEPT ![u] = Absent]
    /\ sharer' = IF sharer = u THEN Nobody ELSE sharer
    /\ Emit(audience, [x \in Sockets |-> Left(told[x], u)])

-----------------------------------------------------------------------------
(* Sockets *)

HandleConnection(k) ==
    /\ k \notin open \cup joining
    /\ open' = open \cup {k}
    /\ overtaken' = overtaken \ {OwnerOf[k]}
    /\ UNCHANGED <<joining, room, present, sharer, board, told>>

\* Fault: a user with another socket is taken for one who stays.
HandleDisconnectAnyway(k) ==
    /\ k \in open
    /\ open' = open \ {k}
    /\ room' = room \ {k}
    /\ Emit(room', told)
    /\ UNCHANGED <<joining, present, sharer, board, overtaken>>

\* Only the last socket of a user takes the user out.
HandleDisconnect(k) ==
    /\ k \in open
    /\ open' = open \ {k}
    /\ room' = room \ {k}
    /\ IF SocketsOf(OwnerOf[k]) = {k} /\ Here(OwnerOf[k])
       THEN TakeOutOf(OwnerOf[k], room')
       ELSE Emit(room', told) /\ UNCHANGED <<present, sharer>>
    /\ UNCHANGED <<joining, board, overtaken>>

HandleJoinSession(k) ==
    /\ k \in open \ joining
    /\ joining' = joining \cup {k}
    /\ UNCHANGED <<open, room, present, sharer, board, told, overtaken>>

\* Fault: the newcomer is not told what is on the board.
AddParticipantWithoutBoard(k) ==
    /\ k \in joining
    /\ LET u == OwnerOf[k]
           person == [media |-> TRUE, hand |-> FALSE, sharing |-> sharer = u] IN
         /\ joining' = joining \ {k}
         /\ present' = [present EXCEPT ![u] = person]
         /\ room' = room \cup (open \cap {k})
         /\ told' = [x \in Sockets |->
                IF x \notin room' THEN NoView
                ELSE IF x = k
                THEN [people |-> present', sharer |-> CurrentSharer, board |-> NoBoard]
                ELSE [told[x] EXCEPT !.people[u] = person]]
         /\ overtaken' = IF SocketsOf(u) = {} THEN overtaken \cup {u} ELSE overtaken
    /\ UNCHANGED <<open, sharer, board>>

\* The queries are answered: the participant is added, whether or not the
\* socket is still there; a closed socket hears nothing.
AddParticipant(k) ==
    /\ k \in joining
    /\ LET u == OwnerOf[k]
           person == [media |-> TRUE, hand |-> FALSE, sharing |-> sharer = u] IN
         /\ joining' = joining \ {k}
         /\ present' = [present EXCEPT ![u] = person]
         /\ room' = room \cup (open \cap {k})
         /\ told' = [x \in Sockets |->
                IF x \notin room' THEN NoView
                ELSE IF x = k
                THEN [people |-> present', sharer |-> CurrentSharer, board |-> board]
                ELSE [told[x] EXCEPT !.people[u] = person]]
         /\ overtaken' = IF SocketsOf(u) = {} THEN overtaken \cup {u} ELSE overtaken
    /\ UNCHANGED <<open, sharer, board>>

\* Fault: nobody is told.
LeaveSessionQuietly(k) ==
    /\ k \in open
    /\ room' = room \ {k}
    /\ present' = [present EXCEPT ![OwnerOf[k]] = Absent]
    /\ sharer' = IF sharer = OwnerOf[k] THEN Nobody ELSE sharer
    /\ Emit(room', told)
    /\ UNCHANGED <<open, joining, board, overtaken>>

\* Whichever socket asks, the user leaves.
HandleLeaveSession(k) ==
    /\ k \in open
    /\ room' = room \ {k}
    /\ TakeOutOf(OwnerOf[k], room')
    /\ UNCHANGED <<open, joining, board, overtaken>>

\* get_session_state answers participants, of whom this is one in the room.
HandleGetSessionState(k) ==
    /\ k \in room
    /\ Here(OwnerOf[k])
    /\ told' = [told EXCEPT ![k] =
            [people |-> present, sharer |-> CurrentSharer, board |-> board]]
    /\ UNCHANGED <<open, joining, room, present, sharer, board, overtaken>>

-----------------------------------------------------------------------------
(* Screen sharing *)

\* Fault: the participant's own flag is not set.
ScreenShareStartUnmarked(k) ==
    /\ k \in open /\ Teaches(k)
    /\ sharer \in {Unset, Nobody, Teacher}
    /\ sharer' = Teacher
    /\ Emit(room, [x \in Sockets |-> [told[x] EXCEPT !.sharer = Teacher]])
    /\ UNCHANGED <<open, joining, room, present, board, overtaken>>

\* The sender is told by an acknowledgement, the others by the event.
HandleScreenShareStart(k) ==
    /\ k \in open /\ Teaches(k)
    /\ sharer \in {Unset, Nobody, Teacher}
    /\ sharer' = Teacher
    /\ present' = [present EXCEPT ![Teacher].sharing = TRUE]
    /\ Emit(room, [x \in Sockets |->
            [told[x] EXCEPT !.sharer = Teacher, !.people[Teacher].sharing = TRUE]])
    /\ UNCHANGED <<open, joining, room, board, overtaken>>

\* A share that was never written is undefined, and refused like another's.
HandleScreenShareStop(k) ==
    LET u == OwnerOf[k] IN
    /\ k \in open
    /\ sharer \in {Nobody, u}
    /\ sharer = u \/ Teaches(k)
    /\ sharer' = Nobody
    /\ present' = IF Here(u) THEN [present EXCEPT ![u].sharing = FALSE] ELSE present
    /\ Emit(room, [x \in Sockets |->
            IF told[x].people[u] = Absent THEN [told[x] EXCEPT !.sharer = Nobody]
            ELSE [told[x] EXCEPT !.sharer = Nobody, !.people[u].sharing = FALSE]])
    /\ UNCHANGED <<open, joining, room, board, overtaken>>

-----------------------------------------------------------------------------
(* Whiteboard *)

\* whiteboard_opened carries the strokes that are kept.
HandleWhiteboardOpen(k) ==
    /\ k \in open /\ Teaches(k)
    /\ board' = [board EXCEPT !.active = TRUE]
    /\ Emit(room, [x \in Sockets |-> [told[x] EXCEPT !.board = board']])
    /\ UNCHANGED <<open, joining, room, present, sharer, overtaken>>

HandleWhiteboardClose(k) ==
    /\ k \in open /\ Teaches(k)
    /\ board' = [board EXCEPT !.active = FALSE]
    /\ Emit(room, [x \in Sockets |-> [told[x] EXCEPT !.board.active = FALSE]])
    /\ UNCHANGED <<open, joining, room, present, sharer, overtaken>>

\* Fault: one stroke too many is kept.
KeptLonger(strokes) == IF strokes <= StrokeCap THEN strokes + 1 ELSE strokes
Kept(strokes) == IF strokes < StrokeCap THEN strokes + 1 ELSE strokes

\* Everybody sees a stroke, kept or not; the sender has drawn it.
HandleWhiteboardDraw(k) ==
    /\ k \in open /\ Teaches(k)
    /\ board.active
    /\ \A x \in room : told[x].board.strokes < MaxStrokes
    /\ board' = [board EXCEPT !.strokes = Kept(@)]
    /\ Emit(room, [x \in Sockets |-> [told[x] EXCEPT !.board.strokes = @ + 1]])
    /\ UNCHANGED <<open, joining, room, present, sharer, overtaken>>

HandleWhiteboardClear(k) ==
    /\ k \in open /\ Teaches(k)
    /\ board' = [board EXCEPT !.strokes = 0]
    /\ Emit(room, [x \in Sockets |-> [told[x] EXCEPT !.board.strokes = 0]])
    /\ UNCHANGED <<open, joining, room, present, sharer, overtaken>>

-----------------------------------------------------------------------------
(* Cameras and hands *)

Change(u, person) ==
    /\ present' = [present EXCEPT ![u] = person]
    /\ Emit(room, [x \in Sockets |-> [told[x] EXCEPT !.people[u] =
            IF @ = Absent THEN Absent
                          ELSE [@ EXCEPT !.media = person.media, !.hand = person.hand]]])
    /\ UNCHANGED <<open, joining, room, sharer, board, overtaken>>

HandleMediaStateChange(k, on) ==
    /\ k \in open /\ Here(OwnerOf[k])
    /\ Change(OwnerOf[k], [present[OwnerOf[k]] EXCEPT !.media = on])

HandleRaiseHand(k) ==
    /\ k \in open /\ Here(OwnerOf[k])
    /\ Change(OwnerOf[k], [present[OwnerOf[k]] EXCEPT !.hand = TRUE])

HandleLowerHand(k) ==
    /\ k \in open /\ Here(OwnerOf[k])
    /\ Change(OwnerOf[k], [present[OwnerOf[k]] EXCEPT !.hand = FALSE])

HandleCallOnStudent(k, u) ==
    /\ k \in open /\ Teaches(k)
    /\ Here(u)
    /\ Change(u, [present[u] EXCEPT !.hand = FALSE])

ClassNext ==
    \E k \in Sockets :
        \/ HandleConnection(k) \/ HandleDisconnect(k)
        \/ HandleJoinSession(k) \/ AddParticipant(k) \/ HandleLeaveSession(k)
        \/ HandleGetSessionState(k)
        \/ HandleScreenShareStart(k) \/ HandleScreenShareStop(k)
        \/ HandleWhiteboardOpen(k) \/ HandleWhiteboardClose(k)
        \/ HandleWhiteboardDraw(k) \/ HandleWhiteboardClear(k)
        \/ \E on \in BOOLEAN : HandleMediaStateChange(k, on)
        \/ HandleRaiseHand(k) \/ HandleLowerHand(k)
        \/ \E u \in Members : HandleCallOnStudent(k, u)

ClassSpec == ClassInit /\ [][ClassNext]_classVars

-----------------------------------------------------------------------------
(* Properties *)

\* Every variable keeps its type, the strokes kept their cap.
ClassTypeOK ==
    /\ open \subseteq Sockets /\ joining \subseteq Sockets /\ room \subseteq open
    /\ present \in [Members -> Persons \cup {Absent}]
    /\ sharer \in Members \cup {Nobody, Unset}
    /\ board \in Boards /\ board.strokes <= StrokeCap
    /\ told \in [Sockets -> Views]
    /\ overtaken \subseteq Members

\* Events carry changes, a join the whole: whoever is in the room knows who is
\* there, in what state, and who shares, whatever it missed before it joined.
RoomKnowsThePeople ==
    \A k \in room :
        told[k].people = present /\ told[k].sharer = CurrentSharer

\* ... and has the board a newcomer is given, until strokes are not kept.
RoomSeesTheBoard ==
    \A k \in room :
        /\ told[k].board.active = board.active
        /\ told[k].board.strokes >= board.strokes
        /\ board.strokes < StrokeCap => told[k].board.strokes = board.strokes

\* The screen that is shared is that of a participant who knows of it, and no
\* one else believes to share: a reconnection finds its share or none.
ShareIsKnown ==
    \A u \in Members : sharer = u <=> Here(u) /\ present[u].sharing

\* Each socket of the room sees what the server keeps of it, which is one thing.
RoomIsSeen == RoomKnowsThePeople /\ RoomSeesTheBoard /\ ShareIsKnown

\* A participant has a socket, except one whose last socket closed while the
\* queries of its join were on their way.
ParticipantsAreConnected ==
    \A u \in Members : Here(u) => SocketsOf(u) # {} \/ u \in overtaken
=============================================================================
