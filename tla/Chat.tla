--------------------------------- MODULE Chat ---------------------------------
(***************************************************************************)
(* Chat rooms, the support inbox and the discussion threads kept in the    *)
(* same tables (src/modules/chat, src/modules/discussions), and the        *)
(* gateway that passes messages to the sockets in a room.                  *)
(*                                                                         *)
(* A call reads, awaits and writes: another may come between.  The events  *)
(* a call emits are handled before it goes on.                             *)
(***************************************************************************)
EXTENDS Naturals, FiniteSets

CONSTANTS
    People,         \* users
    Staff,          \* those who answer the support inbox
    Writers,        \* who may open a thread: the instructor and the enrolled
    Seeded,         \* whom the course chat begins with: instructor, ACTIVE students
    Lines,          \* sockets
    UserOf,         \* the user a socket is authenticated as
    Rooms,          \* rows of chats that may be created (a bound)
    Posts,          \* rows of chat_messages that may be created (a bound)
    Calls,          \* requests and events served at one time
    NoPost, Idle

ChatKinds == {"none", "direct", "support", "course"}
PostRows == [room : Rooms, by : People, kind : {"text", "thread", "reply", "answer"},
             fate : {"kept", "withdrawn", "removed"}]
CallSteps ==
    [at : {"join"}, line : Lines, room : Rooms]
        \cup [at : {"send", "add"}, who : People, room : Rooms]
        \cup [at : {"answer"}, who : People, room : Rooms, kind : {"text", "reply"}]
        \cup [at : {"emit"}, post : Posts]
        \cup [at : {"open", "recruit"}]

ASSUME ChatAssumption ==
    /\ Staff \subseteq People /\ Writers \subseteq People /\ Seeded \subseteq People
    /\ UserOf \in [Lines -> People]
    /\ IsFiniteSet(Rooms) /\ IsFiniteSet(Calls)
    /\ NoPost \notin PostRows /\ Idle \notin CallSteps

VARIABLES
    chat,       \* chats.type
    member,     \* chat_participants
    post,       \* chat_messages
    linked,     \* connectedUsers, by socket
    listening,  \* sockets in the room chat:<id>
    tracked,    \* userRooms
    call,       \* what each call has read and has yet to write
    owed,       \* history: posts stored while a socket listened, not sent to it
    left,       \* history: who left a room listening, or with a call on its way
    stray,      \* history: users of two sockets, or of a join overtaken
    crossed     \* history: calls that found no course chat while another did

chatVars == <<chat, member, post, linked, listening, tracked, call, owed, left, stray,
              crossed>>
stored == <<chat, member, post>>
gateway == <<linked, listening, tracked, stray>>

-----------------------------------------------------------------------------
ChatInit ==
    /\ chat = [r \in Rooms |-> "none"]
    /\ member = [r \in Rooms |-> {}]
    /\ post = [m \in Posts |-> NoPost]
    /\ linked = {}
    /\ listening = [r \in Rooms |-> {}]
    /\ tracked = [u \in People |-> {}]
    /\ call = [x \in Calls |-> Idle]
    /\ owed = {}
    /\ left = {}
    /\ stray = {}
    /\ crossed = 0

Exists(r) == chat[r] # "none"
IsParticipant(r, u) == u \in member[r]
Written(m) == post[m] # NoPost /\ post[m].fate # "removed"
CourseChats == {r \in Rooms : chat[r] = "course"}
LinesOf(u) == {k \in linked : UserOf[k] = u}
At(x, step) == call[x] # Idle /\ call[x].at = step

Begin(x, step) ==
    /\ call[x] = Idle
    /\ call' = [call EXCEPT ![x] = step]
Finish(x) == call' = [call EXCEPT ![x] = Idle]

NewChat(r, kind, who) ==
    /\ chat[r] = "none"
    /\ chat' = [chat EXCEPT ![r] = kind]
    /\ member' = [member EXCEPT ![r] = who]

\* A post is stored; those who listen have a claim to it.
NewPost(m, r, u, kind) ==
    /\ post[m] = NoPost
    /\ post' = [post EXCEPT ![m] =
            [room |-> r, by |-> u, kind |-> kind, fate |-> "kept"]]
    /\ owed' = owed \cup (listening[r] \X {m})

-----------------------------------------------------------------------------
(* Rooms *)

\* A direct chat is not looked for: each call makes another.
CreateChatRoom(u, others, kind, r) ==
    /\ kind \in {"direct", "support"}
    /\ others # {} /\ u \notin others
    /\ NewChat(r, kind, others \cup {u})
    /\ UNCHANGED <<post, gateway, call, owed, left, crossed>>

\* Fault: it is looked for by its participants, as direct chats once were.
NoChatOfTheSeeded == \A r \in CourseChats : member[r] # Seeded
NoCourseChat == CourseChats = {}

\* The controller passes a query parameter, the course's name, where the requester
\* is expected.
GetOrCreateCourseChat(x) ==
    /\ Begin(x, [at |-> IF NoCourseChat THEN "open" ELSE "recruit"])
    /\ crossed' = IF NoCourseChat /\ \E y \in Calls : At(y, "open")
                  THEN crossed + 1 ELSE crossed
    /\ UNCHANGED <<stored, gateway, owed, left>>

OpenCourseChat(x, r) ==
    /\ At(x, "open")
    /\ NewChat(r, "course", Seeded)
    /\ Finish(x)
    /\ UNCHANGED <<post, gateway, owed, left, crossed>>

\* A name is no participant, and no user either: the insert is refused.
RecruitRequester(x) ==
    /\ At(x, "recruit")
    /\ Finish(x)
    /\ UNCHANGED <<stored, gateway, owed, left, crossed>>

\* The parameter is the id of a user who takes no part yet.
RecruitNamed(x, p, r) ==
    /\ r \in CourseChats
    /\ ~IsParticipant(r, p)
    /\ Begin(x, [at |-> "add", who |-> p, room |-> r])
    /\ UNCHANGED <<stored, gateway, owed, left, crossed>>

AddParticipant(x, u, p, r) ==
    /\ Exists(r)
    /\ IsParticipant(r, u) /\ ~IsParticipant(r, p)
    /\ Begin(x, [at |-> "add", who |-> p, room |-> r])
    /\ UNCHANGED <<stored, gateway, owed, left, crossed>>

\* The second of two is refused by the unique key; the row is there.
InsertParticipant(x) ==
    /\ At(x, "add")
    /\ LET c == call[x] IN
         /\ member' = [member EXCEPT ![c.room] = @ \cup {c.who}]
         /\ left' = left \ {<<c.who, c.room>>}
    /\ Finish(x)
    /\ UNCHANGED <<chat, post, gateway, owed, crossed>>

\* Something of this user is under way in the room.
Engaged(u, r) ==
    \/ \E k \in listening[r] : UserOf[k] = u
    \/ \E x \in Calls :
           \/ (At(x, "send") \/ At(x, "answer")) /\ call[x].who = u /\ call[x].room = r
           \/ At(x, "join") /\ UserOf[call[x].line] = u /\ call[x].room = r

\* One may only remove oneself; sockets stay where they are.
RemoveParticipant(u, r) ==
    /\ Exists(r)
    /\ member' = [member EXCEPT ![r] = @ \ {u}]
    /\ left' = IF IsParticipant(r, u) /\ Engaged(u, r) THEN left \cup {<<u, r>>} ELSE left
    /\ UNCHANGED <<chat, post, gateway, call, owed, crossed>>

-----------------------------------------------------------------------------
(* Messages *)

SendMessage(x, u, r) ==
    /\ IsParticipant(r, u)
    /\ Begin(x, [at |-> "send", who |-> u, room |-> r])
    /\ UNCHANGED <<stored, gateway, owed, left, crossed>>

StoreMessage(x, m) ==
    /\ At(x, "send")
    /\ NewPost(m, call[x].room, call[x].who, "text")
    /\ call' = [call EXCEPT ![x] = [at |-> "emit", post |-> m]]
    /\ UNCHANGED <<chat, member, gateway, left, crossed>>

\* Fault: sent to the users whose rooms are tracked, not to who listens.
HearTracked(r) == {k \in listening[r] : r \in tracked[UserOf[k]]}
Hear(r) == listening[r]

\* chat.message.sent: sendMessageToRoom reaches every socket in the room.
SendToRoom(x) ==
    /\ At(x, "emit")
    /\ LET m == call[x].post IN
         owed' = owed \ (Hear(post[m].room) \X {m})
    /\ Finish(x)
    /\ UNCHANGED <<stored, gateway, left, crossed>>

DeleteMessage(u, m) ==
    /\ Written(m) /\ post[m].by = u
    /\ post' = [post EXCEPT ![m].fate = "withdrawn"]
    /\ UNCHANGED <<chat, member, gateway, call, owed, left, crossed>>

\* Fault: who answers is not made a participant.
TakePartSilently(x, u, r, kind) ==
    /\ Begin(x, [at |-> "answer", who |-> u, room |-> r, kind |-> kind])
    /\ UNCHANGED <<chat, member, left>>

\* Who answers takes part first, invited or not.
TakePart(x, u, r, kind) ==
    /\ Begin(x, [at |-> "answer", who |-> u, room |-> r, kind |-> kind])
    /\ member' = [member EXCEPT ![r] = @ \cup {u}]
    /\ left' = left \ {<<u, r>>}
    /\ UNCHANGED chat

AdminReply(x, u, r) ==
    /\ u \in Staff
    /\ chat[r] = "support"
    /\ TakePart(x, u, r, "text")
    /\ UNCHANGED <<post, gateway, owed, crossed>>

\* Fault: the chat is not looked for.
CreateReplyAnywhere(x, u, r) ==
    /\ TakePart(x, u, r, "reply")
    /\ UNCHANGED <<post, gateway, owed, crossed>>

\* A reply may be to any chat.
CreateReply(x, u, r) ==
    /\ Exists(r)
    /\ TakePart(x, u, r, "reply")
    /\ UNCHANGED <<post, gateway, owed, crossed>>

\* Nothing listens to chat.message.created, and a reply emits nothing.
StoreAnswer(x, m) ==
    /\ At(x, "answer")
    /\ NewPost(m, call[x].room, call[x].who, call[x].kind)
    /\ Finish(x)
    /\ UNCHANGED <<chat, member, gateway, left, crossed>>

-----------------------------------------------------------------------------
(* Threads *)

CreateThread(u, r, m) ==
    /\ u \in Writers
    /\ NewChat(r, "direct", {u})
    /\ NewPost(m, r, u, "thread")
    /\ UNCHANGED <<gateway, call, left, crossed>>

\* Whoever asks, and whichever post.
MarkAnswered(m) ==
    /\ Written(m)
    /\ post' = [post EXCEPT ![m].kind = "answer"]
    /\ UNCHANGED <<chat, member, gateway, call, owed, left, crossed>>

\* The controller never says that it is an administrator who asks.
DeletePost(u, m) ==
    /\ Written(m) /\ post[m].by = u
    /\ post' = [post EXCEPT ![m].fate = "removed"]
    /\ UNCHANGED <<chat, member, gateway, call, owed, left, crossed>>

-----------------------------------------------------------------------------
(* Sockets *)

HandleConnection(k) ==
    /\ k \notin linked
    /\ \A x \in Calls : ~(At(x, "join") /\ call[x].line = k)
    /\ linked' = linked \cup {k}
    /\ stray' = IF LinesOf(UserOf[k]) = {} THEN stray ELSE stray \cup {UserOf[k]}
    /\ UNCHANGED <<stored, listening, tracked, call, owed, left, crossed>>

\* Fault: the rooms of a user who is gone are kept.
KeptRooms(u) == tracked
Untracked(u) == [tracked EXCEPT ![u] = {}]

NoLonger(k) == [r \in Rooms |-> listening[r] \ {k}]

\* The last socket of a user takes the tracked rooms along.
HandleDisconnect(k) ==
    LET u == UserOf[k]
        last == LinesOf(u) = {k} IN
    /\ k \in linked
    /\ linked' = linked \ {k}
    /\ listening' = NoLonger(k)
    /\ tracked' = IF last THEN Untracked(u) ELSE tracked
    /\ stray' = IF last THEN stray \ {u} ELSE stray
    /\ owed' = {d \in owed : d[1] # k}
    /\ UNCHANGED <<stored, call, left, crossed>>

\* Fault: any room may be joined.
AllowedAnyway(r, u) == Exists(r)
Allowed(r, u) == IsParticipant(r, u)

HandleJoinRoom(x, k, r) ==
    /\ k \in linked
    /\ Allowed(r, UserOf[k])
    /\ Begin(x, [at |-> "join", line |-> k, room |-> r])
    /\ UNCHANGED <<stored, gateway, owed, left, crossed>>

\* The answer is in: a socket that has closed joins nothing, and is tracked.
JoinRoom(x) ==
    /\ At(x, "join")
    /\ LET k == call[x].line
           r == call[x].room IN
         /\ listening' = [listening EXCEPT ![r] = @ \cup (linked \cap {k})]
         /\ tracked' = [tracked EXCEPT ![UserOf[k]] = @ \cup {r}]
         /\ stray' = IF k \in linked THEN stray ELSE stray \cup {UserOf[k]}
    /\ Finish(x)
    /\ UNCHANGED <<stored, linked, owed, left, crossed>>

\* Another socket of the user may still listen.
HandleLeaveRoom(k, r) ==
    /\ k \in linked
    /\ listening' = [listening EXCEPT ![r] = @ \ {k}]
    /\ tracked' = [tracked EXCEPT ![UserOf[k]] = @ \ {r}]
    /\ owed' = {d \in owed : ~(d[1] = k /\ post[d[2]].room = r)}
    /\ UNCHANGED <<stored, linked, call, left, stray, crossed>>

\* The process ends, with its sockets and its calls; crossed counts the calls
\* that have made a chat, no longer those that might have.
ChatCrash ==
    /\ linked' = {}
    /\ listening' = [r \in Rooms |-> {}]
    /\ tracked' = [u \in People |-> {}]
    /\ call' = [x \in Calls |-> Idle]
    /\ owed' = {}
    /\ stray' = {}
    /\ crossed' = IF NoCourseChat THEN 0 ELSE Cardinality(CourseChats) - 1
    /\ UNCHANGED <<stored, left>>

ChatNext ==
    \/ \E u \in People, r \in Rooms :
           \/ \E others \in SUBSET People, kind \in ChatKinds :
                  CreateChatRoom(u, others, kind, r)
           \/ RemoveParticipant(u, r)
           \/ \E m \in Posts : CreateThread(u, r, m)
    \/ \E x \in Calls :
           \/ GetOrCreateCourseChat(x) \/ RecruitRequester(x)
           \/ InsertParticipant(x) \/ SendToRoom(x) \/ JoinRoom(x)
           \/ \E r \in Rooms :
                  \/ OpenCourseChat(x, r)
                  \/ \E u \in People :
                         \/ \E p \in People : AddParticipant(x, u, p, r)
                         \/ RecruitNamed(x, u, r) \/ SendMessage(x, u, r)
                         \/ AdminReply(x, u, r) \/ CreateReply(x, u, r)
                  \/ \E k \in Lines : HandleJoinRoom(x, k, r)
           \/ \E m \in Posts : StoreMessage(x, m) \/ StoreAnswer(x, m)
    \/ \E m \in Posts :
           \/ MarkAnswered(m)
           \/ \E u \in People : DeleteMessage(u, m) \/ DeletePost(u, m)
    \/ \E k \in Lines :
           \/ HandleConnection(k) \/ HandleDisconnect(k)
           \/ \E r \in Rooms : HandleLeaveRoom(k, r)
    \/ ChatCrash
ChatSpec == ChatInit /\ [][ChatNext]_chatVars

-----------------------------------------------------------------------------
(* Properties *)

\* Every variable keeps its type; only connected sockets listen, and what
\* exists not has no participants.
ChatTypeOK ==
    /\ chat \in [Rooms -> ChatKinds]
    /\ member \in [Rooms -> SUBSET People]
    /\ \A r \in Rooms : chat[r] = "none" => member[r] = {}
    /\ post \in [Posts -> PostRows \cup {NoPost}]
    /\ linked \subseteq Lines
    /\ listening \in [Rooms -> SUBSET linked]
    /\ tracked \in [People -> SUBSET Rooms]
    /\ call \in [Calls -> CallSteps \cup {Idle}]
    /\ owed \subseteq Lines \X Posts
    /\ left \subseteq People \X Rooms /\ stray \subseteq People
    /\ crossed \in Nat

\* A message sent to a room reaches every socket that listened when it was
\* stored and listens still, once its call goes on: it is only replies, of the
\* support inbox and of threads, that no event carries.
RoomHearsTheMessage ==
    \A d \in owed :
        \/ \E x \in Calls : call[x] = [at |-> "emit", post |-> d[2]]
        \/ post[d[2]].kind \in {"reply", "answer"}
        \/ chat[post[d[2]].room] = "support" /\ post[d[2]].by \in Staff

\* A room is heard by its participants, and by those who left it listening or
\* while their join was on its way.
ListenersTakePart ==
    \A r \in Rooms : \A k \in listening[r] :
        IsParticipant(r, UserOf[k]) \/ <<UserOf[k], r>> \in left

\* What is written in a room is written by a participant, or by one who left
\* while the call was on its way; those who answer take part from then on.
WritersTakePart ==
    [][\A m \in Posts : post[m] = NoPost /\ post'[m] # NoPost =>
           \/ post'[m].by \in member'[post'[m].room]
           \/ <<post'[m].by, post'[m].room>> \in left]_chatVars

\* getOnlineUsersInRoom: a user with one socket, whose joins were not
\* overtaken, is in a room's list exactly while that socket listens.
OnlineUsersListen ==
    \A u \in People \ stray, r \in Rooms :
        r \in tracked[u] <=> \E k \in listening[r] : UserOf[k] = u

\* A course has one chat, but for calls that looked for it at the same time.
OneCourseChat == Cardinality(CourseChats) <= 1 + crossed

\* Who is in a room, for its messages and for its list, is who listens there.
RoomsAgree == ListenersTakePart /\ OnlineUsersListen /\ OneCourseChat

\* What is said in a room comes from its participants and reaches those who
\* listen, and these are who may.
ChatIsSound == [](RoomsAgree /\ RoomHearsTheMessage) /\ WritersTakePart
===============================================================================
