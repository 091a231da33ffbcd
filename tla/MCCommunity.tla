------------------------------ MODULE MCCommunity ------------------------------
\* What users do with each other and with a course beside its lessons: chats,
\* notices, quizzes, reviews, coupons, availability and the curriculum.  None shares a row with
\* another, and one of them moves.  The rooms of the chat are tried three ways,
\* the notices too and quizzes two: topics that depend on each other little are
\* kept apart.
EXTENDS Chat, Notices, Quizzes, Reviews, Coupons, Slots, Curriculum

CONSTANTS r1, r2, u1, u2, k1, k2, s1, s2, x1, x2, y1, y2

VARIABLE focus

Owners == (k1 :> u1) @@ (k2 :> u1)

Offer(kind, value, minimum, cap, limit, courses) ==
    [kind |-> kind, value |-> value, minimum |-> minimum, cap |-> cap,
     limit |-> limit, courses |-> courses]
SomeOffers ==
    {Offer("percentage", 3333, 0, 200, 1, {}), Offer("percentage", 2500, 0, NoCap, 0, {s1}),
     Offer("percentage", 10000, 0, NoCap, 0, {}), Offer("percentage", 2500, 0, 0, 0, {}),
     Offer("fixed", 250, 600, NoCap, 0, {}), Offer("fixed", 9990, 0, NoCap, 0, {})}
SomeAmendments == [active : BOOLEAN, limit : {0, 1}] \cup {[value |-> -2500]}
Prices == [s \in OnSale |-> 1050]
InCapitals == [t \in Typed |-> "K"]
OneSection == [l \in Lessons |-> s1]

\* The same values stand for calls, devices, submissions and editors, and
\* others for questions, reviewers, slots and lessons.
CommunitySymmetry == Permutations({x1, x2}) \cup Permutations({y1, y2})

ChatTopics == {"sockets", "calls", "course"}
NoticeTopics == {"announcement", "delivery", "inbox"}
Loss == -9
Gain == 10
OddPoints == {Loss, Gain}
QuizTopics == {"answers", "rates"}

Init ==
    /\ focus \in ChatTopics \cup NoticeTopics \cup QuizTopics
                 \cup {"reviews", "coupons", "slots", "curriculum"}
    /\ ChatInit /\ NoticesInit /\ QuizInit /\ ReviewsInit /\ CouponsInit /\ SlotsInit
    /\ CurriculumInit
    /\ focus # "announcement" => active = {}
    /\ focus \notin NoticeTopics => viaQueue = TRUE
    /\ focus # "reviews" => enrolled = [u \in Reviewers |-> "ACTIVE"]

\* Two sockets of a user, and one room; whoever writes is a call, in one room;
\* or a second chat of the course, where nobody listens.
ChatMoves ==
    /\ ChatNext
    /\ CASE focus = "sockets" -> /\ chat'[r2] = "none"
                                 /\ Cardinality({x \in Calls : call'[x] # Idle}) <= 1
         [] focus = "calls" -> chat'[r2] = "none" /\ linked' \subseteq {k1}
         [] focus = "course" -> linked' = {} /\ post' = post

\* Nothing is read or deleted by its user.
Unopened ==
    \A o \in Occasions, u \in Readers, c \in Copies : notice[o][u][c] \in {"none", "unread"}

NoticesMove ==
    /\ NoticesNext
    /\ CASE focus = "announcement" ->
              /\ token' = {} /\ online' = {} /\ gone' = {} /\ aged' = {}
              /\ Unopened'
              /\ \A o \in Alerts, u \in Readers : AtStep(o, u, "none")'
         [] focus = "delivery" ->
              /\ announcement' = announcement /\ active' = {} /\ aged' = {}
              /\ Unopened'
         [] focus = "inbox" ->
              /\ announcement' = announcement /\ active' = {}
              /\ token' = {} /\ online' = {} /\ gone' = {}

\* Two questions, or one and the pass rate; of the odd points each kind of
\* question has its own.
QuizMoves ==
    /\ QuizNext
    /\ CASE focus = "answers" ->
              /\ report' = NoResult
              /\ quiz' \in {quiz, NoQuiz} \/ \A a \in Attempts : attempt[a].at = "none"
         [] focus = "rates" -> question'[y2] = NoQuestion
    /\ \A q \in Asked' :
           question'[q].points \in
               {1} \cup IF question'[q].kind = "short_answer" THEN {Gain}
                      ELSE IF focus = "answers" THEN {Loss} ELSE {}

Next ==
    /\ UNCHANGED focus
    /\ \/ focus \in ChatTopics /\ ChatMoves
          /\ UNCHANGED <<noticesVars, quizVars, reviewVars, couponVars, slotsVars, curriculumVars>>
       \/ focus \in NoticeTopics /\ NoticesMove
          /\ UNCHANGED <<chatVars, quizVars, reviewVars, couponVars, slotsVars, curriculumVars>>
       \/ focus \in QuizTopics /\ QuizMoves
          /\ UNCHANGED <<chatVars, noticesVars, reviewVars, couponVars, slotsVars, curriculumVars>>
       \/ focus = "reviews" /\ ReviewsNext
          /\ UNCHANGED <<chatVars, noticesVars, quizVars, couponVars, slotsVars, curriculumVars>>
       \/ focus = "coupons" /\ CouponsNext
          /\ UNCHANGED <<chatVars, noticesVars, quizVars, reviewVars, slotsVars, curriculumVars>>
       \/ focus = "slots" /\ SlotsNext
          /\ UNCHANGED <<chatVars, noticesVars, quizVars, reviewVars, couponVars, curriculumVars>>
       \/ focus = "curriculum" /\ CurriculumNext
          /\ UNCHANGED <<chatVars, noticesVars, quizVars, reviewVars, couponVars, slotsVars>>

vars == <<focus, chatVars, noticesVars, quizVars, reviewVars, couponVars, slotsVars,
          curriculumVars>>
Spec == Init /\ [][Next]_vars

\* Every variable of the modules keeps its type.
TypeOK ==
    /\ ChatTypeOK /\ NoticesTypeOK /\ QuizTypeOK
    /\ ReviewsTypeOK /\ CouponsTypeOK /\ SlotsTypeOK /\ CurriculumTypeOK
================================================================================
