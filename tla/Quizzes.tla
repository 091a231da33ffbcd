-------------------------------- MODULE Quizzes --------------------------------
(***************************************************************************)
(* The quiz of one lesson (src/modules/quizzes): its questions, the        *)
(* attempts of students and the answers kept of them.                      *)
(*                                                                         *)
(* A submission is scored from what it has read and stored in one          *)
(* transaction; another submission of the attempt, or the instructor, may  *)
(* come between.                                                           *)
(***************************************************************************)
EXTENDS Integers, FiniteSets, FiniteSetsExt

CONSTANTS
    Questions,      \* rows of quiz_questions that may be created (a bound)
    Attempts,       \* rows of quiz_attempts that may be created (a bound)
    Submissions,    \* submissions that may be made (a bound)
    NewPoints,      \* points a question may be created with: at least one
    AmendedPoints,  \* points an update may store: it is not validated
    PassingScores,  \* percentages that may be asked
    NoQuiz, NoQuestion, NoResult

ASSUME QuizzesAssumption ==
    /\ NewPoints \subseteq Nat \ {0} /\ AmendedPoints \subseteq Int
    /\ PassingScores \subseteq Nat
    /\ IsFiniteSet(Questions) /\ IsFiniteSet(Attempts)

VARIABLES
    quiz,       \* the row of quizzes, lessonId being unique
    question,   \* quiz_questions
    attempt,    \* quiz_attempts
    answer,     \* quiz_answers, by the submission that stored them
    submission, \* what each submission has read and has yet to store
    report,     \* getQuizResults: attempts counted, passes yet to be counted
    raced,      \* history: submissions that read an attempt another had read
    shrunk,     \* history: attempts that lost answers to deleted questions
    late        \* history: attempts passed since the report's first count

quizVars == <<quiz, question, attempt, answer, submission, report, raced, shrunk, late>>
script == <<quiz, question>>

-----------------------------------------------------------------------------
Kinds == {"multiple_choice", "short_answer"}
Quizzes == [published : BOOLEAN, passing : PassingScores]
QuestionRows == [kind : Kinds, points : NewPoints \cup AmendedPoints]

\* docked is a history: whether a question was then worth less than nothing.
Results == [at : {"completed"}, earned : Int, total : Int, passed : BOOLEAN, docked : BOOLEAN]
AttemptRows == [at : {"none", "open", "deleted"}] \cup Results

\* An answer as it compares with the correct one: "part" is one that contains
\* it or is contained in it, as the empty answer to a question left out is.
GivenAnswers == {"right", "part", "wrong"}
AnswerRows == [question : Questions, points : Int]
SubmissionRows ==
    [at : {"none", "stored", "refused"}]
        \cup [at : {"scored"}, attempt : Attempts, answers : SUBSET AnswerRows,
              result : Results]
ReportRows ==
    LET Counts == 0..Cardinality(Attempts) IN
    [total : Counts, passes : Counts \cup {NoResult}]

QuizInit ==
    /\ quiz = NoQuiz
    /\ question = [q \in Questions |-> NoQuestion]
    /\ attempt = [a \in Attempts |-> [at |-> "none"]]
    /\ answer = [a \in Attempts |-> [s \in Submissions |-> {}]]
    /\ submission = [s \in Submissions |-> [at |-> "none"]]
    /\ report = NoResult
    /\ raced = {}
    /\ shrunk = {}
    /\ late = {}

Asked == {q \in Questions : question[q] # NoQuestion}
Counted == {a \in Attempts : attempt[a].at = "completed"}
PointsOf(rows) == MapThenSumSet(LAMBDA r : r.points, rows)

-----------------------------------------------------------------------------
(* The instructor *)

CreateQuiz(passing) ==
    /\ quiz = NoQuiz
    /\ quiz' = [published |-> FALSE, passing |-> passing]
    /\ UNCHANGED <<question, attempt, answer, submission, report, raced, shrunk, late>>

UpdateQuiz(row) ==
    /\ quiz # NoQuiz
    /\ quiz' = row
    /\ UNCHANGED <<question, attempt, answer, submission, report, raced, shrunk, late>>

\* Questions, attempts and answers go with it.
DeleteQuiz ==
    /\ quiz # NoQuiz
    /\ quiz' = NoQuiz
    /\ question' = [q \in Questions |-> NoQuestion]
    /\ attempt' = [a \in Attempts |-> 
            IF attempt[a].at = "none" THEN attempt[a] ELSE [at |-> "deleted"]]
    /\ answer' = [a \in Attempts |-> [s \in Submissions |-> {}]]
    /\ late' = {}
    /\ report' = NoResult
    /\ UNCHANGED <<submission, raced, shrunk>>

AddQuestion(q, row) ==
    /\ quiz # NoQuiz
    /\ row.points \in NewPoints
    /\ question[q] = NoQuestion
    /\ question' = [question EXCEPT ![q] = row]
    /\ UNCHANGED <<quiz, attempt, answer, submission, report, raced, shrunk, late>>

UpdateQuestion(q, row) ==
    /\ question[q] # NoQuestion
    /\ row.points \in {question[q].points} \cup AmendedPoints
    /\ question' = [question EXCEPT ![q] = row]
    /\ UNCHANGED <<quiz, attempt, answer, submission, report, raced, shrunk, late>>

\* Its answers go with it; the scores they made stay.
DeleteQuestion(q) ==
    /\ question[q] # NoQuestion
    /\ question' = [question EXCEPT ![q] = NoQuestion]
    /\ answer' = [a \in Attempts |-> [s \in Submissions |->
            {r \in answer[a][s] : r.question # q}]]
    /\ shrunk' = shrunk \cup {a \in Attempts : answer'[a] # answer[a]}
    /\ UNCHANGED <<quiz, attempt, submission, report, raced, late>>

-----------------------------------------------------------------------------
(* Students *)

StartAttempt(a) ==
    /\ quiz # NoQuiz /\ quiz.published
    /\ attempt[a].at = "none"
    /\ attempt' = [attempt EXCEPT ![a] = [at |-> "open"]]
    /\ UNCHANGED <<script, answer, submission, report, raced, shrunk, late>>

\* checkAnswer
CheckAnswer(kind, given) ==
    given = "right" \/ (kind = "short_answer" /\ given = "part")

\* Fault: every question counts one point.
TotalByQuestions == Cardinality(Asked)
TotalPoints == MapThenSumSet(LAMBDA q : question[q].points, Asked)

\* Whether a score passes.  A passing score of zero is reached by whoever
\* answers nothing; one that is met exactly may be missed by the rounding of
\* (earned / total) * 100 in binary, as 29 of 100 misses 29.
Verdicts(earned, total, passing) ==
    IF total <= 0 THEN {passing = 0}
    ELSE IF earned * 100 = passing * total /\ earned \notin {0, total} THEN BOOLEAN
    ELSE {earned * 100 >= passing * total}

Marked(given) ==
    {[question |-> q,
      points |-> IF CheckAnswer(question[q].kind, given[q]) THEN question[q].points ELSE 0] :
         q \in Asked}

Scored(rows, passed) ==
    [at |-> "completed", earned |-> PointsOf(rows), total |-> TotalPoints, passed |-> passed,
     docked |-> \E q \in Asked : question[q].points < 0]

\* Fault: an attempt that is complete may be submitted again.
Started(a) == attempt[a].at \in {"open", "completed"}
Open(a) == attempt[a].at = "open"

SubmitAttempt(s, a, given) ==
    /\ submission[s].at = "none"
    /\ Open(a)
    /\ \E passed \in Verdicts(PointsOf(Marked(given)), TotalPoints, quiz.passing) :
           submission' = [submission EXCEPT ![s] =
               [at |-> "scored", attempt |-> a, answers |-> Marked(given),
                result |-> Scored(Marked(given), passed)]]
    /\ raced' = IF \E t \in Submissions \ {s} :
                       submission[t].at = "scored" /\ submission[t].attempt = a
                THEN raced \cup {s} ELSE raced
    /\ UNCHANGED <<script, attempt, answer, report, shrunk, late>>

\* A score has three digits before the point: Decimal(5, 2).
FitsColumn(earned, total) ==
    total > 0 => \A n \in {earned, -earned} : n * 20000 < total * 199999

\* Fault: the result is stored though some of its answers are refused.
AcceptedInPart(s) == attempt[submission[s].attempt].at # "deleted"

\* An answer to a question that is gone is refused, and the result with it; so
\* is a score that is too large.
Accepted(s) ==
    /\ attempt[submission[s].attempt].at # "deleted"
    /\ FitsColumn(submission[s].result.earned, submission[s].result.total)
    /\ \A r \in submission[s].answers : question[r.question] # NoQuestion

StoreSubmission(s) ==
    /\ submission[s].at = "scored"
    /\ LET c == submission[s] IN
       IF Accepted(s)
       THEN /\ answer' = [answer EXCEPT ![c.attempt][s] =
                    {r \in c.answers : question[r.question] # NoQuestion}]
            /\ attempt' = [attempt EXCEPT ![c.attempt] = c.result]
            /\ late' = IF report # NoResult /\ c.result.passed
                       THEN late \cup {c.attempt} ELSE late
            /\ submission' = [submission EXCEPT ![s] = [at |-> "stored"]]
       ELSE /\ submission' = [submission EXCEPT ![s] = [at |-> "refused"]]
            /\ UNCHANGED <<answer, attempt, late>>
    /\ UNCHANGED <<script, report, raced, shrunk>>

-----------------------------------------------------------------------------
(* Results *)

\* Fault: attempts are counted whatever came of them.
EverStarted == {a \in Attempts : attempt[a].at \in {"open", "completed"}}
Passed == {a \in Counted : attempt[a].passed}

\* Completed attempts are counted first, those that passed by a later query.
CountAttempts ==
    /\ quiz # NoQuiz
    /\ report = NoResult
    /\ report' = [total |-> Cardinality(Counted), passes |-> NoResult]
    /\ late' = {}
    /\ UNCHANGED <<script, attempt, answer, submission, raced, shrunk>>

CountPasses ==
    /\ report # NoResult
    /\ report.passes = NoResult
    /\ report' = [report EXCEPT !.passes = Cardinality(Passed)]
    /\ UNCHANGED <<script, attempt, answer, submission, raced, shrunk, late>>

SendReport ==
    /\ report # NoResult
    /\ report.passes # NoResult
    /\ report' = NoResult
    /\ late' = {}
    /\ UNCHANGED <<script, attempt, answer, submission, raced, shrunk>>

QuizNext ==
    \/ \E p \in PassingScores : CreateQuiz(p)
    \/ \E row \in Quizzes : UpdateQuiz(row)
    \/ DeleteQuiz
    \/ \E q \in Questions :
           \/ \E row \in QuestionRows : AddQuestion(q, row) \/ UpdateQuestion(q, row)
           \/ DeleteQuestion(q)
    \/ \E a \in Attempts :
           \/ StartAttempt(a)
           \/ \E s \in Submissions, given \in [Questions -> GivenAnswers] :
                  SubmitAttempt(s, a, given)
    \/ \E s \in Submissions : StoreSubmission(s)
    \/ CountAttempts \/ CountPasses \/ SendReport
QuizSpec == QuizInit /\ [][QuizNext]_quizVars

-----------------------------------------------------------------------------
(* Properties *)

\* Every variable keeps its type; no result earns more than there is, unless a
\* question took points away: a wrong answer to it is worth more than a right one.
QuizTypeOK ==
    /\ quiz \in Quizzes \cup {NoQuiz}
    /\ question \in [Questions -> QuestionRows \cup {NoQuestion}]
    /\ attempt \in [Attempts -> AttemptRows]
    /\ \A a \in Counted : attempt[a].docked \/ attempt[a].earned <= attempt[a].total
    /\ answer \in [Attempts -> [Submissions -> SUBSET AnswerRows]]
    /\ submission \in [Submissions -> SubmissionRows]
    /\ report \in ReportRows \cup {NoResult}
    /\ raced \subseteq Submissions /\ shrunk \subseteq Attempts /\ late \subseteq Attempts

\* An attempt's result is that of one whole set of the answers kept with it,
\* whoever else submitted and whatever became of the questions meanwhile, until
\* a question is deleted that it answered.
ResultIsOfItsAnswers ==
    \A a \in Counted \ shrunk :
        \E s \in Submissions :
            /\ submission[s].at = "stored"
            /\ attempt[a].earned = PointsOf(answer[a][s])

\* A second set of answers is kept of an attempt only when two submissions had
\* both read it open.
AnsweredOnce ==
    \A a \in Attempts :
        \A s, t \in Submissions :
            answer[a][s] # {} /\ answer[a][t] # {} /\ s # t => {s, t} \cap raced # {}

\* A pass rate counts no more passes than attempts, but for those that passed
\* between the two queries.
PassRateIsSound ==
    report # NoResult /\ report.passes # NoResult =>
        report.passes <= report.total + Cardinality(late)

\* What an attempt is worth is what was answered in it, and rates count that.
ResultsAreSound == ResultIsOfItsAnswers /\ AnsweredOnce /\ PassRateIsSound
================================================================================
