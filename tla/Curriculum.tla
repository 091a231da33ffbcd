------------------------------- MODULE Curriculum -------------------------------
(***************************************************************************)
(* The order of a course's sections and lessons (src/modules/lessons): a   *)
(* reordering is a transaction with one update for each row, beside        *)
(* requests that create, move and delete rows.                             *)
(*                                                                         *)
(* PostgreSQL is external: a row that a transaction wrote is locked until  *)
(* its end, readers see what is committed, and of two transactions that    *)
(* wait for each other one is undone.                                      *)
(***************************************************************************)
EXTENDS Naturals, Sequences, SequencesExt, FiniteSets, Functions

CONSTANTS
    Sections, Lessons,
    SectionOf,      \* Lesson.sectionId
    Editors,        \* requests of the course's owner at one time
    Places,         \* values of sortOrder given outright
    Unmade, Gone, Resting

Items == Sections \cup Lessons

\* The ids a reordering is given and the next of them.
Orders == [ids : Seq(Items), next : Nat]

ASSUME CurriculumAssumption ==
    /\ SectionOf \in [Lessons -> Sections] /\ Sections \cap Lessons = {}
    /\ Places \subseteq Nat /\ {Unmade, Gone} \cap Nat = {}
    /\ Resting \notin Orders
    /\ IsFiniteSet(Sections) /\ IsFiniteSet(Lessons)

VARIABLES
    place,      \* sortOrder of each row, as last written
    editor,     \* the transaction of each request: its ids and the next of them
    undo,       \* what its rows were before it
    chosen      \* history: what the finished requests, one after another, ask for

curriculumVars == <<place, editor, undo, chosen>>

-----------------------------------------------------------------------------
Present(i) == place[i] \notin {Unmade, Gone}

CurriculumInit ==
    /\ place = [i \in Items |-> IF i \in Sections THEN 0 ELSE Unmade]
    /\ editor = [x \in Editors |-> Resting]
    /\ undo = [x \in Editors |-> <<>>]
    /\ chosen = place

LockedBy(x, i) == i \in DOMAIN undo[x]
RowLocked(i) == \E x \in Editors : LockedBy(x, i)

\* What a query finds: getSections reads each list of rows in one.
Committed ==
    [i \in Items |-> IF RowLocked(i) THEN undo[CHOOSE x \in Editors : LockedBy(x, i)][i]
                    ELSE place[i]]

Transacting(x) == editor[x] # Resting
Done(x) == Transacting(x) /\ editor[x].next > Len(editor[x].ids)
Target(x) == editor[x].ids[editor[x].next]

\* It needs a row that another has written.
WaitsFor(x, y) == Transacting(x) /\ ~Done(x) /\ x # y /\ LockedBy(y, Target(x))

-----------------------------------------------------------------------------
(* Reordering *)

\* reorderSections, reorderLessons: whichever rows the ids are of.
Reorder(x, ids) ==
    /\ editor[x] = Resting
    /\ editor' = [editor EXCEPT ![x] = [ids |-> ids, next |-> 1]]
    /\ UNCHANGED <<place, undo, chosen>>

\* Fault: there is no transaction around the updates.
UpdateRowAlone(x) ==
    /\ Transacting(x) /\ ~Done(x) /\ Present(Target(x))
    /\ \A y \in Editors : ~WaitsFor(x, y)
    /\ place' = [place EXCEPT ![Target(x)] = editor[x].next]
    /\ editor' = [editor EXCEPT ![x].next = @ + 1]
    /\ UNCHANGED <<undo, chosen>>

UpdateRow(x) ==
    /\ Transacting(x) /\ ~Done(x) /\ Present(Target(x))
    /\ \A y \in Editors : ~WaitsFor(x, y)
    /\ place' = [place EXCEPT ![Target(x)] = editor[x].next]
    /\ undo' = [undo EXCEPT ![x] =
            [i \in DOMAIN @ \cup {Target(x)} |-> IF i \in DOMAIN @ THEN @[i] ELSE place[i]]]
    /\ editor' = [editor EXCEPT ![x].next = @ + 1]
    /\ UNCHANGED chosen

Rollback(x) ==
    /\ place' = [i \in Items |-> IF LockedBy(x, i) THEN undo[x][i] ELSE place[i]]
    /\ undo' = [undo EXCEPT ![x] = <<>>]
    /\ editor' = [editor EXCEPT ![x] = Resting]
    /\ UNCHANGED chosen

\* update throws for a row that is not there.
MissRow(x) ==
    /\ Transacting(x) /\ ~Done(x) /\ ~Present(Target(x))
    /\ Rollback(x)

BreakDeadlock(x) ==
    /\ \E y \in Editors : WaitsFor(x, y) /\ WaitsFor(y, x)
    /\ Rollback(x)

\* The connection or the process ends.
LoseConnection(x) == Transacting(x) /\ Rollback(x)

CommitOrder(x) ==
    /\ Done(x)
    /\ chosen' = [i \in Items |->
            IF i \in Range(editor[x].ids)
            THEN SelectLastInSeq(editor[x].ids, LAMBDA j : j = i) ELSE chosen[i]]
    /\ undo' = [undo EXCEPT ![x] = <<>>]
    /\ editor' = [editor EXCEPT ![x] = Resting]
    /\ UNCHANGED place

-----------------------------------------------------------------------------
(* Single rows *)

SetRows(rows, value) ==
    /\ \A i \in rows : ~RowLocked(i)
    /\ place' = [i \in Items |-> IF i \in rows THEN value ELSE place[i]]
    /\ chosen' = [i \in Items |-> IF i \in rows THEN value ELSE chosen[i]]
    /\ UNCHANGED <<editor, undo>>

AddLesson(l, n) ==
    /\ place[l] = Unmade /\ Present(SectionOf[l])
    /\ SetRows({l}, n)

\* updateSection and updateLesson with a sortOrder.
MoveRow(i, n) == Present(i) /\ SetRows({i}, n)

\* The lessons of a section go with it.
EraseRow(i) ==
    /\ Present(i)
    /\ SetRows({i} \cup {l \in Lessons : SectionOf[l] = i /\ Present(l)}, Gone)

\* The rows of one list (two sections at most, a bound), in any order.
Orderings == SeqOf(Sections, 2) \cup SeqOf(Lessons, Cardinality(Lessons))

CurriculumNext ==
    \/ \E x \in Editors :
           \/ \E ids \in Orderings : Reorder(x, ids)
           \/ UpdateRow(x) \/ MissRow(x) \/ BreakDeadlock(x) \/ LoseConnection(x)
           \/ CommitOrder(x)
    \/ \E l \in Lessons, n \in Places : AddLesson(l, n)
    \/ \E i \in Items, n \in Places : MoveRow(i, n)
    \/ \E i \in Items : EraseRow(i)

CurriculumSpec == CurriculumInit /\ [][CurriculumNext]_curriculumVars

-----------------------------------------------------------------------------
(* Properties *)

\* Every variable keeps its type; a row is written by one transaction.
CurriculumTypeOK ==
    /\ place \in [Items -> Nat \cup {Unmade, Gone}]
    /\ chosen \in [Items -> Nat \cup {Unmade, Gone}]
    /\ editor \in [Editors -> Orders \cup {Resting}]
    /\ DOMAIN undo = Editors
    /\ \A x \in Editors :
           /\ Transacting(x) => editor[x].next \in 1..(Len(editor[x].ids) + 1)
           /\ DOMAIN undo[x] \subseteq Items
           /\ \A y \in Editors \ {x} : DOMAIN undo[x] \cap DOMAIN undo[y] = {}

\* A student finds the rows in the order that the finished requests ask for,
\* one after another as they were committed: never some of one reordering and
\* some of another, nor part of one that failed, met a deleted lesson or was cut
\* off.
OrderWasChosen == Committed = chosen

\* So a curriculum is what CourseOrder describes: of all the steps of a
\* reordering its readers and other editors see one, or none.
Order == INSTANCE CourseOrder WITH
    order <- Committed,
    asked <- [x \in Editors |-> IF Transacting(x) THEN {editor[x].ids} ELSE {}]
ImplementsOrder == Order!Spec
================================================================================
