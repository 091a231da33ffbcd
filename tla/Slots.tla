--------------------------------- MODULE Slots ---------------------------------
(***************************************************************************)
(* The weekly availability of an instructor                                *)
(* (src/modules/live-sessions/availability.service.ts).  A slot belongs to *)
(* one instructor and nobody else may touch it: one instructor is enough,  *)
(* with two windows open on the same calendar.                             *)
(***************************************************************************)
EXTENDS Naturals, FiniteSets

CONSTANTS
    SlotRows,       \* rows of availability_slots that may be created (a bound)
    Days,           \* days of the week
    Hours,          \* times of a day, in order
    SlotCalls,      \* requests; each is made once (a bound)
    NoSlot, Calm

ASSUME SlotsAssumption == Hours \subseteq Nat

VARIABLES
    slot,       \* availability_slots
    edit,       \* what each request has read and has yet to write
    blurred,    \* history: rows that two updates changed at one time
    mixed       \* history: days that two replacements changed at one time

slotsVars == <<slot, edit, blurred, mixed>>

-----------------------------------------------------------------------------
Spans == {r \in [start : Hours, end : Hours] : r.start < r.end}
Changes == [start : Hours] \cup [end : Hours] \cup [start : Hours, end : Hours]
               \cup [active : BOOLEAN]
SlotRecords == [day : Days, start : Hours, end : Hours, active : BOOLEAN,
                by : SlotCalls \cup {"alone"}]
Edits ==
    [what : {"update"}, slot : SlotRows, change : Changes]
        \cup [what : {"replace"}, day : Days, spans : SUBSET Spans, doomed : SUBSET SlotRows]
        \cup [what : {"done"}]
Kept == {s \in SlotRows : slot[s] # NoSlot}

SlotsInit ==
    /\ slot = [s \in SlotRows |-> NoSlot]
    /\ edit = [x \in SlotCalls |-> Calm]
    /\ blurred = {}
    /\ mixed = {}

\* A row has kept the replacement it was created by, which the program does not
\* record.
Entry(d, span, active, by) ==
    [day |-> d, start |-> span.start, end |-> span.end, active |-> active, by |-> by]

\* A row with what an update gives in place of its own.
Amended(row, change) ==
    [f \in DOMAIN row |-> IF f \in DOMAIN change THEN change[f] ELSE row[f]]

EditAt(x, what) == edit[x] # Calm /\ edit[x].what = what
Awaited == {edit[x].slot : x \in {y \in SlotCalls : EditAt(y, "update")}}
Locked(s) == \E x \in SlotCalls : EditAt(x, "replace") /\ s \in edit[x].doomed

-----------------------------------------------------------------------------
(* Single slots *)

\* validateTimeRange has passed the span.
CreateSlot(d, span, active) ==
    \E s \in SlotRows \ (Kept \cup Awaited) :
        /\ slot' = [slot EXCEPT ![s] = Entry(d, span, active, "alone")]
        /\ blurred' = blurred \ {s}
        /\ UNCHANGED <<edit, mixed>>

\* Fault: only an update of both times is compared.
WholeIsValid(row, change) ==
    {"start", "end"} \subseteq DOMAIN change => change.start < change.end
\* A time alone is compared with the other one of the row as it was read.
AmendmentIsValid(row, change) ==
    LET amended == Amended(row, change) IN
    {"start", "end"} \cap DOMAIN change # {} => amended.start < amended.end

\* updateSlot: the row is read ...
BeginUpdate(x, s, change) ==
    LET others == {y \in SlotCalls : EditAt(y, "update") /\ edit[y].slot = s} IN
    /\ edit[x] = Calm
    /\ s \in Kept
    /\ AmendmentIsValid(slot[s], change)
    /\ edit' = [edit EXCEPT ![x] = [what |-> "update", slot |-> s, change |-> change]]
    /\ blurred' = IF others = {} THEN blurred ELSE blurred \cup {s}
    /\ UNCHANGED <<slot, mixed>>

\* ... and written, if it is still there.
EndUpdate(x) ==
    /\ EditAt(x, "update")
    /\ LET e == edit[x] IN
       /\ ~Locked(e.slot)
       /\ slot' = IF e.slot \in Kept THEN [slot EXCEPT ![e.slot] = Amended(@, e.change)] ELSE slot
    /\ edit' = [edit EXCEPT ![x] = [what |-> "done"]]
    /\ UNCHANGED <<blurred, mixed>>

DeleteSlot(s) ==
    /\ s \in Kept
    /\ ~Locked(s)
    /\ slot' = [slot EXCEPT ![s] = NoSlot]
    /\ UNCHANGED <<edit, blurred, mixed>>

-----------------------------------------------------------------------------
(* A whole day *)

\* Fault: the slots of other days go too.
OfEveryDay(d) == Kept
\* Fault: slots that are switched off are kept.
ActiveOfDay(d) == {s \in Kept : slot[s].day = d /\ slot[s].active}
OfDay(d) == {s \in Kept : slot[s].day = d}

\* replaceDaySlots: deleteMany takes the rows it finds, and locks them until the
\* transaction commits.  A row that another has locked is awaited: it is gone by
\* then, and those created in its place are not looked for.
BeginReplace(x, d, spans) ==
    LET others == {y \in SlotCalls : EditAt(y, "replace") /\ edit[y].day = d} IN
    /\ edit[x] = Calm
    /\ edit' = [edit EXCEPT ![x] = [what |-> "replace", day |-> d, spans |-> spans,
                                    doomed |-> OfDay(d)]]
    /\ mixed' = IF others = {} THEN mixed ELSE mixed \cup {d}
    /\ UNCHANGED <<slot, blurred>>

\* createMany, each slot switched on or off, and the commit: the one that found
\* rows first is the first.
EndReplace(x) ==
    /\ EditAt(x, "replace")
    /\ LET e == edit[x]
           free == ((SlotRows \ Kept) \cup e.doomed) \ Awaited IN
       \E new \in [e.spans -> free], on \in SUBSET e.spans :
           /\ \A a, b \in e.spans : new[a] = new[b] => a = b
           /\ slot' = [s \in SlotRows |->
                  IF \E span \in e.spans : new[span] = s
                  THEN LET span == CHOOSE span \in e.spans : new[span] = s IN
                       Entry(e.day, span, span \in on, x)
                  ELSE IF s \in e.doomed THEN NoSlot ELSE slot[s]]
           /\ edit' = [y \in SlotCalls |->
                  IF y = x THEN [what |-> "done"]
                  ELSE IF EditAt(y, "replace")
                       THEN [edit[y] EXCEPT !.doomed = @ \ e.doomed]
                       ELSE edit[y]]
           /\ blurred' = blurred \ {new[span] : span \in e.spans}
    /\ UNCHANGED mixed

SlotsNext ==
    \/ \E d \in Days, span \in Spans, active \in BOOLEAN : CreateSlot(d, span, active)
    \/ \E s \in SlotRows : DeleteSlot(s)
    \/ \E x \in SlotCalls :
           \/ \E s \in SlotRows, change \in Changes : BeginUpdate(x, s, change)
           \/ \E d \in Days, spans \in SUBSET Spans : BeginReplace(x, d, spans)
           \/ EndUpdate(x) \/ EndReplace(x)
SlotsSpec == SlotsInit /\ [][SlotsNext]_slotsVars

-----------------------------------------------------------------------------
(* Properties *)

\* Every variable keeps its type; a replacement has taken rows of its own day.
SlotsTypeOK ==
    /\ slot \in [SlotRows -> SlotRecords \cup {NoSlot}]
    /\ edit \in [SlotCalls -> Edits \cup {Calm}]
    /\ \A x \in SlotCalls : EditAt(x, "replace") =>
           \A s \in edit[x].doomed : s \in Kept /\ slot[s].day = edit[x].day
    /\ blurred \subseteq SlotRows /\ mixed \subseteq Days

\* A slot begins before it ends, although an update compares the time it is
\* given with one it has read before; only two updates of a slot at one time
\* can make it begin after it ends.
SlotsRunForward ==
    \A s \in Kept \ blurred : slot[s].start < slot[s].end

\* A day shows the slots of one replacement: those of the one before are gone,
\* however many more were switched off since.  Only two replacements of the
\* day at one time leave the slots of both.
OneReplacementADay ==
    \A s, t \in Kept :
        /\ slot[s].day = slot[t].day
        /\ slot[s].day \notin mixed
        /\ "alone" \notin {slot[s].by, slot[t].by}
        => slot[s].by = slot[t].by

\* A calendar is as one of its updates left it.
SlotsAreSound == SlotsRunForward /\ OneReplacementADay
================================================================================
