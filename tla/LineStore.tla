----------------------------- MODULE LineStore -----------------------------
(***************************************************************************)
(* The program store of the BASIC interpreter (basic edit.c): a linked     *)
(* list of line records in EEPROM, sorted by line number and extended only *)
(* at its end; a change of a line writes a new record, a deletion zeroes   *)
(* the number.  A terminator stands where the next record will go.         *)
(*                                                                         *)
(* An address is the number of a slot, a slot the bytes of one record (its *)
(* length is of no matter here).  A slot that holds the terminator has End *)
(* for a number.  EEPROM is written one step at a time, and the power may  *)
(* be lost between two of them.                                            *)
(***************************************************************************)
EXTENDS Integers, FiniteSets

CONSTANTS
  LineNos, Texts, Missing,
  EndLike,     \* the line numbers whose low byte is that of the terminator
  Size,        \* how many slots there are
  ByteBase,    \* how far a pointer kept in one byte reaches
  MaxLosses,   \* how often the power is lost, and how often
  MaxChanges,  \* the program is changed
  Careless     \* of "inserts", "deletes", "goes": what the user does without regard

ASSUME StoreAssumption ==
  /\ LineNos \subseteq Nat \ {0} /\ EndLike \subseteq LineNos
  /\ Missing \notin Texts
  /\ {Size, ByteBase} \subseteq Nat \ {0}
  /\ {MaxLosses, MaxChanges} \subseteq Nat /\ Careless \subseteq {"inserts", "deletes", "goes"}

Slots   == 1 .. Size
Nowhere == 0        \* findln's 0: no place was found; pll's 0: no last line
Top     == -1       \* findln's 1: the header, before the first record
End     == -1       \* the terminator 0xCC in place of a line number
Deleted == 0

VARIABLES
  top, slot,           \* EEPROM: the pointer to the first record; the records
  psize, pll,          \* RAM: where the next record goes; the last one in the list
  pc, new, nxt, la,    \* insertln: where it is, the line, where it goes, what follows
  before,              \* history: the lines when the insertion began
  damaged,             \* history: the power was lost during an insertion
  losses, changes      \* how often it was lost, how often the program changed

eeprom == <<top, slot>>
ram    == <<psize, pll>>
local  == <<new, nxt, la>>
count  == <<losses, changes>>
hist   == <<before, damaged, count>>
vars   == <<eeprom, ram, pc, local, hist>>

-----------------------------------------------------------------------------
(***************************************************************************)
(* Walking the list.                                                       *)
(***************************************************************************)
\* The slot that is reached in i steps.
At[i \in 0 .. Size] ==
  IF i = 0 THEN top
  ELSE LET from == At[i - 1] IN IF from \in Slots THEN slot[from].next ELSE Nowhere

\* The slots the walk passes, and where it ends.
Records == {a \in Slots : slot[a].lineno \notin EndLike \cup {End}}
IsEnd(a) == a \notin Records

\* The first step that leaves S; -1 if the walk never does.
FirstOutside(S) ==
  IF \E i \in 0 .. Size : At[i] \notin S
  THEN CHOOSE i \in 0 .. Size : At[i] \notin S /\ \A j \in 0 .. i - 1 : At[j] \in S
  ELSE -1

ListLen == FirstOutside(Records)     \* -1: the list closes on itself
Last    == IF ListLen > 0 THEN At[ListLen - 1] ELSE Nowhere

\* The program, as LIST shows it: the first line met for each number.
TextFrom[left \in 0 .. Size] ==
  [a \in Int |-> [n \in LineNos |->
    IF IsEnd(a) THEN Missing
    ELSE IF slot[a].lineno = n THEN slot[a].text
    ELSE IF left > 0 THEN TextFrom[left - 1][slot[a].next][n] ELSE Missing]]
Lines == TextFrom[Size][top]

Below(n) == {a \in Records : slot[a].lineno < n}

\* A mutant of FindLn: the record with the larger number instead of the one before.
FindLarger(n) ==
  LET i == FirstOutside(Below(n))
  IN  IF IsEnd(At[i]) THEN Nowhere ELSE IF i = 0 THEN Top ELSE At[i]

\* findln: the line itself, the record to insert after, or 0 for the list's end.
FindLn(n) ==
  LET i == FirstOutside(Below(n))
  IN  IF IsEnd(At[i]) THEN Nowhere
      ELSE IF slot[At[i]].lineno = n THEN At[i]
      ELSE IF i = 0 THEN Top ELSE At[i - 1]

(***************************************************************************)
(* What the user must know.  A line in the middle is entered only while    *)
(* pll is right, which it is not after the last line has been changed or   *)
(* after findend has truncated it; only lines that exist are deleted; no   *)
(* line has a number that reads as the terminator; and after a loss of     *)
(* power during an insertion the program is cleared.                       *)
(***************************************************************************)
SafeToInsert(n) == /\ ~damaged /\ n \notin EndLike
                   /\ FindLn(n) # Nowhere => pll = Last
SafeToDelete(n) == ~damaged /\ Lines[n] # Missing

NoLines == [n \in LineNos |-> Missing]
Erased == [lineno |-> Deleted, next |-> Nowhere, text |-> Missing]

Init ==     \* the first boot: findend found no start mark and has cleared
  /\ top = 1 /\ psize = 1 /\ pll = Nowhere
  /\ slot = [a \in Slots |-> IF a = 1 THEN [Erased EXCEPT !.lineno = End] ELSE Erased]
  /\ pc = "ready" /\ new = Erased /\ nxt = Nowhere /\ la = Nowhere
  /\ before = NoLines /\ damaged = FALSE /\ losses = 0 /\ changes = 0

-----------------------------------------------------------------------------
\* Mutants of the definitions below: a record points one too far; the old version
\* of a line keeps its number.
NextSkipsOne == psize + 2
UnlinkForgotten ==
  /\ pc = "link"
  /\ la' = IF nxt = Top THEN top ELSE slot[nxt].next
  /\ pc' = "hook"
  /\ UNCHANGED <<eeprom, ram, new, nxt, hist>>

Change == changes < MaxChanges /\ changes' = changes + 1

\* insertln goes on; or it returns and its local variables are gone.
GoTo(label) == pc' = label /\ UNCHANGED <<new, nxt, before>>
Leave(label) == /\ pc' = label
                /\ new' = Erased /\ nxt' = Nowhere /\ la' = Nowhere /\ before' = NoLines

NextFree == psize + 1

(***************************************************************************)
(* insertln, one action per part of the EEPROM it writes.                  *)
(***************************************************************************)
InsertLn(n, t) ==
  /\ pc = "ready" /\ Change
  /\ psize \in 1 .. Size - 1          \* the code does not ask whether there is room
  /\ "inserts" \in Careless \/ SafeToInsert(n)
  /\ new' = [lineno |-> n, next |-> NextFree, text |-> t]
  /\ nxt' = FindLn(n)
  /\ before' = Lines
  /\ pc' = "number"
  /\ UNCHANGED <<eeprom, ram, la, damaged, losses>>

\* The number goes where the terminator was ...
WriteNumber ==
  /\ pc = "number"
  /\ slot' = [slot EXCEPT ![psize].lineno = new.lineno]
  /\ GoTo("body")
  /\ UNCHANGED <<top, ram, la, damaged, count>>

\* ... then come the rest of the record, pointing behind itself, ...
WriteBody ==
  /\ pc = "body"
  /\ slot' = [slot EXCEPT ![psize] = new]
  /\ psize' = psize + 1
  /\ GoTo("end")
  /\ UNCHANGED <<top, pll, la, damaged, count>>

srt == psize - 1
AppendDone == pll' = srt

\* ... and the new terminator.  A line at the end is linked by its place alone.
WriteEnd ==
  /\ pc = "end"
  /\ slot' = [slot EXCEPT ![psize].lineno = End]
  /\ IF nxt = Nowhere THEN AppendDone /\ Leave("ready")
                      ELSE GoTo("link") /\ UNCHANGED <<pll, la>>
  /\ UNCHANGED <<top, psize, damaged, count>>

IsEdit == nxt # Top /\ slot[nxt].lineno = new.lineno

\* What will follow the new line; a line that is replaced loses its number.
UnlinkOld ==
  /\ pc = "link"
  /\ la' = IF nxt = Top THEN top ELSE slot[nxt].next
  /\ slot' = IF IsEdit THEN [slot EXCEPT ![nxt].lineno = Deleted] ELSE slot
  /\ GoTo("hook")
  /\ UNCHANGED <<top, ram, damaged, count>>

\* The line before, or the header, gets the new line for its next.  If it had it
\* already, the old one was the last: "terminator already correct".
LinkNew ==
  /\ pc = "hook"
  /\ IF nxt = Top THEN top' = srt /\ UNCHANGED slot
                  ELSE slot' = [slot EXCEPT ![nxt].next = srt] /\ UNCHANGED top
  /\ IF la = srt THEN Leave("ready") ELSE GoTo("follow") /\ UNCHANGED la
  /\ UNCHANGED <<ram, damaged, count>>

LinkRest ==
  /\ pc = "follow"
  /\ slot' = [slot EXCEPT ![srt].next = la]
  /\ GoTo("close")
  /\ UNCHANGED <<top, ram, la, damaged, count>>

\* "last line must now to point to new end", if pll is the last line.
PointedToEnd == IF pll \in Slots THEN [slot EXCEPT ![pll].next = psize] ELSE slot

LinkEnd ==
  /\ pc = "close"
  /\ slot' = PointedToEnd
  /\ Leave("ready")
  /\ UNCHANGED <<top, ram, damaged, count>>

-----------------------------------------------------------------------------
\* deleteln: the number is zeroed, wherever findln points.
DeleteLn(n) ==
  /\ pc = "ready" /\ Change
  /\ "deletes" \in Careless \/ SafeToDelete(n)
  /\ CASE FindLn(n) = Top     -> top' = Nowhere /\ UNCHANGED slot
       [] FindLn(n) = Nowhere -> UNCHANGED eeprom
       [] OTHER -> slot' = [slot EXCEPT ![FindLn(n)].lineno = Deleted] /\ UNCHANGED top
  /\ UNCHANGED <<ram, pc, local, before, damaged, losses>>

ClearLn ==
  /\ pc = "ready" /\ Change
  /\ top' = 1 /\ psize' = 1 /\ pll' = Nowhere
  /\ slot' = [slot EXCEPT ![1].lineno = End]
  /\ damaged' = FALSE
  /\ UNCHANGED <<pc, local, before, losses>>

\* findend walks to the terminator; it keeps the last address in a byte.
FindEnd ==
  /\ ListLen # -1                     \* or it walks for ever
  /\ psize' = IF At[ListLen] \in Slots THEN At[ListLen] ELSE Nowhere
  /\ pll' = Last % ByteBase

Query ==
  /\ pc = "ready"
  /\ FindEnd
  /\ UNCHANGED <<eeprom, pc, local, hist>>

PowerLoss ==
  /\ pc # "boot" /\ losses < MaxLosses
  /\ losses' = losses + 1
  /\ damaged' = (damaged \/ pc # "ready")
  /\ psize' = Nowhere /\ pll' = Nowhere
  /\ Leave("boot")
  /\ UNCHANGED <<eeprom, changes>>

Boot ==
  /\ pc = "boot"
  /\ FindEnd
  /\ pc' = "ready"
  /\ UNCHANGED <<eeprom, local, hist>>

Next ==
  \/ \E n \in LineNos, t \in Texts : InsertLn(n, t)
  \/ WriteNumber \/ WriteBody \/ WriteEnd
  \/ UnlinkOld \/ LinkNew \/ LinkRest \/ LinkEnd
  \/ \E n \in LineNos : DeleteLn(n)
  \/ ClearLn \/ Query \/ PowerLoss \/ Boot

Spec == Init /\ [][Next]_vars

-----------------------------------------------------------------------------
TypeOK ==
  /\ top \in Slots \cup {Nowhere}
  /\ slot \in [Slots -> [lineno : LineNos \cup {End, Deleted},
                        next : Slots \cup {Nowhere}, text : Texts \cup {Missing}]]
  /\ psize \in Slots \cup {Nowhere} /\ pll \in Slots \cup {Nowhere}
  /\ pc \in {"ready", "number", "body", "end", "link", "hook", "follow", "close", "boot"}
  /\ nxt \in Slots \cup {Nowhere, Top} /\ la \in Slots \cup {Nowhere}
  /\ before \in [LineNos -> Texts \cup {Missing}]

\* To the user an insertion is one step, at its end.
Store == INSTANCE ProgStore WITH
           lines    <- IF pc \in {"ready", "boot"} THEN Lines ELSE before,
           entering <- IF pc \in {"ready", "boot"} THEN 0 ELSE new.lineno

\* Entering or deleting a line (edit.c 35, 151) changes that line and no other,
\* finding the end again changes none, and a loss of power during an insertion
\* spares all lines before the one that was being entered.
ImplementsStore == Store!Spec

\* The list is sorted, deleted records apart, so that LIST and the interpreter, which
\* follow it, meet the lines in the order of their numbers (edit.c 194-205); and it
\* comes to its end where the next record will be written, so that a line appended
\* there is linked by its place alone (edit.c 85, 141).
ListSound ==
  pc = "ready" /\ ~damaged =>
    /\ ListLen # -1 /\ At[ListLen] = psize
    /\ \A i, j \in 0 .. ListLen - 1 :
         i < j /\ slot[At[j]].lineno # Deleted => slot[At[i]].lineno < slot[At[j]].lineno

-----------------------------------------------------------------------------
\* edit.c 118: after the last line was changed the "terminator [is] already
\* correct", and 136: the "last line must now to point to new end".  An insertion
\* that is done with its links has lost no other line.
NoLineLost ==
  [][LinkEnd => \A k \in LineNos \ {new.lineno} : Lines'[k] = before[k]]_vars
=============================================================================
