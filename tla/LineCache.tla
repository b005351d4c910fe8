----------------------------- MODULE LineCache -----------------------------
(***************************************************************************)
(* The program store with the runs of the program over it: GOTO, GOSUB and *)
(* the event handlers find their line through a cache of addresses (basic  *)
(* commands.c gotoln), which is emptied when a run begins.  The command    *)
(* 'g' of the prompt looks its line up before it begins the run (basic.c), *)
(* in the cache that the run before has left.  While a program runs it is  *)
(* not changed.                                                            *)
(***************************************************************************)
EXTENDS LineStore, Sequences

CONSTANT CacheSize     \* how many lines are kept: 9

ASSUME CacheAssumption == CacheSize \in Nat

VARIABLES
  lnc,         \* the lines looked up and where they were, in order; cs is its length
  running,     \* basic_start is at work
  unchanged    \* history: the program is as it was when the last run began

cache == <<lnc, running, unchanged>>
cvars == <<vars, cache>>

\* What findcache and gotoln say of a line they do not find.
NotCached == 0
NoSuchLine == -1

findcache(n) == IF \E i \in 1 .. Len(lnc) : lnc[i].line = n
                THEN lnc[CHOOSE i \in 1 .. Len(lnc) :
                           lnc[i].line = n /\ \A j \in 1 .. i - 1 : lnc[j].line # n].at
                ELSE NotCached

Found(n) == LET found == FindLn(n)
            IN  IF found \in Slots /\ slot[found].lineno = n THEN found ELSE NoSuchLine
gotoln(n) == IF findcache(n) > 0 THEN findcache(n) ELSE Found(n)

\* A line that is found is kept, while there is room.
linenocache(n) ==
  IF findcache(n) = NotCached /\ Found(n) > 0 /\ Len(lnc) < CacheSize
  THEN Append(lnc, [line |-> n, at |-> Found(n)])
  ELSE lnc

\* A mutant of the definition below: a run begins with the cache of the one before.
CacheKept == lnc
init_cmdptr == <<>>

CInit == Init /\ lnc = <<>> /\ running = FALSE /\ unchanged = TRUE

\* The user at the prompt.
Edits ==
  /\ ~running /\ Next
  /\ lnc' = IF pc' = "boot" THEN <<>> ELSE lnc
  /\ unchanged' = (changes' = changes /\ unchanged)
  /\ UNCHANGED running

basic_run ==
  /\ pc = "ready" /\ ~running
  /\ lnc' = init_cmdptr /\ running' = TRUE /\ unchanged' = TRUE
  /\ UNCHANGED vars

\* Where 'g' is used with regard: right after a run.
SafeToGo == unchanged

GoCommand(n) ==
  /\ pc = "ready" /\ ~running
  /\ "goes" \in Careless \/ SafeToGo
  /\ IF gotoln(n) > 0 THEN lnc' = init_cmdptr /\ running' = TRUE /\ unchanged' = TRUE
                      ELSE UNCHANGED cache
  /\ UNCHANGED vars

\* GOTO, GOSUB, IF, or an event while the program runs.
cmd_goto(n) ==
  /\ running
  /\ lnc' = linenocache(n)
  /\ running' = (gotoln(n) # NoSuchLine)      \* a run-time error
  /\ UNCHANGED <<vars, unchanged>>

Ends == running /\ running' = FALSE /\ UNCHANGED <<vars, lnc, unchanged>>

CNext == \/ Edits \/ basic_run \/ Ends
         \/ \E n \in LineNos : GoCommand(n) \/ cmd_goto(n)

CSpec == CInit /\ [][CNext]_cvars

-----------------------------------------------------------------------------
\* The slot of a line, by the list alone.
Showing(n) == {a \in {At[i] : i \in 0 .. Size} \cap Slots : slot[a].lineno = n}

\* In a run, and at the prompt until the program is changed, a jump goes to the
\* record that LIST shows for the line, and to none if it shows none (commands.c
\* gotoln), though the cache is full or holds what an earlier look-up has found.
JumpsToLine ==
  pc = "ready" /\ ~damaged /\ (running \/ SafeToGo) =>
    \A n \in LineNos : IF Lines[n] = Missing THEN gotoln(n) = NoSuchLine
                       ELSE gotoln(n) \in Showing(n) /\ slot[gotoln(n)].text = Lines[n]
=============================================================================
