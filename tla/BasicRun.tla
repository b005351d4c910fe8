------------------------------ MODULE BasicRun ------------------------------
(***************************************************************************)
(* Running a BASIC program (basic basic.c basic_start, commands.c): the    *)
(* loop that reads and executes a line, the stacks of GOSUB and FOR, and   *)
(* the key and timer events that call a handler between two lines.         *)
(*                                                                         *)
(* The address of a line is its position in the program; a line number     *)
(* that is no position names no line.  (The cache of line addresses is     *)
(* emptied when a run begins, and no line moves during a run.)  Limit and  *)
(* increment of a loop are kept as text and evaluated again by each NEXT;  *)
(* here they are constants.                                                *)
(***************************************************************************)
EXTENDS Integers, SequencesExt

CONSTANTS
  Programs,          \* the programs that are run
  MainVars,          \* the variables the handlers leave alone, and
  HandlerVars,       \* those only they use
  MAX_GOSUB_NEST, MAX_FOR_NEST,
  MaxEvents          \* bound: how many events call a handler

ASSUME RunAssumption ==
  /\ MainVars \cap HandlerVars = {}
  /\ {MAX_GOSUB_NEST, MAX_FOR_NEST} \subseteq Nat \ {0} /\ MaxEvents \in Nat

Vars == MainVars \cup HandlerVars

VARIABLES
  program, nxtline,
  gosub,               \* gosub[0 .. gp-1]
  loops,               \* forptr, nxtptr[0 .. fp-1]: line to go back to, limit, increment
  val, BasicErr,
  timer, tline, kline, \* ON TIME is in force, and its line; ON KEY's line, 0 if none
  irf, pc,
  events,
  open, main           \* history: which calls are open ("sub" or "event"), and the
                       \* state of the main program when the first event came

stacks == <<gosub, loops>>
on     == <<timer, tline, kline>>
hist   == <<events, open, main>>
vars   == <<program, nxtline, stacks, val, BasicErr, on, irf, pc, hist>>

InHandler == \E i \in DOMAIN open : open[i] = "event"

\* basic_run: basic_start, init_cmdptr, the first line.  It is the first run: the
\* variables are 0, later they keep their values.
Init ==
  /\ program \in Programs /\ nxtline = 1
  /\ gosub = << >> /\ loops = << >> /\ BasicErr = 0
  /\ val = [v \in Vars |-> 0]
  /\ timer = FALSE /\ tline = 0 /\ kline = 0
  /\ irf = FALSE /\ pc = "events"
  /\ events = 0 /\ open = << >> /\ main = << >>

-----------------------------------------------------------------------------
\* Mutants of the definitions below: a line is pushed that has been executed; a
\* loop that is done stays on the stack; NEXT does not count.
PushLineBefore(n) == IF Len(gosub) < MAX_GOSUB_NEST - 1 THEN Append(gosub, n - 1) ELSE gosub
LoopStays == loops
NoIncrement(v, loop) == val[v]

-----------------------------------------------------------------------------
(***************************************************************************)
(* Before each line: an error, the user's break, and the events.           *)
(***************************************************************************)
Stopped == pc' = "stopped" /\ UNCHANGED <<program, nxtline, stacks, val, on, irf, hist>>

RuntimeError == pc = "events" /\ BasicErr # 0 /\ Stopped /\ UNCHANGED BasicErr

UserBreak == pc = "events" /\ BasicErr = 0 /\ Stopped /\ UNCHANGED BasicErr

gotoln(n) == IF n \in DOMAIN program THEN n ELSE -1

\* A return address for which there is no room is dropped.
PushLine(n) == IF Len(gosub) < MAX_GOSUB_NEST - 1 THEN Append(gosub, n) ELSE gosub

Call(from, n, kind) ==
  /\ gosub' = PushLine(from)
  /\ nxtline' = gotoln(n)
  /\ open' = Append(open, kind)

Trigger(n) ==
  /\ pc = "events" /\ BasicErr = 0 /\ ~irf /\ events < MaxEvents
  /\ events' = events + 1
  /\ main' = IF InHandler THEN main
                          ELSE [at |-> nxtline, gosub |-> gosub, loops |-> loops, val |-> val]
  /\ IF gotoln(n) = -1
     THEN /\ BasicErr' = 6 /\ pc' = "stopped"
          /\ gosub' = PushLine(nxtline)
          /\ open' = Append(open, "event")
          /\ UNCHANGED <<nxtline, irf>>
     ELSE /\ Call(nxtline, n, "event")
          /\ irf' = TRUE /\ pc' = "execute"
          /\ UNCHANGED BasicErr
  /\ UNCHANGED <<program, loops, val, on>>

\* A key was pressed; or the time is up (it may be at any turn: a line takes as
\* long as it takes), unless a key has just been served.
KeyEvent   == kline > 0 /\ Trigger(kline)
TimerEvent == timer /\ Trigger(tline)

NoEvent ==
  /\ pc = "events" /\ BasicErr = 0
  /\ pc' = "execute"
  /\ UNCHANGED <<program, nxtline, stacks, val, BasicErr, on, irf, hist>>

-----------------------------------------------------------------------------
(***************************************************************************)
(* Reading and executing the line.                                         *)
(***************************************************************************)
line == program[nxtline]
AtLine(token) == pc = "execute" /\ nxtline \in DOMAIN program /\ line.token = token

\* "if (irf=1 && line.token==RETURN) irf=0" assigns: the flag is down after any line.
irfAfterLine == FALSE

Executed == pc' = "events" /\ irf' = irfAfterLine /\ UNCHANGED program
GoOn     == nxtline' = nxtline + 1

\* The terminator, END, and a GOTO or GOSUB to no line (execute returns 0xCC).
EndOfProgram ==
  /\ pc = "execute" /\ nxtline \notin DOMAIN program
  /\ Stopped /\ UNCHANGED BasicErr

cmd_end == AtLine("END") /\ Stopped /\ UNCHANGED BasicErr

\* An expression that cannot be evaluated; the error is reported in the next turn.
EvaluationFails ==
  /\ \E t \in {"LET", "PRINT", "ON TIME", "ON KEY", "FOR", "IF", "NEXT"} : AtLine(t)
  /\ AtLine("NEXT") => loops # << >>
  /\ Executed /\ GoOn
  /\ BasicErr' = 1
  /\ UNCHANGED <<stacks, val, on, hist>>

cmd_let ==
  /\ AtLine("LET") /\ Executed /\ GoOn
  /\ val' = [val EXCEPT ![line.var] = line.n]
  /\ UNCHANGED <<stacks, BasicErr, on, hist>>

cmd_print ==
  /\ AtLine("PRINT") /\ Executed /\ GoOn
  /\ UNCHANGED <<stacks, val, BasicErr, on, hist>>

cmd_on ==
  /\ Executed /\ GoOn
  /\ \/ AtLine("ON TIME") /\ timer' = TRUE /\ tline' = line.n /\ UNCHANGED kline
     \/ AtLine("ON KEY")  /\ kline' = line.n /\ UNCHANGED <<timer, tline>>
  /\ UNCHANGED <<stacks, val, BasicErr, hist>>

\* The loop goes on with the value v.
Continues(v, to, by) == \/ by >= 0 /\ v <= to
                        \/ by < 0  /\ v >= to

\* The first NEXT for the variable from line n on; 0 if there is none.
findnext(n, v) ==
  LET next == {k \in n .. Len(program) : program[k].token = "NEXT" /\ program[k].var = v}
  IN  IF next = {} THEN 0 ELSE CHOOSE k \in next : \A j \in next : k <= j

\* FOR opens the loop and lets NEXT test the condition.
cmd_for ==
  /\ AtLine("FOR") /\ Executed
  /\ val' = [val EXCEPT ![line.var] = line.n]
  /\ IF Continues(line.n, line.to, line.by)
     THEN /\ loops' = Append(loops, [at |-> nxtline + 1, to |-> line.to, by |-> line.by])
          /\ GoOn
     ELSE /\ nxtline' = findnext(nxtline + 1, line.var)
          /\ UNCHANGED loops
  /\ UNCHANGED <<gosub, BasicErr, on, hist>>

Increment(v, loop) == val[v] + loop.by
LoopDone == Front(loops)

\* The innermost loop, whatever its variable, is the one that NEXT belongs to.
cmd_next ==
  /\ AtLine("NEXT") /\ Executed
  /\ IF loops = << >>
     THEN GoOn /\ UNCHANGED <<loops, val>>
     ELSE LET loop == Last(loops)
              v == Increment(line.var, loop)
          IN  /\ val' = [val EXCEPT ![line.var] = v]
              /\ IF Continues(v, loop.to, loop.by)
                 THEN nxtline' = loop.at /\ UNCHANGED loops
                 ELSE GoOn /\ loops' = LoopDone
  /\ UNCHANGED <<gosub, BasicErr, on, hist>>

cmd_goto ==
  /\ AtLine("GOTO")
  /\ IF gotoln(line.n) = -1
     THEN Stopped /\ BasicErr' = 3
     ELSE /\ Executed /\ nxtline' = gotoln(line.n)
          /\ UNCHANGED <<stacks, val, BasicErr, on, hist>>

\* A jump to no line is reported before the next line.
cmd_if ==
  /\ AtLine("IF") /\ Executed
  /\ IF val[line.var] # line.n
     THEN GoOn /\ UNCHANGED BasicErr
     ELSE IF gotoln(line.to) = -1 THEN GoOn /\ BasicErr' = 5
                                  ELSE nxtline' = gotoln(line.to) /\ UNCHANGED BasicErr
  /\ UNCHANGED <<stacks, val, on, hist>>

cmd_gosub ==
  /\ AtLine("GOSUB")
  /\ IF gotoln(line.n) = -1
     THEN /\ gosub' = PushLine(nxtline + 1) /\ pc' = "stopped"
          /\ UNCHANGED <<program, nxtline, loops, val, BasicErr, on, irf, hist>>
     ELSE /\ Executed
          /\ Call(nxtline + 1, line.n, "sub")
          /\ UNCHANGED <<loops, val, BasicErr, on, events, main>>

cmd_return ==
  /\ AtLine("RETURN") /\ Executed
  /\ IF gosub = << >>
     THEN GoOn /\ BasicErr' = 7 /\ UNCHANGED <<gosub, open>>
     ELSE /\ nxtline' = Last(gosub) /\ gosub' = Front(gosub)
          /\ open' = Front(open)
          /\ UNCHANGED BasicErr
  /\ UNCHANGED <<loops, val, on, events, main>>

-----------------------------------------------------------------------------
Execute == \/ EndOfProgram \/ cmd_end \/ EvaluationFails
           \/ cmd_let \/ cmd_print \/ cmd_on \/ cmd_for \/ cmd_next
           \/ cmd_goto \/ cmd_if \/ cmd_gosub \/ cmd_return

Turn == RuntimeError \/ KeyEvent \/ TimerEvent \/ NoEvent \/ Execute

Next == Turn \/ UserBreak

\* The interpreter goes on as long as it is not stopped.
Spec == Init /\ [][Next]_vars /\ WF_vars(Turn)

-----------------------------------------------------------------------------
\* FOR writes forptr[fp] and PushLine gosub[gp] inside their arrays.
TypeOK ==
  /\ program \in Programs /\ nxtline \in 0 .. Len(program) + 1
  /\ gosub \in Seq(1 .. Len(program) + 1) /\ Len(gosub) < MAX_GOSUB_NEST
  /\ Len(loops) <= MAX_FOR_NEST /\ (AtLine("FOR") => Len(loops) < MAX_FOR_NEST)
  /\ val \in [Vars -> Int] /\ BasicErr \in {0, 1, 3, 5, 6, 7}
  /\ {timer, irf} \subseteq BOOLEAN /\ {tline, kline} \subseteq Nat
  /\ pc \in {"events", "execute", "stopped"}
  /\ open \in Seq({"sub", "event"})

\* The loops, each with the variable of its FOR, in the line before its first.
Named(l) == [i \in DOMAIN l |-> [var |-> program[l[i].at - 1].var, at |-> l[i].at,
                                 to |-> l[i].to, by |-> l[i].by]]
MainVals(f) == [v \in MainVars |-> f[v]]

Sequential == INSTANCE BasicProgram WITH
  at      <- IF InHandler THEN main.at ELSE nxtline,
  calls   <- IF InHandler THEN main.gosub ELSE gosub,
  loops   <- IF InHandler THEN Named(main.loops) ELSE Named(loops),
  val     <- IF InHandler THEN MainVals(main.val) ELSE MainVals(val),
  running <- pc # "stopped" /\ BasicErr = 0

\* Key and timer handlers are transparent: whatever lines they come between,
\* also those of another handler, the main program goes on afterwards where it
\* was, with its loops, its subroutines and its variables, and runs as it would
\* alone (basic.c 920-976, commands.c 640-683).
ImplementsProgram == Sequential!Spec

\* A program of finite loops comes to its end, however often it is interrupted.
Ends == <>(pc = "stopped")

=============================================================================
