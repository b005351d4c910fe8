---------------------------- MODULE BasicProgram ----------------------------
(***************************************************************************)
(* What a BASIC program means to the one who wrote it: lines in order,     *)
(* loops that know their variable, subroutines that come back.  No key and *)
(* no timer interrupts it, and its stacks have no end.                     *)
(*                                                                         *)
(* A line is a record of its token and its arguments; line numbers are the *)
(* positions in the program.  The run may be stopped at any time.          *)
(***************************************************************************)
EXTENDS Integers, SequencesExt

VARIABLES
  program,
  at,        \* the line to be executed next
  calls,     \* where the subroutines return to
  loops,     \* the open loops: variable, first line, limit, increment
  val,       \* the variables
  running

rest == <<program, running>>

line == program[at]
Is(token) == running /\ at \in DOMAIN program /\ line.token = token
Exists(n) == n \in DOMAIN program
InRange(v, to, by) == IF by >= 0 THEN v <= to ELSE v >= to

\* A line without effect on the flow of control; LET sets a variable.
Plain == /\ Is("PRINT") \/ Is("ON TIME") \/ Is("ON KEY")
         /\ at' = at + 1 /\ UNCHANGED <<rest, calls, loops, val>>

Let == /\ Is("LET")
       /\ val' = [val EXCEPT ![line.var] = line.n]
       /\ at' = at + 1 /\ UNCHANGED <<rest, calls, loops>>

\* A loop whose condition is already met is passed over, to a NEXT that finds
\* its loop closed.
For ==
  /\ Is("FOR")
  /\ val' = [val EXCEPT ![line.var] = line.n]
  /\ IF InRange(line.n, line.to, line.by)
     THEN /\ at' = at + 1
          /\ loops' = Append(loops, [var |-> line.var, at |-> at + 1,
                                     to |-> line.to, by |-> line.by])
     ELSE /\ at' > at /\ Exists(at')
          /\ program[at'].token = "NEXT" /\ program[at'].var = line.var
          /\ UNCHANGED loops
  /\ UNCHANGED <<rest, calls>>

Open(v) == loops # << >> /\ Last(loops).var = v

NextPass ==
  /\ Is("NEXT") /\ Open(line.var)
  /\ LET loop == Last(loops)
         v == val[line.var] + loop.by
     IN  /\ val' = [val EXCEPT ![line.var] = v]
         /\ IF InRange(v, loop.to, loop.by)
            THEN at' = loop.at /\ UNCHANGED loops
            ELSE at' = at + 1 /\ loops' = Front(loops)
  /\ UNCHANGED <<rest, calls>>

NextClosed == /\ Is("NEXT") /\ ~Open(line.var)
              /\ at' = at + 1 /\ UNCHANGED <<rest, calls, loops, val>>

Goto == /\ Is("GOTO") /\ at' = line.n /\ UNCHANGED <<rest, calls, loops, val>>

If == /\ Is("IF")
      /\ at' = IF val[line.var] = line.n THEN line.to ELSE at + 1
      /\ UNCHANGED <<rest, calls, loops, val>>

Gosub == /\ Is("GOSUB")
         /\ calls' = Append(calls, at + 1)
         /\ at' = line.n /\ UNCHANGED <<rest, loops, val>>

Return == /\ Is("RETURN") /\ calls # << >>
          /\ at' = Last(calls) /\ calls' = Front(calls)
          /\ UNCHANGED <<rest, loops, val>>

\* The end of the program, an END, an error or the user's break.
Stop == /\ running /\ running' = FALSE
        /\ UNCHANGED <<program, loops, val>>

Init == /\ at = 1 /\ calls = << >> /\ loops = << >> /\ running = TRUE
        /\ \A v \in DOMAIN val : val[v] = 0

Next == \/ Plain \/ Let \/ For \/ NextPass \/ NextClosed
        \/ Goto \/ If \/ Gosub \/ Return \/ Stop

Spec == Init /\ [][Next]_<<program, at, calls, loops, val, running>>
=============================================================================
