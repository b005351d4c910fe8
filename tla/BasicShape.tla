----------------------------- MODULE BasicShape -----------------------------
(***************************************************************************)
(* Programs that keep to what their author means by loops, subroutines and *)
(* handlers.  The interpreter checks none of this: forptr and gosub are    *)
(* shared by everybody (basic commands.c 166-233, 640-683), and a program  *)
(* without this shape is at their mercy.                                   *)
(*                                                                         *)
(* A shape says of each line that can be reached                           *)
(*   by     who executes it: the main routine, a subroutine that the main  *)
(*          program calls, or a handler with its subroutines;              *)
(*   open   the lines of the FORs whose loops its routine has open;        *)
(*   calls  how deep the routine may still call; and                       *)
(*   loops  how many loops it and those it calls may have open;            *)
(* and of all handlers how deep they call and how many loops they open.    *)
(***************************************************************************)
EXTENDS BasicRun

Executers == {"main", "sub", "event"}

IsShape(s, p) ==
  /\ s.calls \in Nat /\ s.loops \in Nat
  /\ DOMAIN s.lines \subseteq 1 .. Len(p) + 1
  /\ \A n \in DOMAIN s.lines :
       /\ s.lines[n].by \subseteq Executers
       /\ s.lines[n].open \in Seq(DOMAIN p)
       /\ s.lines[n].calls \in Nat /\ s.lines[n].loops \in Nat
       /\ Len(s.lines[n].open) <= s.lines[n].loops

\* The routine goes on from line n at line k, with these loops open.
Leads(s, n, k, nest) ==
  /\ k \in DOMAIN s.lines
  /\ s.lines[n].by \subseteq s.lines[k].by
  /\ s.lines[k].open = nest
  /\ s.lines[k].calls <= s.lines[n].calls /\ s.lines[k].loops <= s.lines[n].loops

\* A variable that all who execute the line may set.
MaySet(s, n, v) ==
  /\ v \in Vars
  /\ s.lines[n].by \cap {"main", "sub"} # {} => v \in MainVars
  /\ "event" \in s.lines[n].by => v \in HandlerVars

\* A FOR, for a loop that is entered.
IsFor(p, f) == p[f].token = "FOR" /\ {p[f].n, p[f].to, p[f].by} \subseteq Int

\* Line k is a subroutine that line n may call.
MayCall(s, n, k) ==
  /\ k \in DOMAIN s.lines /\ s.lines[k].open = << >>
  /\ s.lines[n].by \cap {"main", "sub"} # {} => "sub" \in s.lines[k].by
  /\ "event" \in s.lines[n].by => "event" \in s.lines[k].by
  /\ s.lines[k].calls + 1 <= s.lines[n].calls
  /\ Len(s.lines[n].open) + s.lines[k].loops <= s.lines[n].loops

IsHandler(s, k) ==
  /\ k \in DOMAIN s.lines /\ s.lines[k].open = << >> /\ "event" \in s.lines[k].by
  /\ s.lines[k].calls <= s.calls /\ s.lines[k].loops <= s.loops

\* The first NEXT for the variable behind a FOR that is passed over.
NextOf(p, n) ==
  LET next == {k \in n + 1 .. Len(p) : p[k].token = "NEXT" /\ p[k].var = p[n].var}
  IN  IF next = {} THEN 0 ELSE CHOOSE k \in next : \A j \in next : k <= j

\* A NEXT belongs to the innermost loop of its routine; only the main routine, when
\* no loop at all is open, may come to one that is closed.
FitsNext(s, p, n) ==
  LET nest == s.lines[n].open
  IN  /\ MaySet(s, n, p[n].var)
      /\ IF nest = << >>
         THEN s.lines[n].by \subseteq {"main"} /\ Leads(s, n, n + 1, nest)
         ELSE LET f == Last(nest)
              IN  /\ IsFor(p, f) /\ p[f].var = p[n].var
                  /\ Leads(s, n, f + 1, nest) /\ Leads(s, n, n + 1, Front(nest))

FitsFor(s, p, n) ==
  LET nest == s.lines[n].open
  IN  /\ MaySet(s, n, p[n].var) /\ IsFor(p, n)
      /\ Len(nest) + 1 <= s.lines[n].loops
      /\ IF Continues(p[n].n, p[n].to, p[n].by)
         THEN Leads(s, n, n + 1, Append(nest, n))
         ELSE Leads(s, n, NextOf(p, n), nest)

FitsLine(s, p, n) ==
  LET Is(t) == p[n].token = t
      GoesTo(k) == Leads(s, n, k, s.lines[n].open)
  IN  /\ p[n].token \in {"LET", "PRINT", "ON TIME", "ON KEY", "FOR", "NEXT", "GOTO", "IF",
                         "GOSUB", "RETURN", "END"}
      /\ Is("LET") => MaySet(s, n, p[n].var) /\ p[n].n \in Int /\ GoesTo(n + 1)
      /\ Is("PRINT") => GoesTo(n + 1)
      /\ Is("ON TIME") \/ Is("ON KEY") =>
           /\ p[n].n \in Nat /\ GoesTo(n + 1)
           /\ p[n].n \in DOMAIN p => IsHandler(s, p[n].n)
      /\ Is("FOR") => FitsFor(s, p, n)
      /\ Is("NEXT") => FitsNext(s, p, n)
      /\ Is("GOTO") => (p[n].n \in DOMAIN p => GoesTo(p[n].n))
      /\ Is("IF") =>
           /\ s.lines[n].by \cap {"main", "sub"} # {} => p[n].var \in MainVars
           /\ GoesTo(n + 1) /\ (p[n].to \in DOMAIN p => GoesTo(p[n].to))
      /\ Is("GOSUB") =>
           (p[n].n \in DOMAIN p => GoesTo(n + 1) /\ MayCall(s, n, p[n].n))
      /\ Is("RETURN") => s.lines[n].open = << >>

\* There is room for the main program and all handlers that may come to be open.
HasRoom(s) ==
  /\ s.lines[1].calls + MaxEvents * (1 + s.calls) <= MAX_GOSUB_NEST - 1
  /\ s.lines[1].loops + MaxEvents * s.loops <= MAX_FOR_NEST

Fits(s, p) ==
  /\ p \in Seq(Range(p)) /\ IsShape(s, p)
  /\ 1 \in DOMAIN s.lines /\ s.lines[1].open = << >> /\ "main" \in s.lines[1].by
  /\ HasRoom(s)
  /\ \A n \in DOMAIN s.lines \cap DOMAIN p : FitsLine(s, p, n)

Structured == \A p \in Programs : \E s : Fits(s, p)
=============================================================================
