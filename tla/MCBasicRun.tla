----------------------------- MODULE MCBasicRun -----------------------------
EXTENDS BasicShape

L(t)             == [token |-> t]
L1(t, n)         == [token |-> t, n |-> n]
L2(t, v)         == [token |-> t, var |-> v]
Let(v, n)        == [token |-> "LET", var |-> v, n |-> n]
If(v, n, to)     == [token |-> "IF", var |-> v, n |-> n, to |-> to]
For(v, n, to, s) == [token |-> "FOR", var |-> v, n |-> n, to |-> to, by |-> s]

\* Lines 14-19: a handler with a loop, and one with a subroutine.
Handlers ==
  << For("H", 1, 2, 1), L2("NEXT", "H"), L("RETURN"),
     L1("GOSUB", 19), L("RETURN"),
     L("RETURN") >>

\* Nested loops, the inner one backwards, around a subroutine with a loop.
Nested ==
  << L1("ON TIME", 14), L1("ON KEY", 17),
     For("A", 1, 2, 1), For("B", 2, 1, -1), L1("GOSUB", 10), L2("NEXT", "B"), L2("NEXT", "A"),
     L("END"), L("PRINT"),
     For("C", 1, 2, 1), L2("NEXT", "C"), L("RETURN"), L("PRINT") >> \o Handlers

\* An empty loop, a loop of GOTO and IF, and the end of the program, each with
\* events; one handler returns with an error.
Jumps ==
  << L1("ON KEY", 17), For("A", 2, 1, 1), L("PRINT"), L2("NEXT", "A"),
     L1("ON TIME", 14), Let("B", 1), If("B", 2, 10), Let("B", 2), L1("GOTO", 7),
     L1("GOSUB", 12), L("END"), L("PRINT"), L("RETURN") >> \o Handlers

\* More loops, one after the other, than may be open at a time.
Many == [i \in 1 .. 2 * (MAX_FOR_NEST + 1) |->
          IF i % 2 = 1 THEN For("A", 1, 1, 1) ELSE L2("NEXT", "A")]

\* Lines that do not exist, and a RETURN without a GOSUB.
Faulty ==
  { << L1("ON TIME", 9), L("PRINT"), L("PRINT") >>,
    << L1("GOTO", 9), L("PRINT") >>, << L1("GOSUB", 9), L("PRINT") >>,
    << If("A", 0, 9), L("PRINT") >>, << L("RETURN"), L("PRINT") >> }

MCPrograms == {Nested, Jumps, Many} \cup Faulty

(***************************************************************************)
(* The shapes of the programs: they are among those of which the theorems  *)
(* speak, and some of them need all the room there is.                     *)
(***************************************************************************)
Row(by, nest, c, l) == [by |-> {by}, open |-> nest, calls |-> c, loops |-> l]

HandlerRows(n) ==
  CASE n \in {14, 16} -> Row("event", << >>, 0, 1)
    [] n = 15         -> Row("event", <<14>>, 0, 1)
    [] n \in {17, 18} -> Row("event", << >>, 1, 0)
    [] n = 19         -> Row("event", << >>, 0, 0)

NestedRows(n) ==
  CASE n \in {1, 2, 3, 8} -> Row("main", << >>, 1, 3)
    [] n \in {4, 7}       -> Row("main", <<3>>, 1, 3)
    [] n \in {5, 6}       -> Row("main", <<3, 4>>, 1, 3)
    [] n \in {10, 12}     -> Row("sub", << >>, 0, 1)
    [] n = 11             -> Row("sub", <<10>>, 0, 1)
    [] OTHER              -> HandlerRows(n)

JumpsRows(n) == IF n <= 11 THEN Row("main", << >>, 1, 1)
                ELSE IF n <= 13 THEN Row("sub", << >>, 0, 0) ELSE HandlerRows(n)

ManyRows(n) == Row("main", IF n % 2 = 1 THEN << >> ELSE <<n - 1>>, 0, 1)

Shape(lines, handlers) == [lines |-> lines, calls |-> handlers, loops |-> handlers]

ShapeOf(q) ==
  CASE q = Nested -> Shape([n \in (1 .. 19) \ {9, 13} |-> NestedRows(n)], 1)
    [] q = Jumps  -> Shape([n \in (1 .. 19) \ {3} |-> JumpsRows(n)], 1)
    [] q = Many   -> Shape([n \in 1 .. Len(Many) + 1 |-> ManyRows(n)], 0)
    [] OTHER      -> Shape([n \in 1 .. Len(q) + 1 |-> Row("main", << >>, 0, 0)], 0)

ASSUME ProgramsAreStructured == \A q \in Programs : Fits(ShapeOf(q), q)
=============================================================================
