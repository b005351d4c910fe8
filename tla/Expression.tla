----------------------------- MODULE Expression -----------------------------
(***************************************************************************)
(* The evaluation of an expression of BASIC (basic express.c eval_expr,    *)
(* epush, epop, math): one pass over the text with a stack of operands and *)
(* a stack of operators, both static and of MAX_DEPTH entries, shared by   *)
(* the nested evaluations of parentheses and of arguments.                 *)
(*                                                                         *)
(* A text is a sequence of tokens: a digit, a variable, an operator, a     *)
(* bracket, a function.  Two functions stand for those with one and with   *)
(* two arguments.  Arrays, strings and FN are left out, and so are texts   *)
(* with a "(" that is not closed, after which the code reads on behind the *)
(* end of the string.  Values stay far below the width of a long.          *)
(***************************************************************************)
EXTENDS Integers, Sequences, FiniteSets, TLC

CONSTANTS
  WellFormed, Malformed,   \* texts
  Programs,                \* the texts evaluated one after the other
  MAX_DEPTH,               \* 25 on the robot
  variable                 \* the value of the variable A

ASSUME ExpressionAssumption ==
  /\ Programs \subseteq Seq(WellFormed \cup Malformed)
  /\ MAX_DEPTH \in Nat \ {0} /\ variable \in Int

Digits  == {ToString(d) : d \in 0 .. 9}
ValueOf == [t \in Digits |-> CHOOSE d \in 0 .. 9 : ToString(d) = t]
Arity   == [ABS |-> 1, SIG |-> 2]
Compare == {">", "<", ">=", "<=", "=", "<>"}
Operators == {"+", "-", "*", "/", "MOD", "AND", "OR", "?", ":"} \cup Compare

preci(t) == CASE t \in {"*", "/", "MOD"} -> 20
              [] t \in {"+", "-"}        -> 10
              [] t \in Compare           -> 5
              [] t \in {"AND", "OR"}     -> 2
              [] OTHER                   -> 0

\* C's division, which truncates; by zero it is 0 here, with a message.
Quotient(x, y) ==
  LET mag(z) == IF z < 0 THEN -z ELSE z
      q == mag(x) \div mag(y)
  IN  IF y = 0 THEN 0 ELSE IF (x < 0) = (y < 0) THEN q ELSE -q
Truth(test) == IF test THEN 1 ELSE 0

math(x, y, t) ==
  CASE t = "+" -> x + y   [] t = "-" -> x - y   [] t = "*" -> x * y
    [] t = "/" -> Quotient(x, y)
    [] t = "MOD" -> IF y = 0 THEN 0 ELSE x - y * Quotient(x, y)
    [] t = "AND" -> Truth(x # 0 /\ y # 0)
    [] t = "OR"  -> Truth(x # 0 \/ y # 0)
    [] t = ">" -> Truth(x > y)   [] t = ">=" -> Truth(x >= y)
    [] t = "<" -> Truth(x < y)   [] t = "<=" -> Truth(x <= y)
    [] t = "=" -> Truth(x = y)   [] t = "<>" -> Truth(x # y)
    [] OTHER -> x

fn_abs(v) == IF v < 0 THEN -v ELSE v
sigmoid(v, t) == CASE t = 1 -> IF v > 0 THEN 10 ELSE 0
                   [] t = 2 -> IF v > 0 THEN 10 ELSE -10
                   [] t = 3 -> IF v > 0 THEN 1 ELSE 0
                   [] OTHER -> v

VARIABLES
  program,                \* the texts not yet evaluated
  text, pos,              \* the text and the place in it
  n1, sgn, tmp, tsp, top, \* the locals of the evaluation that runs
  frames,                 \* those of the evaluations it is nested in
  stack, sp, ops, op,     \* the stacks
  phase,                  \* "scan", "reduce", "back" to the caller, "done"
  ty, value,              \* what the evaluation returns
  cleared                 \* history: both stacks were emptied on an error

locals == <<n1, sgn, tmp, tsp, top>>
stacks == <<stack, sp, ops, op>>
given  == <<program, text>>
vars   == <<given, pos, locals, frames, stacks, phase, ty, value, cleared>>

Token == IF pos \in 1 .. Len(text) THEN text[pos] ELSE "end"

Init ==
  /\ \E p \in Programs : program = Tail(p) /\ text = Head(p)
  /\ pos = 1 /\ n1 = 0 /\ sgn = 0 /\ tmp = 0 /\ tsp = 0 /\ top = 0 /\ frames = <<>>
  /\ stack = [i \in 0 .. MAX_DEPTH - 1 |-> 0] /\ ops = [i \in 0 .. MAX_DEPTH - 1 |-> "+"]
  /\ sp = 0 /\ op = 0
  /\ phase = "scan" /\ ty = "NUMBER" /\ value = 0 /\ cleared = FALSE

\* A call of eval_expr from the place p.
Nest(frame, p) ==
  /\ frames' = <<frame>> \o frames
  /\ pos' = p /\ n1' = 0 /\ sgn' = 0 /\ tmp' = 0 /\ phase' = "scan"
Leave(type, v) == phase' = "back" /\ ty' = type /\ value' = v
ClearStacks == sp' = 0 /\ op' = 0 /\ cleared' = TRUE

(***************************************************************************)
(* The pass over the text.                                                 *)
(***************************************************************************)
Scans(tokens) == phase = "scan" /\ Token \in tokens
MinusIsSign == Token = "-" /\ sgn = 0

Sign ==
  /\ Scans({"-"}) /\ MinusIsSign
  /\ sgn' = -1 /\ pos' = pos + 1
  /\ UNCHANGED <<given, n1, tmp, tsp, top, frames, stacks, phase, ty, value, cleared>>

Digit ==
  /\ Scans(Digits)
  /\ n1' = n1 * 10 + ValueOf[Token] /\ sgn' = (IF sgn = 0 THEN 1 ELSE sgn)
  /\ pos' = pos + 1
  /\ UNCHANGED <<given, tmp, tsp, top, frames, stacks, phase, ty, value, cleared>>

Variable ==
  /\ Scans({"A"})
  /\ n1' = variable /\ sgn' = 1 /\ pos' = pos + 1
  /\ UNCHANGED <<given, tmp, tsp, top, frames, stacks, phase, ty, value, cleared>>

Frame(token, sign, left) == [of |-> token, left |-> left, sgn |-> sign, tmp |-> tmp,
                             tsp |-> tsp, top |-> top]

Open ==
  /\ Scans({"("})
  /\ Nest(Frame("(", 1, 0), pos + 1)
  /\ tsp' = sp /\ top' = op
  /\ UNCHANGED <<given, stacks, ty, value, cleared>>

\* Mutants of the definitions below: operators of the same precedence are left for
\* the end; the last entry of the stacks is used.
WaitingEqual(t) == op > top /\ preci(t) < preci(ops[op - 1])
RoomForAll(k)  == sp - k < MAX_DEPTH /\ op - k < MAX_DEPTH

\* An operator calculates at most one that waits, then waits itself.
Waiting(t) == op > top /\ preci(t) <= preci(ops[op - 1])
Room(k)    == sp - k < MAX_DEPTH - 1 /\ op - k < MAX_DEPTH - 1

Operator ==
  /\ Scans(Operators) /\ ~MinusIsSign
  /\ LET k == IF Waiting(Token) THEN 1 ELSE 0
         n == IF k = 1 THEN math(stack[sp - 1], n1 * sgn, ops[op - 1]) ELSE n1 * sgn
     IN  IF Room(k)
         THEN /\ ops' = [ops EXCEPT ![op - k] = Token] /\ op' = op - k + 1
              /\ stack' = [stack EXCEPT ![sp - k] = n] /\ sp' = sp - k + 1
              /\ pos' = pos + 1 /\ n1' = 0 /\ sgn' = 0
              /\ UNCHANGED <<phase, ty, value, cleared>>
         ELSE /\ ClearStacks /\ Leave("NUMBER", 0)
              /\ pos' = pos + 1 /\ UNCHANGED <<stack, ops, n1, sgn>>
  /\ UNCHANGED <<given, tmp, tsp, top, frames>>

\* epush, which empties the stacks when there is no room.
Push(n) ==
  IF sp < MAX_DEPTH - 1
  THEN stack' = [stack EXCEPT ![sp] = n] /\ sp' = sp + 1 /\ UNCHANGED <<op, cleared>>
  ELSE ClearStacks /\ UNCHANGED stack

(***************************************************************************)
(* A function: its arguments are evaluated and pushed one by one.          *)
(***************************************************************************)
Special ==
  /\ Scans(DOMAIN Arity)
  /\ IF pos < Len(text) /\ text[pos + 1] = "("
     THEN Nest(Frame(Token, 1, Arity[Token]), pos + 2) /\ tsp' = sp /\ top' = op
     ELSE /\ n1' = 0 /\ sgn' = 1 /\ tmp' = 0 /\ pos' = pos + 1   \* the function of no argument
          /\ UNCHANGED <<tsp, top, frames, phase>>
  /\ UNCHANGED <<given, stacks, ty, value, cleared>>

Caller == Head(frames)
Resume == tsp' = Caller.tsp /\ top' = Caller.top

BackInParentheses ==
  /\ phase = "back" /\ frames # <<>> /\ Caller.of = "("
  /\ tmp' = (IF ty = "NUMBER" THEN value ELSE Caller.tmp)
  /\ n1' = tmp' /\ sgn' = 1 /\ pos' = pos + 1
  /\ Resume /\ frames' = Tail(frames) /\ phase' = "scan"
  /\ UNCHANGED <<given, stacks, ty, value, cleared>>

BackWithArgument ==
  /\ phase = "back" /\ frames # <<>> /\ Caller.of \in DOMAIN Arity
  /\ Push(IF ty = "NUMBER" THEN value ELSE 0)      \* in place of 0: arrayname
  /\ Resume /\ UNCHANGED <<given, ops>>
  /\ IF Token \notin {")", ","}
     THEN /\ phase' = "back" /\ ty' = "none"      \* -1
          /\ frames' = Tail(frames) /\ UNCHANGED <<pos, n1, sgn, tmp, value>>
     ELSE IF Caller.left = 1 \/ Token = ")"
     THEN /\ phase' = "apply"
          /\ frames' = <<[Caller EXCEPT !.left = @ - 1]>> \o Tail(frames)
          /\ pos' = pos + 1 /\ UNCHANGED <<n1, sgn, tmp, ty, value>>
     ELSE /\ phase' = "next"
          /\ frames' = <<[Caller EXCEPT !.left = @ - 1]>> \o Tail(frames)
          /\ UNCHANGED <<pos, n1, sgn, tmp, ty, value>>

NextArgument ==
  /\ phase = "next"
  /\ pos' = pos + 1 /\ n1' = 0 /\ sgn' = 0 /\ tmp' = 0 /\ phase' = "scan"
  /\ tsp' = sp /\ top' = op
  /\ UNCHANGED <<given, frames, stacks, ty, value, cleared>>

\* epop from under k others: 0 when there is none, and then both stacks are emptied.
Popped(k) == IF sp > k THEN stack[sp - 1 - k] ELSE 0

Apply ==
  /\ phase = "apply"
  /\ LET n == Arity[Caller.of] - Caller.left
         first == IF n = 1 THEN Popped(0) ELSE n
         two   == Caller.of = "SIG" /\ first = 2
         k     == (IF n = 1 THEN 1 ELSE 0) + (IF two THEN 2 ELSE 0)
     IN  /\ n1' = CASE Caller.of = "ABS" -> fn_abs(first)
                    [] two   -> sigmoid(Popped(k - 1), Popped(k - 2))
                    [] OTHER -> first
         /\ tmp' = n1'
         /\ IF sp < k THEN ClearStacks ELSE sp' = sp - k /\ UNCHANGED <<op, cleared>>
  /\ sgn' = 1 /\ frames' = Tail(frames) /\ phase' = "scan"
  /\ UNCHANGED <<given, pos, tsp, top, stack, ops, ty, value>>

(***************************************************************************)
(* The end of the text, or of the part in parentheses.                     *)
(***************************************************************************)
Finish ==
  /\ Scans({")", ",", "end"})
  /\ Push(n1 * sgn) /\ phase' = "reduce"
  /\ UNCHANGED <<given, pos, locals, frames, ops, ty, value>>

\* stack[i] = n, then the stack is left with that as the last operand.
Keep(i, n, k) == /\ stack' = [stack EXCEPT ![i] = n] /\ sp' = i + 1 /\ op' = op - k
                 /\ UNCHANGED <<ops, cleared, phase, ty, value>>
Fail == ClearStacks /\ Leave("ERROR", 0) /\ UNCHANGED <<stack, ops>>

Reduce ==
  /\ phase = "reduce" /\ op > top
  /\ LET choice == ops[op - 1] = ":"
     IN  \/ /\ choice /\ op > top + 1 /\ ops[op - 2] = "?" /\ sp > tsp + 2
            /\ Keep(sp - 3, stack[IF stack[sp - 3] = 0 THEN sp - 1 ELSE sp - 2], 2)
         \/ /\ ~choice /\ sp > tsp + 1
            /\ Keep(sp - 2, math(stack[sp - 2], stack[sp - 1], ops[op - 1]), 1)
         \/ /\ choice => ~(op > top + 1 /\ ops[op - 2] = "?" /\ sp > tsp + 2)
            /\ ~choice => sp <= tsp + 1
            /\ Fail
  /\ UNCHANGED <<given, pos, locals, frames>>

Return ==
  /\ phase = "reduce" /\ op <= top
  /\ sp' = tsp /\ Leave("NUMBER", stack[tsp])
  /\ UNCHANGED <<given, pos, locals, frames, stack, ops, op, cleared>>

Done == phase = "back" /\ frames = <<>>

\* The next expression of the program, on the stacks as they were left.
NextText ==
  /\ Done /\ program # <<>>
  /\ program' = Tail(program) /\ text' = Head(program)
  /\ pos' = 1 /\ n1' = 0 /\ sgn' = 0 /\ tmp' = 0 /\ tsp' = sp /\ top' = op
  /\ phase' = "scan" /\ ty' = "NUMBER" /\ value' = 0 /\ cleared' = FALSE
  /\ UNCHANGED <<frames, stacks>>

Scan   == Sign \/ Digit \/ Variable \/ Open \/ Operator \/ Special \/ Finish
Nested == BackInParentheses \/ BackWithArgument \/ NextArgument \/ Apply
Next   == Scan \/ Nested \/ Reduce \/ Return \/ NextText

Spec == Init /\ [][Next]_vars

-----------------------------------------------------------------------------
(***************************************************************************)
(* The reference: operators bind by their precedence, those of the same    *)
(* precedence from the left, a minus in front of an operand negates it.    *)
(***************************************************************************)
\* How many brackets are open before the i-th token.
DepthAt(s, i) == Cardinality({j \in 1 .. i - 1 : s[j] = "("})
                 - Cardinality({j \in 1 .. i - 1 : s[j] = ")"})
\* The binary operators that are not in brackets.
Binary(s) == {i \in 2 .. Len(s) : s[i] \in Operators /\ s[i - 1] \notin Operators
                                  /\ DepthAt(s, i) = 0}
Numeral(s) == LET n[i \in 0 .. Len(s)] == IF i = 0 THEN 0 ELSE n[i - 1] * 10 + ValueOf[s[i]]
              IN  n[Len(s)]
Before(s, i) == SubSeq(s, 1, i - 1)
After(s, i)  == SubSeq(s, i + 1, Len(s))
Inner(s)     == SubSeq(s, IF s[1] = "(" THEN 2 ELSE 3, Len(s) - 1)
Comma(s)     == {i \in 1 .. Len(s) : s[i] = "," /\ DepthAt(s, i) = 0}

RECURSIVE Meaning(_)
Meaning(s) ==
  LET o == Binary(s)
      lowest == CHOOSE i \in o : \A j \in o : \/ preci(s[i]) < preci(s[j])
                                              \/ preci(s[i]) = preci(s[j]) /\ i >= j
      question == {i \in o : s[i] = "?"}
      in == Inner(s)
  IN  IF question # {}
      THEN LET q == CHOOSE i \in question : \A j \in question : i <= j
               e == CHOOSE i \in o : s[i] = ":" /\ \A j \in o : (s[j] = ":" => i <= j)
           IN  IF Meaning(Before(s, q)) # 0 THEN Meaning(SubSeq(s, q + 1, e - 1))
                                            ELSE Meaning(After(s, e))
      ELSE IF o # {}
      THEN math(Meaning(Before(s, lowest)), Meaning(After(s, lowest)), s[lowest])
      ELSE CASE s[1] = "-" -> -Meaning(Tail(s))
             [] s[1] = "(" -> Meaning(in)
             [] s[1] = "A" -> variable
             [] s[1] = "ABS" -> fn_abs(Meaning(in))
             [] s[1] = "SIG" -> LET i == CHOOSE i \in Comma(in) : TRUE
                                IN  sigmoid(Meaning(Before(in, i)), Meaning(After(in, i)))
             [] OTHER -> Numeral(s)

(***************************************************************************)
(* Where the code keeps to it.  A sign stands before a numeral only; an    *)
(* operator ends at most one other; what lies between "?" and ":" leaves   *)
(* exactly one to be ended; and no choice follows another.                 *)
(***************************************************************************)
\* The operators that the k-th token ends.
Ended(s, k) == {i \in Binary(s) : /\ i < k /\ preci(s[i]) >= preci(s[k])
                                  /\ \A j \in Binary(s) : j \in i + 1 .. k - 1
                                                            => preci(s[j]) > preci(s[i])}
RECURSIVE Plain(_)
Plain(s) ==
  LET o == Binary(s)
  IN  IF o # {}
      THEN /\ \A k \in o : IF s[k] = ":" THEN Cardinality(Ended(s, k)) = 2
                                         ELSE Cardinality(Ended(s, k)) <= 1
           /\ \A i, j \in o : (s[i] = ":" /\ s[j] = "?") => j < i
           /\ \A i \in o : LET later == {j \in o : j > i}
                               end == IF later = {} THEN Len(s) + 1
                                      ELSE CHOOSE j \in later : \A l \in later : j <= l
                           IN  Plain(SubSeq(s, i + 1, end - 1))
           /\ Plain(Before(s, CHOOSE i \in o : \A j \in o : i <= j))
      ELSE CASE s[1] = "-" -> Tail(s)[1] \in Digits
             [] s[1] \in {"(", "ABS"} -> Plain(Inner(s))
             [] s[1] = "SIG" -> LET i == CHOOSE i \in Comma(Inner(s)) : TRUE
                                IN  Plain(Before(Inner(s), i)) /\ Plain(After(Inner(s), i))
             [] OTHER -> TRUE

-----------------------------------------------------------------------------
(***************************************************************************)
(* Properties.                                                             *)
(***************************************************************************)
\* Both stacks stay in their arrays, and above what belongs to the callers unless an
\* error has emptied them.
TypeOK ==
  /\ pos \in 1 .. Len(text) + 1 /\ n1 \in Int /\ sgn \in {-1, 0, 1} /\ tmp \in Int
  /\ {sp, op} \subseteq 0 .. MAX_DEPTH - 1 /\ {tsp, top} \subseteq 0 .. MAX_DEPTH - 1
  /\ phase \in {"scan", "reduce", "back", "next", "apply"}
  /\ ty \in {"NUMBER", "ERROR", "none"} /\ value \in Int
  /\ ~cleared => (sp >= tsp /\ op >= top)

\* A plain expression has the value it means, whatever was evaluated before it and
\* however that ended, and leaves the operators as it found them (eval_expr).
Evaluates ==
  Done /\ ~cleared /\ text \in WellFormed /\ Plain(text) =>
    ty = "NUMBER" /\ value = Meaning(text) /\ op = top
=============================================================================
