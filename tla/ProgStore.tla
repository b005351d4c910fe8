----------------------------- MODULE ProgStore -----------------------------
(***************************************************************************)
(* What the program store of the BASIC interpreter promises to the one who *)
(* types a program in: every line number has the text last entered for it, *)
(* or none; and a loss of power while a line is being entered spares the   *)
(* lines before that one.                                                  *)
(***************************************************************************)
EXTENDS Integers
CONSTANTS LineNos, Texts, Missing
VARIABLES lines,     \* the text of each line
          entering   \* the number of the line being entered, 0 if none is

Empty == [n \in LineNos |-> Missing]
Init == lines = Empty /\ entering = 0

Begin(n)  == entering = 0 /\ entering' = n /\ UNCHANGED lines
Finish(t) == /\ entering # 0 /\ entering' = 0
             /\ lines' = [lines EXCEPT ![entering] = t]
Delete(n) == entering = 0 /\ lines' = [lines EXCEPT ![n] = Missing] /\ UNCHANGED entering
Clear     == entering = 0 /\ lines' = Empty /\ UNCHANGED entering

Lose == /\ entering # 0 /\ entering' = 0
        /\ DOMAIN lines' = LineNos
        /\ \A k \in LineNos : k < entering /\ lines[k] # Missing => lines'[k] = lines[k]

Next == \/ \E n \in LineNos : Begin(n) \/ Delete(n)
        \/ \E t \in Texts : Finish(t)
        \/ Clear \/ Lose

Spec == Init /\ [][Next]_<<lines, entering>>
=============================================================================
