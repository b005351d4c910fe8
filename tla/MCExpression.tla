---------------------------- MODULE MCExpression ----------------------------
(***************************************************************************)
(* Chains of up to five operands over an operator of each precedence, with *)
(* brackets around a part or an argument, and with a sign; choices; nests  *)
(* that overflow the stacks; and sequences of texts after erroneous ones.  *)
(***************************************************************************)
EXTENDS Expression

Some == {"-", "*", ">", "AND"}
Others == {"+", "/", "MOD", "<", ">=", "<=", "=", "<>", "OR"}
In(s) == <<"(">> \o s \o <<")">>

Chains == {<<"7", o1, "2", o2, "3", o3, "4">> : o1, o2, o3 \in Some}
     \cup {<<"A", o1, "1", "2", o2, "3", o3, "0", o4, "5">> : o1, o2, o3, o4 \in {"-", "*", ">"}}
     \cup {<<"7", o1, "2", o2, "0">> : o1, o2 \in Others}
Brackets == {<<"7", o1, "(", "2", o2, "3", ")", o3, "4">> : o1, o2, o3 \in Some}
       \cup {<<"7", o1, "ABS", "(", "2", o2, "3", ")", o3, "4">> : o1, o2, o3 \in Some}
       \cup {<<"7", o1, "SIG", "(", "2", o2, "3", ",", "1", o3, "4", ")">>
               : o1, o2, o3 \in Some}
       \cup {<<"7", o1, "(", "2", o2, "(", "3", o3, "4", ")", ")">> : o1, o2, o3 \in Some}
Signs == {<<"-", "7", o, "-", "2">> : o \in Some}
    \cup {<<"-", "A", o, "2">> : o \in Some} \cup {<<"2", o, "-", "(", "3", ")">> : o \in Some}
Choices == {<<"A", o1, "0", "?", "1", o2, "2", ":", "3", o3, "4">> : o1, o2, o3 \in Some}
      \cup {<<"A", "?", "1", ":", "2">>}
      \cup {<<"0", "?", "5", o1, "3", o2, "6", ":", "1">> : o1, o2 \in Some}

\* As deep as k brackets, each with two operators that wait.
Deep(k) == [i \in 1 .. 5 * k |-> (<<"1", "+", "2", "*", "(">>)[((i - 1) % 5) + 1]]
           \o <<"3">> \o [i \in 1 .. k |-> ")"]

Sample == {<<"7", "-", "2", ">", "3", "AND", "4">>, <<"1", "-", "ABS", "(", "2", "-", "3", ")">>,
           Deep(2)}
MCWellFormed == Sample \cup Chains \cup Brackets \cup Signs \cup Choices \cup {Deep(k) : k \in 1 .. 4}
MCMalformed == {<<"ABS", "(", "4", "+">>, <<"4", "+", "SIG", "(", "1">>, <<"1", ":", "2">>,
                <<"(", "1", ":", "2", ")", "+", "3">>, <<"1", ")">>, <<"6", "/", "SIG">>,
                <<"ABS", "(", "1", ",", "2", ")">>,
                <<"2", "*", "SIG", "(", "(", "1", "?", "2", ")", ",", "ABS", "(", "5">>, <<>>}

MCPrograms == {<<t>> : t \in MCWellFormed}
         \cup {<<t, u, s>> : t, u \in MCMalformed \cup {Deep(4)}, s \in Sample}
         \cup {<<t, t, t, t, t, t, t, s>> : t \in MCMalformed, s \in Sample}
=============================================================================
