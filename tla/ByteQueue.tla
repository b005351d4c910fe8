------------------------------ MODULE ByteQueue ------------------------------
(***************************************************************************)
(* What a byte buffer promises (buffer.h): a queue of at most Capacity     *)
(* bytes, first in first out, from which bytes leave at the front only.    *)
(***************************************************************************)
EXTENDS Integers, Sequences

CONSTANTS Byte, Capacity
VARIABLE queue

Init == queue = << >>

Put  == /\ Len(queue) < Capacity
        /\ \E c \in Byte : queue' = Append(queue, c)

\* One byte read, n bytes dumped, everything flushed.
Drop == \E n \in 1 .. Len(queue) : queue' = SubSeq(queue, n + 1, Len(queue))

Next == Put \/ Drop

Spec == Init /\ [][Next]_queue
=============================================================================
