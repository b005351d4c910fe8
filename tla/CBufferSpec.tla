----------------------------- MODULE CBufferSpec -----------------------------
(***************************************************************************)
(* One cBuffer driven by an arbitrary caller: every function of buffer.c   *)
(* in any order and with any argument its type allows.  The names leave    *)
(* Init, Next and TypeOK to the modules that have a buffer in them.        *)
(***************************************************************************)
EXTENDS CBuffer

VARIABLES
  buf,    \* the structure
  ret,    \* the byte the last bufferGetFromFront or bufferGetAtIndex returned
  stored  \* what the last bufferAddToEnd returned: -1 (TRUE) or 0 (FALSE)

callVars == <<buf, ret, stored>>

CallInit == buf = BufferInit /\ ret = Zero /\ stored = FALSE

\* Mutant: the answer is that the buffer is not full afterwards.
AddAnswersRoomLeft ==
  /\ \E c \in Byte : buf' = AddToEnd(buf, c)
  /\ stored' = HasRoom(buf')
  /\ UNCHANGED ret

bufferAddToEnd ==
  /\ \E c \in Byte : buf' = AddToEnd(buf, c)
  /\ stored' = HasRoom(buf)
  /\ UNCHANGED ret

bufferGetFromFront ==
  buf' = GetFromFront(buf) /\ ret' = FrontByte(buf) /\ UNCHANGED stored

\* numbytes is an unsigned short.
bufferDumpFromFront ==
  /\ \E n \in 0 .. Word - 1 : buf' = DumpFromFront(buf, n)
  /\ UNCHANGED <<ret, stored>>

bufferGetAtIndex ==
  /\ \E i \in 0 .. Size - 1 : ret' = GetAtIndex(buf, i)
  /\ UNCHANGED <<buf, stored>>

bufferFlush == buf' = Flush(buf) /\ UNCHANGED <<ret, stored>>

Call == \/ bufferAddToEnd
        \/ bufferGetFromFront
        \/ bufferDumpFromFront
        \/ bufferGetAtIndex
        \/ bufferFlush

CallSpec == CallInit /\ [][Call]_callVars

-----------------------------------------------------------------------------
\* Every index the code computes stays inside the array.
BufferTypeOK == buf \in Buffers /\ ret \in Byte /\ stored \in BOOLEAN

\* The circular representation is a first-in first-out queue (buffer.h 19-22):
\* every call on the structure is a put, a drop from the front, or no change.
Queue == INSTANCE ByteQueue WITH queue <- Content(buf), Capacity <- Size
ImplementsQueue == Queue!Spec

\* A reader gets the oldest byte: what bufferGetFromFront returns is the head
\* of the queue, and what is left is the tail, across any wrap of the index.
ReadsOldestStep ==
  bufferGetFromFront /\ HasData(buf) =>
    /\ ret' = Head(Content(buf))
    /\ Content(buf') = Tail(Content(buf))
ReadsOldest == [][ReadsOldestStep]_callVars

\* A writer can believe the answer: bufferAddToEnd says TRUE when the byte has
\* become the last of the queue and 0 when the queue is as it was (buffer.c
\* 106-126); SIG_UART_RECV counts an overflow by it.
AnswersTrulyStep ==
  bufferAddToEnd =>
    IF stored' THEN \E c \in Byte : Content(buf') = Append(Content(buf), c)
               ELSE Content(buf') = Content(buf)
AnswersTruly == [][AnswersTrulyStep]_callVars
=============================================================================
