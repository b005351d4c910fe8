------------------------------- MODULE CBuffer -------------------------------
(***************************************************************************)
(* The circular byte buffer of buffer.c (cBuffer): the operations on the   *)
(* structure, as operators from a buffer value to a buffer value.  Each C  *)
(* function runs between CRITICAL_SECTION_START and _END (interrupts off), *)
(* so every operator here is one indivisible step of whoever uses it.      *)
(*                                                                         *)
(* The index arithmetic is done in `unsigned short', hence the % Word.     *)
(***************************************************************************)
EXTENDS Integers, Sequences

CONSTANTS
  Byte,   \* what a byte may be
  Zero,   \* the byte 0: what GetFromFront returns when there is no data
  Size,   \* cBuffer.size: UART_RX_BUFFER_SIZE, UART_TX_BUFFER_SIZE
  Word    \* 2^16, the modulus of an unsigned short

ASSUME ByteAssumption == Zero \in Byte
ASSUME SizeAssumption == Size \in Nat \ {0} /\ Word \in Nat
\* index + length stays below 2 * Size: with Size = 64 the arithmetic never wraps.
ASSUME WidthAssumption == 2 * Size <= Word

Slot == 0 .. Size - 1

Buffers == [data : [Slot -> Byte], index : Slot, length : 0 .. Size]

\* A buffer is written out field by field.
Buffer(d, i, n) == [data |-> d, index |-> i, length |-> n]

\* bufferInit on memory that the C start-up code has zeroed.
BufferInit == Buffer([s \in Slot |-> Zero], 0, 0)

\* Mutants of the operators below: the index is never brought back, the byte read
\* is that of the first slot, a dump forgets the index, a byte is stored one slot
\* too far, one byte too many is let in.
WrapMissing(i) == i
FrontOfArray(b) == b.data[0]
DumpKeepsIndex(b, n) == Buffer(b.data, b.index, IF n < b.length THEN b.length - n ELSE 0)
AddOneFurther(b, c) ==
  IF b.length < Size
  THEN Buffer([b.data EXCEPT ![(b.index + b.length + 1) % Size] = c], b.index, b.length + 1)
  ELSE b
RoomForOneMore(b) == b.length <= Size

\* One step round the ring: the code subtracts the size once, it does not divide.
Wrap(i) == IF i >= Size THEN i - Size ELSE i

HasData(b) == b.length # 0

\* What bufferGetFromFront returns ...
FrontByte(b) == IF HasData(b) THEN b.data[b.index] ELSE Zero

\* ... and what it leaves behind.
GetFromFront(b) ==
  IF HasData(b)
  THEN Buffer(b.data, Wrap((b.index + 1) % Word), b.length - 1)
  ELSE b

\* The read index does not move when the whole buffer is dumped.
DumpFromFront(b, n) ==
  IF n < b.length
  THEN Buffer(b.data, Wrap((b.index + n) % Word), b.length - n)
  ELSE Buffer(b.data, b.index, 0)

GetAtIndex(b, i) == b.data[((b.index + i) % Word) % Size]

\* bufferAddToEnd returns -1 (stored) or 0 (full).
HasRoom(b) == b.length < Size

AddToEnd(b, c) ==
  IF HasRoom(b)
  THEN LET end == ((b.index + b.length) % Word) % Size
       IN  Buffer([b.data EXCEPT ![end] = c], b.index, b.length + 1)
  ELSE b

Flush(b) == Buffer(b.data, b.index, 0)

(***************************************************************************)
(* The queue a buffer stands for (buffer.h: "first in, first out").        *)
(***************************************************************************)
Content(b) == [k \in 1 .. b.length |-> GetAtIndex(b, k - 1)]
=============================================================================
