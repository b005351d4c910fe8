---------------------------- MODULE CBufferProofs ----------------------------
(***************************************************************************)
(* The circular buffer of buffer.c is a first-in first-out queue, for      *)
(* every size, byte set and word width (CBufferSpec => ByteQueue); and the *)
(* lemmas it rests on, which the proofs about uart.c cite too: what each   *)
(* operation does to the queue a buffer stands for.                        *)
(***************************************************************************)
EXTENDS CBufferSpec, SequenceTheorems, TLAPS

-----------------------------------------------------------------------------
\* A sum of two places of the ring fits an unsigned short and, reduced by one
\* division, is the same as subtracting the size at most once.
LEMMA RingIndex ==
  ASSUME NEW i \in Slot, NEW k \in 0 .. Size
  PROVE  /\ (i + k) % Word = i + k
         /\ (i + k) % Size = Wrap(i + k)
         /\ Wrap(i + k) \in Slot
<1>1. Size \in Nat /\ Size > 0 /\ Word \in Nat /\ 2 * Size <= Word
  BY SizeAssumption, WidthAssumption
<1>2. i \in Int /\ k \in Int /\ 0 <= i /\ i < Size /\ 0 <= k /\ k <= Size
  BY <1>1 DEF Slot
<1>3. i + k < Word
  BY <1>1, <1>2
<1>4. (i + k) % Word = i + k
  BY <1>1, <1>2, <1>3
<1>5. (i + k) % Size = Wrap(i + k)
  <2>1. CASE i + k < Size
    BY <1>1, <1>2, <2>1 DEF Wrap
  <2>2. CASE i + k >= Size
    BY <1>1, <1>2, <2>2 DEF Wrap
  <2>3. QED BY <1>1, <1>2, <2>1, <2>2
<1>6. Wrap(i + k) \in Slot
  BY <1>1, <1>2 DEF Wrap, Slot
<1>7. QED BY <1>4, <1>5, <1>6

\* The slot that holds the k-th byte of the queue, without the modulus.
LEMMA AtIndex ==
  ASSUME NEW b \in Buffers, NEW k \in 0 .. Size
  PROVE  /\ GetAtIndex(b, k) = b.data[Wrap(b.index + k)]
         /\ Wrap(b.index + k) \in Slot
BY RingIndex DEF GetAtIndex, Buffers

\* The queue of a well-formed buffer is a sequence of bytes of that length.
LEMMA ContentType ==
  ASSUME NEW b \in Buffers
  PROVE  Content(b) \in Seq(Byte) /\ Len(Content(b)) = b.length
<1>1. b.length \in Nat /\ b.length <= Size
  BY SizeAssumption DEF Buffers
<1>2. \A k \in 1 .. b.length : GetAtIndex(b, k - 1) \in Byte
  <2> TAKE k \in 1 .. b.length
  <2>1. k - 1 \in 0 .. Size
    BY <1>1, SizeAssumption
  <2>2. GetAtIndex(b, k - 1) = b.data[Wrap(b.index + (k - 1))]
        /\ Wrap(b.index + (k - 1)) \in Slot
    BY <2>1, AtIndex
  <2>3. QED BY <2>2 DEF Buffers
<1>3. QED BY <1>1, <1>2 DEF Content

\* Adding to a buffer with room appends to its queue; to a full one, nothing.
LEMMA AddAppends ==
  ASSUME NEW b \in Buffers, NEW c \in Byte
  PROVE  /\ AddToEnd(b, c) \in Buffers
         /\ HasRoom(b) => Content(AddToEnd(b, c)) = Append(Content(b), c)
         /\ ~HasRoom(b) => AddToEnd(b, c) = b
<1>1. CASE ~HasRoom(b)
  BY <1>1 DEF AddToEnd
<1>2. CASE HasRoom(b)
  <2> DEFINE end == Wrap(b.index + b.length)
             a   == AddToEnd(b, c)
  <2>1. b.length \in Nat /\ b.length < Size /\ b.length \in 0 .. Size
        /\ b.index \in Slot /\ b.data \in [Slot -> Byte] /\ Size \in Nat
    BY <1>2, SizeAssumption DEF Buffers, HasRoom
  <2>2. end \in Slot /\ ((b.index + b.length) % Word) % Size = end
    BY <2>1, RingIndex
  <2>3. a = Buffer([b.data EXCEPT ![end] = c], b.index, b.length + 1)
    BY <1>2, <2>2 DEF AddToEnd
  <2>4. /\ a \in Buffers /\ a.index = b.index /\ a.length = b.length + 1
        /\ a.data = [b.data EXCEPT ![end] = c]
    BY <2>1, <2>2, <2>3 DEF Buffers, Buffer
  <2>5. ASSUME NEW k \in 1 .. b.length + 1
        PROVE  GetAtIndex(a, k - 1) = Append(Content(b), c)[k]
    <3>1. k - 1 \in 0 .. Size
      BY <2>1
    <3>2. /\ GetAtIndex(a, k - 1) = a.data[Wrap(b.index + (k - 1))]
          /\ GetAtIndex(b, k - 1) = b.data[Wrap(b.index + (k - 1))]
          /\ Wrap(b.index + (k - 1)) \in Slot
      BY <2>4, <3>1, AtIndex
    <3>3. Content(b) \in Seq(Byte) /\ Len(Content(b)) = b.length
      BY ContentType
    <3>4. CASE k = b.length + 1
      BY <2>1, <2>2, <2>4, <3>2, <3>3, <3>4
    <3>5. CASE k # b.length + 1
      <4>1. Wrap(b.index + (k - 1)) # end
        BY <2>1, <3>5 DEF Wrap, Slot
      <4>2. GetAtIndex(a, k - 1) = GetAtIndex(b, k - 1)
        BY <2>1, <2>2, <2>4, <3>2, <4>1
      <4>3. k \in 1 .. b.length
        BY <2>1, <3>5
      <4>4. Append(Content(b), c)[k] = Content(b)[k]
        BY <3>3, <4>3
      <4>5. Content(b)[k] = GetAtIndex(b, k - 1)
        BY <4>3 DEF Content
      <4>6. QED BY <4>2, <4>4, <4>5
    <3>6. QED BY <3>4, <3>5
  <2>6. Content(a) = Append(Content(b), c)
    <3>1. Content(b) \in Seq(Byte) /\ Len(Content(b)) = b.length
      BY ContentType
    <3>2. Content(a) \in Seq(Byte) /\ Len(Content(a)) = b.length + 1
      BY <2>4, ContentType
    <3>3. \A k \in 1 .. b.length + 1 : Content(a)[k] = Append(Content(b), c)[k]
      BY <2>4, <2>5 DEF Content
    <3>4. /\ Append(Content(b), c) \in Seq(Byte)
          /\ Len(Append(Content(b), c)) = b.length + 1
      BY <3>1
    <3>5. QED
      <4> HIDE DEF a
      <4>1. QED BY <3>2, <3>3, <3>4, SeqEqual
  <2>7. QED BY <1>2, <2>4, <2>6
<1>3. QED BY <1>1, <1>2

\* Moving the read index on by n, and shortening by n, drops n from the front.
LEMMA AdvanceDrops ==
  ASSUME NEW b \in Buffers, NEW n \in 0 .. b.length
  PROVE  LET d == Buffer(b.data, Wrap((b.index + n) % Word), b.length - n)
         IN  /\ d \in Buffers
             /\ Content(d) = SubSeq(Content(b), n + 1, b.length)
<1> DEFINE i == Wrap(b.index + n)
           d == Buffer(b.data, Wrap((b.index + n) % Word), b.length - n)
           q == SubSeq(Content(b), n + 1, b.length)
<1>1. /\ b.length \in Nat /\ b.length <= Size /\ n \in Nat /\ n <= b.length
      /\ Size \in Nat /\ n \in 0 .. Size /\ b.index \in Slot /\ b.index \in Nat
      /\ b.data \in [Slot -> Byte]
  BY SizeAssumption DEF Buffers, Slot
<1>2. i \in Slot /\ i \in Nat /\ (b.index + n) % Word = b.index + n
  BY <1>1, RingIndex DEF Slot
<1>3. d = Buffer(b.data, i, b.length - n)
  BY <1>2
<1>4. d \in Buffers /\ d.data = b.data /\ d.index = i /\ d.length = b.length - n
  BY <1>1, <1>2, <1>3 DEF Buffers, Buffer
<1> HIDE DEF d
<1>5. Content(b) \in Seq(Byte) /\ Len(Content(b)) = b.length
  BY ContentType
<1>6. Content(d) \in Seq(Byte) /\ Len(Content(d)) = b.length - n
  BY <1>4, ContentType
<1>7. \A m \in n + 1 .. b.length : Content(b)[m] \in Byte
  BY <1>1, <1>5
<1>8. /\ q \in Seq(Byte) /\ Len(q) = b.length - n
      /\ \A k \in 1 .. b.length - n : q[k] = Content(b)[n + k]
  <2>1. n + 1 \in Int /\ b.length \in Int
    BY <1>1
  <2>2. /\ q \in Seq(Byte)
        /\ Len(q) = IF n + 1 <= b.length THEN b.length - (n + 1) + 1 ELSE 0
        /\ \A k \in 1 .. b.length - (n + 1) + 1 :
              q[k] = Content(b)[(n + 1) + k - 1]
    BY <1>7, <2>1, SubSeqProperties
  <2>3. b.length - (n + 1) + 1 = b.length - n
    BY <1>1
  <2>4. ASSUME NEW k \in 1 .. b.length - n PROVE q[k] = Content(b)[n + k]
    <3>1. (n + 1) + k - 1 = n + k
      BY <1>1
    <3>2. QED BY <2>2, <2>3, <3>1
  <2>5. Len(q) = b.length - n
    BY <1>1, <2>2
  <2>6. QED BY <2>2, <2>4, <2>5
<1>9. ASSUME NEW k \in 1 .. b.length - n
      PROVE  Content(d)[k] = Content(b)[n + k]
  <2>1. k - 1 \in 0 .. Size /\ n + k - 1 \in 0 .. Size /\ n + k \in 1 .. b.length
    BY <1>1
  <2>2. GetAtIndex(d, k - 1) = b.data[Wrap(i + (k - 1))]
    BY <1>4, <2>1, AtIndex
  <2>3. GetAtIndex(b, n + k - 1) = b.data[Wrap(b.index + (n + k - 1))]
    BY <2>1, AtIndex
  <2>4. Wrap(i + (k - 1)) = Wrap(b.index + (n + k - 1))
    <3>1. b.index < Size /\ k \in Int /\ n + k <= Size /\ k >= 1
      BY <1>1, <2>1 DEF Slot
    <3>2. CASE b.index + n >= Size
      <4>1. i = b.index + n - Size
        BY <1>1, <3>2 DEF Wrap
      <4>2. i + (k - 1) < Size /\ b.index + (n + k - 1) >= Size
        BY <1>1, <3>1, <3>2, <4>1
      <4>3. QED BY <1>1, <3>1, <4>1, <4>2 DEF Wrap
    <3>3. CASE b.index + n < Size
      <4>1. i = b.index + n
        BY <1>1, <3>3 DEF Wrap
      <4>2. i + (k - 1) = b.index + (n + k - 1)
        BY <1>1, <3>1, <4>1
      <4>3. QED BY <4>2
    <3>4. QED BY <1>1, <3>2, <3>3
  <2>5. Content(d)[k] = GetAtIndex(d, k - 1)
    BY <1>4 DEF Content
  <2>6. Content(b)[n + k] = GetAtIndex(b, n + k - 1)
    BY <2>1 DEF Content
  <2>7. QED BY <2>2, <2>3, <2>4, <2>5, <2>6
<1>10. Content(d) = q
  <2>1. \A k \in 1 .. Len(Content(d)) : Content(d)[k] = q[k]
    BY <1>6, <1>8, <1>9
  <2>2. QED
    <3> HIDE DEF q
    <3>1. QED BY <1>6, <1>8, <2>1, SeqEqual
<1>11. QED BY <1>4, <1>10 DEF d

\* A read takes the head of the queue, and of an empty buffer nothing.
LEMMA GetTakesHead ==
  ASSUME NEW b \in Buffers
  PROVE  /\ GetFromFront(b) \in Buffers
         /\ HasData(b) <=> Content(b) # << >>
         /\ HasData(b) => /\ FrontByte(b) = Head(Content(b))
                          /\ Content(GetFromFront(b)) = Tail(Content(b))
         /\ ~HasData(b) => GetFromFront(b) = b
<1>1. /\ b.length \in Nat /\ b.length <= Size /\ Size \in Nat /\ Size > 0
      /\ b.index \in Slot
      /\ Content(b) \in Seq(Byte) /\ Len(Content(b)) = b.length
  BY SizeAssumption, ContentType DEF Buffers
<1>2. HasData(b) <=> Content(b) # << >>
  BY <1>1, EmptySeq DEF HasData
<1>3. CASE ~HasData(b)
  BY <1>2, <1>3 DEF GetFromFront
<1>4. CASE HasData(b)
  <2>1. 1 \in 0 .. b.length
    BY <1>1, <1>4 DEF HasData
  <2>2. GetFromFront(b) = Buffer(b.data, Wrap((b.index + 1) % Word), b.length - 1)
    BY <1>4 DEF GetFromFront
  <2>3. /\ GetFromFront(b) \in Buffers
        /\ Content(GetFromFront(b)) = SubSeq(Content(b), 1 + 1, b.length)
    BY <2>1, <2>2, AdvanceDrops
  <2>4. Content(GetFromFront(b)) = Tail(Content(b))
    BY <1>1, <1>2, <1>4, <2>3, TailIsSubSeq
  <2>5. FrontByte(b) = Head(Content(b))
    <3>1. Head(Content(b)) = Content(b)[1]
      BY <1>1, <1>2, <1>4
    <3>2. 1 \in 1 .. b.length /\ 0 \in 0 .. Size /\ 1 - 1 = 0
      BY <1>1, <2>1
    <3>3. Content(b)[1] = GetAtIndex(b, 0)
      BY <3>2 DEF Content
    <3>4. GetAtIndex(b, 0) = b.data[Wrap(b.index + 0)]
      BY <3>2, AtIndex
    <3>5. Wrap(b.index + 0) = b.index
      BY <1>1 DEF Wrap, Slot
    <3>6. QED BY <1>4, <3>1, <3>3, <3>4, <3>5 DEF FrontByte
  <2>6. QED BY <1>2, <1>4, <2>3, <2>4, <2>5
<1>5. QED BY <1>3, <1>4

\* A flush leaves the empty queue.
LEMMA FlushEmpties ==
  ASSUME NEW b \in Buffers
  PROVE  Flush(b) \in Buffers /\ Content(Flush(b)) = << >>
<1>1. Flush(b) \in Buffers /\ Flush(b).length = 0
  BY SizeAssumption DEF Flush, Buffer, Buffers
<1>2. QED BY <1>1, ContentType, EmptySeq

\* A dump of n bytes drops the n oldest, or all of them when there are fewer.
LEMMA DumpDrops ==
  ASSUME NEW b \in Buffers, NEW n \in Nat
  PROVE  /\ DumpFromFront(b, n) \in Buffers
         /\ Content(DumpFromFront(b, n)) =
              IF n < b.length THEN SubSeq(Content(b), n + 1, b.length) ELSE << >>
<1>1. b.length \in Nat
  BY SizeAssumption DEF Buffers
<1>2. CASE n < b.length
  <2>1. n \in 0 .. b.length
    BY <1>1, <1>2
  <2>2. DumpFromFront(b, n)
          = Buffer(b.data, Wrap((b.index + n) % Word), b.length - n)
    BY <1>2 DEF DumpFromFront
  <2>3. QED BY <1>2, <2>1, <2>2, AdvanceDrops
<1>3. CASE ~(n < b.length)
  <2>1. DumpFromFront(b, n) = Flush(b)
    BY <1>3 DEF DumpFromFront, Flush
  <2>2. QED BY <1>3, <2>1, FlushEmpties
<1>4. QED BY <1>2, <1>3

-----------------------------------------------------------------------------
\* Every index stays inside the array: BufferTypeOK of CBufferSpec is an invariant.
THEOREM IndexInArray == CallSpec => []BufferTypeOK
<1>1. CallInit => BufferTypeOK
  <2>1. BufferInit \in Buffers
    BY SizeAssumption, ByteAssumption DEF BufferInit, Buffer, Buffers, Slot
  <2>2. QED BY <2>1, ByteAssumption DEF CallInit, BufferTypeOK
<1>2. BufferTypeOK /\ [Call]_callVars => BufferTypeOK'
  <2> SUFFICES ASSUME BufferTypeOK, [Call]_callVars PROVE BufferTypeOK'
    OBVIOUS
  <2>0. buf \in Buffers /\ Size \in Nat /\ Size > 0 /\ Word \in Nat
    BY SizeAssumption DEF BufferTypeOK
  <2>1. CASE bufferAddToEnd
    BY <2>0, <2>1, AddAppends DEF bufferAddToEnd, BufferTypeOK, HasRoom
  <2>2. CASE bufferGetFromFront
    <3>1. FrontByte(buf) \in Byte
      BY <2>0, ByteAssumption DEF FrontByte, Buffers
    <3>2. QED BY <2>0, <2>2, <3>1, GetTakesHead DEF bufferGetFromFront, BufferTypeOK
  <2>3. CASE bufferDumpFromFront
    BY <2>0, <2>3, DumpDrops DEF bufferDumpFromFront, BufferTypeOK
  <2>4. CASE bufferGetAtIndex
    <3>1. PICK i \in 0 .. Size - 1 : ret' = GetAtIndex(buf, i)
      BY <2>4 DEF bufferGetAtIndex
    <3>2. i \in 0 .. Size
      BY <2>0
    <3>3. GetAtIndex(buf, i) \in Byte
      <4>1. /\ GetAtIndex(buf, i) = buf.data[Wrap(buf.index + i)]
            /\ Wrap(buf.index + i) \in Slot
        BY <2>0, <3>2, AtIndex
      <4>2. QED BY <2>0, <4>1 DEF Buffers
    <3>4. QED BY <2>4, <3>1, <3>3 DEF bufferGetAtIndex, BufferTypeOK
  <2>5. CASE bufferFlush
    BY <2>0, <2>5, FlushEmpties DEF bufferFlush, BufferTypeOK
  <2>6. CASE UNCHANGED callVars
    BY <2>6 DEF callVars, BufferTypeOK
  <2>7. QED BY <2>1, <2>2, <2>3, <2>4, <2>5, <2>6 DEF Call
<1>3. QED BY <1>1, <1>2, PTL DEF CallSpec

\* Emptying a queue that has bytes in it is dropping all of them.
LEMMA DropAll ==
  ASSUME Content(buf) \in Seq(Byte), Content(buf) # << >>,
         Content(buf)' = << >>
  PROVE  Queue!Next
<1>1. Len(Content(buf)) \in 1 .. Len(Content(buf))
  BY EmptySeq
<1>2. SubSeq(Content(buf), Len(Content(buf)) + 1, Len(Content(buf))) = << >>
  BY <1>1, SubSeqEmpty
<1>3. QED BY <1>1, <1>2 DEF Queue!Next, Queue!Drop

\* buffer.h's promise: the structure is a bounded queue, first in first out.
THEOREM BufferIsQueue == CallSpec => ImplementsQueue
<1>1. CallInit => Queue!Init
  <2> SUFFICES ASSUME CallInit PROVE Content(buf) = << >>
    BY DEF Queue!Init
  <2>1. buf \in Buffers /\ buf.length = 0
    BY SizeAssumption, ByteAssumption DEF CallInit, BufferInit, Buffer, Buffers, Slot
  <2>2. QED BY <2>1, ContentType, EmptySeq
<1>2. BufferTypeOK /\ [Call]_callVars => [Queue!Next]_(Content(buf))
  <2> SUFFICES ASSUME BufferTypeOK, [Call]_callVars, Content(buf') # Content(buf)
               PROVE  Queue!Next
    OBVIOUS
  <2>0. /\ buf \in Buffers /\ Size \in Nat /\ Word \in Nat
        /\ buf.length \in Nat /\ buf.length <= Size
        /\ Content(buf) \in Seq(Byte) /\ Len(Content(buf)) = buf.length
    BY SizeAssumption, ContentType DEF BufferTypeOK, Buffers
  <2>1. CASE bufferAddToEnd
    <3>1. PICK c \in Byte : buf' = AddToEnd(buf, c)
      BY <2>1 DEF bufferAddToEnd
    <3>2. HasRoom(buf) /\ Content(buf') = Append(Content(buf), c)
      BY <2>0, <3>1, AddAppends
    <3>3. QED BY <2>0, <3>2 DEF Queue!Next, Queue!Put, HasRoom
  <2>2. CASE bufferGetFromFront
    <3>1. HasData(buf) /\ Content(buf') = Tail(Content(buf)) /\ Content(buf) # << >>
      BY <2>0, <2>2, GetTakesHead DEF bufferGetFromFront
    <3>2. Content(buf') = SubSeq(Content(buf), 1 + 1, Len(Content(buf)))
      BY <2>0, <3>1, TailIsSubSeq
    <3>3. 1 \in 1 .. Len(Content(buf))
      BY <2>0, <3>1, EmptySeq
    <3>4. QED BY <3>2, <3>3 DEF Queue!Next, Queue!Drop
  <2>3. CASE bufferDumpFromFront
    <3>1. PICK n \in 0 .. Word - 1 : buf' = DumpFromFront(buf, n)
      BY <2>3 DEF bufferDumpFromFront
    <3>2. n \in Nat
      BY <2>0
    <3>3. CASE n < buf.length
      <4>1. Content(buf') = SubSeq(Content(buf), n + 1, Len(Content(buf)))
        BY <2>0, <3>1, <3>2, <3>3, DumpDrops
      <4>2. n # 0
        BY <2>0, <4>1, SubSeqFull
      <4>3. n \in 1 .. Len(Content(buf))
        BY <2>0, <3>2, <3>3, <4>2
      <4>4. QED BY <4>1, <4>3 DEF Queue!Next, Queue!Drop
    <3>4. CASE ~(n < buf.length)
      BY <2>0, <3>1, <3>2, <3>4, DumpDrops, DropAll
    <3>5. QED BY <3>3, <3>4
  <2>4. CASE bufferGetAtIndex
    BY <2>4 DEF bufferGetAtIndex
  <2>5. CASE bufferFlush
    BY <2>0, <2>5, FlushEmpties, DropAll DEF bufferFlush
  <2>6. CASE UNCHANGED callVars
    BY <2>6 DEF callVars
  <2>7. QED BY <2>1, <2>2, <2>3, <2>4, <2>5, <2>6 DEF Call
<1>3. QED BY <1>1, <1>2, IndexInArray, PTL DEF CallSpec, ImplementsQueue, Queue!Spec

-----------------------------------------------------------------------------
\* ReadsOldest: what bufferGetFromFront returns is the oldest byte, and the rest
\* stays as it was.
THEOREM ReadsTheOldest == CallSpec => ReadsOldest
<1>1. BufferTypeOK => ReadsOldestStep
  BY GetTakesHead DEF BufferTypeOK, ReadsOldestStep, bufferGetFromFront
<1>2. QED BY <1>1, IndexInArray, PTL DEF ReadsOldest

\* AnswersTruly: bufferAddToEnd says TRUE when it has stored the byte, and only
\* then.
THEOREM AnswerIsTrue == CallSpec => AnswersTruly
<1>1. BufferTypeOK => AnswersTrulyStep
  <2> SUFFICES ASSUME BufferTypeOK, bufferAddToEnd
               PROVE  IF stored' THEN \E c \in Byte : Content(buf') = Append(Content(buf), c)
                                 ELSE Content(buf') = Content(buf)
    BY DEF AnswersTrulyStep
  <2>1. PICK c \in Byte : buf' = AddToEnd(buf, c)
    BY DEF bufferAddToEnd
  <2>2. buf \in Buffers /\ stored' = HasRoom(buf)
    BY DEF bufferAddToEnd, BufferTypeOK
  <2>3. QED BY <2>1, <2>2, AddAppends
<1>2. QED BY <1>1, IndexInArray, PTL DEF AnswersTruly
=============================================================================
