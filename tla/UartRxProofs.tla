---------------------------- MODULE UartRxProofs ----------------------------
(***************************************************************************)
(* The receiving half of uart.c, for every buffer size, byte set, word     *)
(* width and number of arrivals: however the interrupt and the foreground  *)
(* interleave, the buffer is a queue between them and no byte that came in *)
(* goes uncounted.                                                         *)
(***************************************************************************)
EXTENDS UartRx, CBufferProofs

-----------------------------------------------------------------------------
\* Division with remainder; q is the quotient.
LEMMA Remainder ==
  ASSUME NEW w \in Nat \ {0}, NEW x \in Int, NEW q \in Int, q = x \div w
  PROVE  x % w = x - w * q /\ x - w * q \in 0 .. w - 1
<1>1. w \in Nat /\ w > 0
  OBVIOUS
<1>2. x - w * q \in 0 .. w - 1
  BY <1>1
<1>3. x % w = x - w * q
  BY <1>1
<1>4. QED BY <1>2, <1>3

LEMMA RemainderUnique ==
  ASSUME NEW w \in Nat \ {0}, NEW q \in Int, NEW r \in 0 .. w - 1
  PROVE  (w * q + r) % w = r
OBVIOUS

\* A counter that is incremented modulo w counts modulo w.
LEMMA CountModulo ==
  ASSUME NEW w \in Nat \ {0}, NEW x \in Int
  PROVE  (x + 1) % w = ((x % w) + 1) % w
<1>1. PICK q \in Int : q = x \div w
  OBVIOUS
<1>2. PICK r \in 0 .. w - 1 : r = x - w * q /\ x % w = r
  BY <1>1, Remainder
<1>3. r \in Int /\ 0 <= r /\ r <= w - 1
  BY <1>2
<1>4. CASE r + 1 <= w - 1
  <2>1. r + 1 \in 0 .. w - 1 /\ x + 1 = w * q + (r + 1)
    BY <1>2, <1>3, <1>4
  <2>2. (w * q + (r + 1)) % w = r + 1
    BY <2>1, RemainderUnique
  <2>3. (w * 0 + (r + 1)) % w = r + 1
    BY <2>1, RemainderUnique
  <2>4. w * 0 + (r + 1) = r + 1
    BY <1>3
  <2>5. QED BY <1>2, <2>1, <2>2, <2>3, <2>4
<1>5. CASE ~(r + 1 <= w - 1)
  <2>1. r + 1 = w /\ 0 \in 0 .. w - 1 /\ q + 1 \in Int
    BY <1>3, <1>5
  <2>2. x + 1 = w * q + w
    BY <1>2, <1>3, <2>1
  <2>3. w * q + w = w * (q + 1) + 0
    OBVIOUS
  <2>4. (w * (q + 1) + 0) % w = 0
    BY <2>1, RemainderUnique
  <2>5. (w * 1 + 0) % w = 0
    BY <2>1, RemainderUnique
  <2>6. w * 1 + 0 = w
    OBVIOUS
  <2>7. QED BY <1>2, <2>1, <2>2, <2>3, <2>4, <2>5, <2>6
<1>6. QED BY <1>4, <1>5

-----------------------------------------------------------------------------
\* The state of uart.c is well-formed, and a check is not outlived by its data:
\* the foreground alone takes bytes out.
Inv == TypeOK /\ CheckedByteIsThere

LEMMA InitInv == Init => Inv /\ FifoOrder /\ EveryByteAccounted
<1> SUFFICES ASSUME Init PROVE Inv /\ FifoOrder /\ EveryByteAccounted
  OBVIOUS
<1>1. Size \in Nat /\ Size > 0 /\ Word \in Nat /\ Word > 0
  BY SizeAssumption, WidthAssumption
<1>2. uartRxBuffer \in Buffers /\ uartRxBuffer.length = 0
  BY <1>1, ByteAssumption DEF Init, BufferInit, Buffer, Buffers, Slot
<1>3. TypeOK
  BY <1>1, <1>2, ArrivalsAssumption DEF Init, TypeOK, Null, Handler
<1>4. CheckedByteIsThere
  BY DEF Init, CheckedByteIsThere
<1>5. Content(uartRxBuffer) = << >>
  BY <1>2, ContentType, EmptySeq
<1>6. FifoOrder
  BY <1>5 DEF Init, FifoOrder
<1>7. EveryByteAccounted
  <2>1. 0 % Word = 0
    BY <1>1
  <2>2. Len(accepted) = 0 /\ arrived = 0 /\ handled = 0 /\ wild = 0
    BY DEF Init
  <2>3. QED BY <2>1, <2>2 DEF Init, EveryByteAccounted
<1>8. QED BY <1>3, <1>4, <1>6, <1>7 DEF Inv

LEMMA NextInv == Inv /\ [Next]_vars => Inv'
<1> SUFFICES ASSUME Inv, [Next]_vars PROVE Inv'
  OBVIOUS
<1>0. /\ TypeOK /\ CheckedByteIsThere /\ uartRxBuffer \in Buffers
      /\ Size \in Nat /\ Size > 0 /\ Word \in Nat /\ Word > 0
  BY SizeAssumption, WidthAssumption DEF Inv, TypeOK
<1>1. CASE SIG_UART_RECV
  <2>1. arrived' \in 0 .. MaxArrivals
    BY <1>0, <1>1, ArrivalsAssumption DEF SIG_UART_RECV, TypeOK
  <2>2. CASE UartRxFunc = Null
    <3>1. PICK c \in Byte :
            /\ uartRxBuffer' = AddToEnd(uartRxBuffer, c)
            /\ accepted' = IF HasRoom(uartRxBuffer) THEN Append(accepted, c)
                                                    ELSE accepted
      BY <1>1, <2>2 DEF SIG_UART_RECV, Null, Handler
    <3>2. uartRxBuffer' \in Buffers /\ accepted' \in Seq(Byte)
      BY <1>0, <3>1, AddAppends DEF TypeOK
    <3>3. uartRxOverflow' \in 0 .. Word - 1
      BY <1>0, <1>1, <2>2 DEF SIG_UART_RECV, CountOne, TypeOK, Null, Handler
    <3>4. HasData(uartRxBuffer) => HasData(uartRxBuffer')
      BY <1>0, <3>1 DEF AddToEnd, HasData, HasRoom, Buffer, Buffers
    <3>5. UNCHANGED <<UartRxFunc, pc, newFunc, consumed, handled, wild>>
      BY <1>1, <2>2 DEF SIG_UART_RECV, Null, Handler
    <3>6. QED BY <1>0, <2>1, <3>2, <3>3, <3>4, <3>5
              DEF Inv, TypeOK, CheckedByteIsThere
  <2>3. CASE UartRxFunc # Null
    BY <1>0, <1>1, <2>1, <2>3 DEF SIG_UART_RECV, Inv, TypeOK, CheckedByteIsThere
  <2>4. QED BY <2>2, <2>3
<1>2. CASE ReceiveCheck
  BY <1>0, <1>2 DEF ReceiveCheck, Inv, TypeOK, CheckedByteIsThere
<1>3. CASE ReceiveGet
  <2>1. FrontByte(uartRxBuffer) \in Byte
    BY <1>0, ByteAssumption DEF FrontByte, Buffers
  <2>2. uartRxBuffer' \in Buffers /\ consumed' \in Seq(Byte)
    BY <1>0, <1>3, <2>1, GetTakesHead DEF ReceiveGet, TypeOK
  <2>3. QED BY <1>0, <1>3, <2>2 DEF ReceiveGet, Inv, TypeOK, CheckedByteIsThere
<1>4. CASE FlushReceiveBuffer
  <2>1. uartRxBuffer' \in Buffers /\ consumed' \in Seq(Byte)
    BY <1>0, <1>4, FlushEmpties, ContentType DEF FlushReceiveBuffer, TypeOK
  <2>2. QED BY <1>0, <1>4, <2>1 DEF FlushReceiveBuffer, Inv, TypeOK, CheckedByteIsThere
<1>5. CASE SetHandlerFirst
  <2>1. PICK f \in {Null, Handler}, half \in {1, 2} :
          newFunc' = f /\ UartRxFunc' = [UartRxFunc EXCEPT ![half] = f[half]]
    BY <1>5 DEF SetHandlerFirst
  <2>2. f[half] \in {0, 1}
    BY <2>1 DEF Null, Handler
  <2>3. UartRxFunc' \in {0, 1} \X {0, 1}
    BY <1>0, <2>1, <2>2 DEF TypeOK
  <2>4. QED BY <1>0, <1>5, <2>1, <2>3 DEF SetHandlerFirst, Inv, TypeOK, CheckedByteIsThere
<1>6. CASE SetHandlerSecond
  BY <1>0, <1>6 DEF SetHandlerSecond, Inv, TypeOK, CheckedByteIsThere, Null, Handler
<1>7. CASE UNCHANGED vars
  BY <1>0, <1>7 DEF vars, Inv, TypeOK, CheckedByteIsThere
<1>8. QED BY <1>1, <1>2, <1>3, <1>4, <1>5, <1>6, <1>7 DEF Next, Foreground

\* TypeOK: every index, counter and pointer half stays in its range.
THEOREM TypeCorrect == Spec => []TypeOK
<1>1. Inv => TypeOK
  BY DEF Inv
<1>2. QED BY <1>1, InitInv, NextInv, PTL DEF Spec

\* CheckedByteIsThere: the byte uartReceiveByte reads after its check is there.
THEOREM CheckedReadIsSafe == Spec => []CheckedByteIsThere
<1>1. Inv => CheckedByteIsThere
  BY DEF Inv
<1>2. QED BY <1>1, InitInv, NextInv, PTL DEF Spec

-----------------------------------------------------------------------------
\* Taking the head of the queue over to the end of what has been consumed.
LEMMA MoveHead ==
  ASSUME NEW S, NEW s \in Seq(S), NEW q \in Seq(S), q # << >>
  PROVE  Append(s, Head(q)) \o Tail(q) = s \o q
<1>1. Head(q) \in S /\ Tail(q) \in Seq(S) /\ <<Head(q)>> \in Seq(S)
  BY HeadTailProperties
<1>2. Append(s, Head(q)) = s \o <<Head(q)>>
  BY <1>1, AppendIsConcat
<1>3. (s \o <<Head(q)>>) \o Tail(q) = s \o (<<Head(q)>> \o Tail(q))
  BY <1>1, ConcatAssociative
<1>4. <<Head(q)>> \o Tail(q) = q
  <2>1. /\ Len(<<Head(q)>>) = 1 /\ <<Head(q)>>[1] = q[1]
        /\ Len(Tail(q)) = Len(q) - 1 /\ Len(q) \in Nat /\ Len(q) > 0
        /\ \A i \in 1 .. Len(Tail(q)) : Tail(q)[i] = q[i + 1]
    BY HeadTailProperties, EmptySeq
  <2>2. /\ <<Head(q)>> \o Tail(q) \in Seq(S)
        /\ Len(<<Head(q)>> \o Tail(q)) = Len(q)
    BY <1>1, <2>1, ConcatProperties
  <2>3. \A i \in 1 .. Len(q) : (<<Head(q)>> \o Tail(q))[i] = q[i]
    BY <1>1, <2>1, ConcatProperties
  <2>4. QED BY <2>2, <2>3, SeqEqual
<1>5. QED BY <1>2, <1>3, <1>4

\* Storing a byte at the end of the queue.
LEMMA MoveIn ==
  ASSUME NEW S, NEW s \in Seq(S), NEW q \in Seq(S), NEW c \in S
  PROVE  s \o Append(q, c) = Append(s \o q, c)
<1>1. <<c>> \in Seq(S) /\ s \o q \in Seq(S)
  BY ConcatProperties
<1>2. Append(q, c) = q \o <<c>> /\ Append(s \o q, c) = (s \o q) \o <<c>>
  BY <1>1, AppendIsConcat
<1>3. QED BY <1>1, <1>2, ConcatAssociative

LEMMA NextFifo == Inv /\ FifoOrder /\ [Next]_vars => FifoOrder'
<1> SUFFICES ASSUME Inv, FifoOrder, [Next]_vars PROVE FifoOrder'
  OBVIOUS
<1> DEFINE q == Content(uartRxBuffer)
<1>0. /\ uartRxBuffer \in Buffers /\ q \in Seq(Byte)
      /\ consumed \in Seq(Byte) /\ accepted \in Seq(Byte)
      /\ consumed \o q = accepted
  BY ContentType DEF Inv, TypeOK, FifoOrder
<1>1. CASE SIG_UART_RECV
  <2>1. CASE UNCHANGED <<uartRxBuffer, accepted>>
    BY <1>1, <2>1 DEF SIG_UART_RECV, FifoOrder
  <2>2. CASE ~UNCHANGED <<uartRxBuffer, accepted>>
    <3>1. PICK c \in Byte :
            /\ uartRxBuffer' = AddToEnd(uartRxBuffer, c)
            /\ accepted' = IF HasRoom(uartRxBuffer) THEN Append(accepted, c)
                                                    ELSE accepted
      BY <1>1, <2>2 DEF SIG_UART_RECV
    <3>2. HasRoom(uartRxBuffer)
      BY <1>0, <2>2, <3>1, AddAppends
    <3>3. Content(uartRxBuffer') = Append(q, c) /\ accepted' = Append(accepted, c)
      BY <1>0, <3>1, <3>2, AddAppends
    <3>4. consumed \o Append(q, c) = Append(consumed \o q, c)
      BY <1>0, MoveIn
    <3>5. QED BY <1>0, <1>1, <3>3, <3>4 DEF SIG_UART_RECV, FifoOrder
  <2>3. QED BY <2>1, <2>2
<1>2. CASE ReceiveCheck
  BY <1>2 DEF ReceiveCheck, FifoOrder
<1>3. CASE ReceiveGet
  <2>1. HasData(uartRxBuffer)
    BY <1>3 DEF ReceiveGet, Inv, CheckedByteIsThere
  <2>2. /\ q # << >>
        /\ FrontByte(uartRxBuffer) = Head(q)
        /\ Content(GetFromFront(uartRxBuffer)) = Tail(q)
    BY <1>0, <2>1, GetTakesHead
  <2>3. Append(consumed, Head(q)) \o Tail(q) = consumed \o q
    BY <1>0, <2>2, MoveHead
  <2>4. QED BY <1>0, <1>3, <2>2, <2>3 DEF ReceiveGet, FifoOrder
<1>4. CASE FlushReceiveBuffer
  <2>1. Content(uartRxBuffer') = << >> /\ consumed' = consumed \o q
    BY <1>0, <1>4, FlushEmpties DEF FlushReceiveBuffer
  <2>2. (consumed \o q) \o << >> = consumed \o q
    BY <1>0, ConcatEmptySeq
  <2>3. QED BY <1>0, <1>4, <2>1, <2>2 DEF FlushReceiveBuffer, FifoOrder
<1>5. CASE SetHandlerFirst
  BY <1>5 DEF SetHandlerFirst, FifoOrder
<1>6. CASE SetHandlerSecond
  BY <1>6 DEF SetHandlerSecond, FifoOrder
<1>7. CASE UNCHANGED vars
  BY <1>7 DEF vars, FifoOrder
<1>8. QED BY <1>1, <1>2, <1>3, <1>4, <1>5, <1>6, <1>7 DEF Next, Foreground

\* FifoOrder: what has left the buffer followed by what is in it is what the
\* interrupt stored, in that order, in every interleaving.
THEOREM ReceivedInOrder == Spec => []FifoOrder
<1>1. QED BY InitInv, NextInv, NextFifo, PTL DEF Spec

-----------------------------------------------------------------------------
LEMMA NextAccounted == Inv /\ EveryByteAccounted /\ [Next]_vars => EveryByteAccounted'
<1> SUFFICES ASSUME Inv, EveryByteAccounted, [Next]_vars PROVE EveryByteAccounted'
  OBVIOUS
<1> DEFINE lost == arrived - Len(accepted) - handled - wild
<1>0. /\ uartRxBuffer \in Buffers /\ accepted \in Seq(Byte)
      /\ Word \in Nat \ {0} /\ lost \in Int /\ lost % Word = uartRxOverflow
      /\ arrived \in Int /\ handled \in Int /\ wild \in Int /\ Len(accepted) \in Int
  BY SizeAssumption, WidthAssumption, ArrivalsAssumption
     DEF Inv, TypeOK, EveryByteAccounted
<1>1. CASE SIG_UART_RECV
  <2>1. CASE UartRxFunc # Null
    <3>1. lost' = lost /\ uartRxOverflow' = uartRxOverflow
      BY <1>0, <1>1, <2>1 DEF SIG_UART_RECV
    <3>2. QED BY <1>0, <3>1 DEF EveryByteAccounted
  <2>2. CASE UartRxFunc = Null /\ HasRoom(uartRxBuffer)
    <3>1. PICK c \in Byte : accepted' = Append(accepted, c)
      BY <1>1, <2>2 DEF SIG_UART_RECV, Null, Handler
    <3>2. Len(accepted') = Len(accepted) + 1
      BY <1>0, <3>1
    <3>3. /\ arrived' = arrived + 1 /\ handled' = handled /\ wild' = wild
          /\ uartRxOverflow' = uartRxOverflow
      BY <1>1, <2>2 DEF SIG_UART_RECV, Null, Handler
    <3>4. lost' = lost
      BY <1>0, <3>2, <3>3
    <3>5. QED BY <1>0, <3>3, <3>4 DEF EveryByteAccounted
  <2>3. CASE UartRxFunc = Null /\ ~HasRoom(uartRxBuffer)
    <3>1. /\ arrived' = arrived + 1 /\ handled' = handled /\ wild' = wild
          /\ accepted' = accepted /\ uartRxOverflow' = (uartRxOverflow + 1) % Word
      BY <1>1, <2>3 DEF SIG_UART_RECV, CountOne, Null, Handler
    <3>2. lost' = lost + 1
      BY <1>0, <3>1
    <3>3. (lost + 1) % Word = ((lost % Word) + 1) % Word
      BY <1>0, CountModulo
    <3>4. QED BY <1>0, <3>1, <3>2, <3>3 DEF EveryByteAccounted
  <2>4. QED BY <2>1, <2>2, <2>3
<1>2. CASE Foreground \/ UNCHANGED vars
  BY <1>2 DEF Foreground, ReceiveCheck, ReceiveGet, FlushReceiveBuffer,
              SetHandlerFirst, SetHandlerSecond, vars, EveryByteAccounted
<1>3. QED BY <1>1, <1>2 DEF Next

\* EveryByteAccounted: the overflow counter misses no byte, up to its width.
THEOREM OverflowCounts == Spec => []EveryByteAccounted
<1>1. QED BY InitInv, NextInv, NextAccounted, PTL DEF Spec
=============================================================================
