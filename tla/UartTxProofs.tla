---------------------------- MODULE UartTxProofs ----------------------------
(***************************************************************************)
(* The transmitting half of uart.c, for every buffer size and any number   *)
(* of calls: uartReadyTx is a baton that is never lost and never doubled,  *)
(* and, when the program waits for the line before it starts the buffer,   *)
(* every byte reaches the line once and in order.                          *)
(***************************************************************************)
EXTENDS UartTx, CBufferProofs

\* The baton, on well-formed state: FrontByte must be a byte, never Idle.
Inv == TypeOK /\ ReadyIsBaton /\ NoOverrun

-----------------------------------------------------------------------------
LEMMA InitInv == Init => Inv
<1> SUFFICES ASSUME Init PROVE Inv
  OBVIOUS
<1>1. BufferInit \in Buffers
  BY SizeAssumption, ByteAssumption DEF BufferInit, Buffer, Buffers, Slot
<1>2. Nul \in Byte /\ << >> \in Seq(Byte)
  BY ByteAssumption DEF Nul
<1>3. sends \in 0 .. MaxSends /\ adds \in 0 .. MaxAdds /\ starts \in 0 .. MaxStarts
  BY TransmitAssumption DEF Init
<1>4. TypeOK
  BY <1>1, <1>2, <1>3 DEF Init, TypeOK
<1>5. QED BY <1>4 DEF Init, Inv, ReadyIsBaton, NoOverrun

\* Writing to an idle transmitter overwrites nothing and leaves it busy.
LEMMA WriteWhenIdle ==
  ASSUME Inv, shift = Idle, NEW c \in Byte, Write(c)
  PROVE  shift' \in Byte /\ shift' # Idle /\ wire' \in Seq(Byte) /\ overrun' = FALSE
BY TransmitAssumption DEF Inv, TypeOK, NoOverrun, Write

LEMMA NextInv == Inv /\ [Next]_vars => Inv'
<1> SUFFICES ASSUME Inv, [Next]_vars PROVE Inv'
  OBVIOUS
<1> USE DEF ReadyIsBaton, NoOverrun
<1>0. /\ TypeOK /\ ReadyIsBaton /\ NoOverrun /\ uartTxBuffer \in Buffers
      /\ FrontByte(uartTxBuffer) \in Byte /\ GetFromFront(uartTxBuffer) \in Buffers
      /\ sends \in Nat /\ adds \in Nat /\ starts \in Nat
      /\ MaxSends \in Nat /\ MaxAdds \in Nat /\ MaxStarts \in Nat
  BY ByteAssumption, TransmitAssumption, GetTakesHead
     DEF Inv, TypeOK, FrontByte, Buffers
<1>1. CASE CallSendByte
  <2>1. sends' \in 0 .. MaxSends /\ txData' \in Byte
    BY <1>0, <1>1, TransmitAssumption DEF CallSendByte
  <2>2. QED BY <1>0, <1>1, <2>1 DEF CallSendByte, Inv, TypeOK
<1>2. CASE SendWhenReady
  <2>1. shift = Idle /\ ~txc /\ Write(txData) /\ txData \in Byte
    BY <1>0, <1>2 DEF SendWhenReady, TypeOK
  <2>2. shift' \in Byte /\ shift' # Idle /\ wire' \in Seq(Byte) /\ overrun' = FALSE
    BY <2>1, WriteWhenIdle
  <2>3. QED BY <1>0, <1>2, <2>1, <2>2 DEF SendWhenReady, Inv, TypeOK
<1>3. CASE AddToTxBuffer
  <2>1. adds' \in 0 .. MaxAdds /\ <<"b", adds + 1>> \in Byte
    BY <1>0, <1>3, TransmitAssumption DEF AddToTxBuffer
  <2>2. uartTxBuffer' \in Buffers
    BY <1>0, <1>3, <2>1, AddAppends DEF AddToTxBuffer
  <2>3. QED BY <1>0, <1>3, <2>1, <2>2 DEF AddToTxBuffer, Inv, TypeOK
<1>4. CASE StartTxBuffer
  BY <1>0, <1>4 DEF StartTxBuffer, Inv, TypeOK
<1>5. CASE PopFirst
  BY <1>0, <1>5 DEF PopFirst, Inv, TypeOK
<1>6. CASE CharacterSent
  BY <1>0, <1>6 DEF CharacterSent, Inv, TypeOK
<1>7. CASE SIG_UART_TRANS
  <2>1. shift = Idle /\ ~uartReadyTx
    BY <1>0, <1>7 DEF SIG_UART_TRANS
  <2>2. CASE uartBufferedTx /\ HasData(uartTxBuffer)
    <3>1. /\ Write(FrontByte(uartTxBuffer))
          /\ uartTxBuffer' = GetFromFront(uartTxBuffer)
          /\ UNCHANGED <<uartReadyTx, uartBufferedTx>>
      BY <1>7, <2>2 DEF SIG_UART_TRANS
    <3>2. shift' \in Byte /\ shift' # Idle /\ wire' \in Seq(Byte) /\ overrun' = FALSE
      BY <1>0, <2>1, <3>1, WriteWhenIdle
    <3>3. QED BY <1>0, <1>7, <2>1, <3>1, <3>2 DEF SIG_UART_TRANS, Inv, TypeOK
  <2>3. CASE ~(uartBufferedTx /\ HasData(uartTxBuffer))
    BY <1>0, <1>7, <2>1, <2>3 DEF SIG_UART_TRANS, TransmitterReady, Inv, TypeOK
  <2>4. QED BY <2>2, <2>3
<1>8. CASE UNCHANGED vars
  BY <1>0, <1>8 DEF vars, Inv, TypeOK
<1>9. QED BY <1>1, <1>2, <1>3, <1>4, <1>5, <1>6, <1>7, <1>8 DEF Next, Foreground

\* TypeOK: the indices stay inside the buffer, and what is shifted out is always a
\* byte that somebody has given.
THEOREM TypeCorrect == Spec => []TypeOK
<1>1. Inv => TypeOK
  BY DEF Inv
<1>2. QED BY <1>1, InitInv, NextInv, PTL DEF Spec

\* ReadyIsBaton: nobody waits for an idle transmitter or writes to a busy one.
THEOREM Baton == Spec => []ReadyIsBaton
<1>1. Inv => ReadyIsBaton
  BY DEF Inv
<1>2. QED BY <1>1, InitInv, NextInv, PTL DEF Spec

\* NoOverrun: no byte is written over one that is still on its way out, whether
\* or not the program waits with uartSendTxBuffer for the line to be idle.
THEOREM NothingOverwritten == Spec => []NoOverrun
<1>1. Inv => NoOverrun
  BY DEF Inv
<1>2. QED BY <1>1, InitInv, NextInv, PTL DEF Spec

-----------------------------------------------------------------------------
(***************************************************************************)
(* The order on the line.  What was handed over is on the wire, except the *)
(* byte that uartSendByte is waiting to write; the buffer holds what was   *)
(* added last.                                                             *)
(***************************************************************************)
Queued == Content(uartTxBuffer)
Taken  == adds - Len(Queued)        \* bytes that have left the buffer
Waits(source, n) == n >= 1 /\ pc = "wait" /\ txData = <<source, n>>

\* Of one source, the first k bytes are on the wire and no other.
Wired(w, source, max, k) ==
  /\ k \in 0 .. max
  /\ \A m \in 1 .. max : (\E j \in 1 .. Len(w) : w[j] = <<source, m>>) <=> m <= k

SentS == IF Waits("s", sends) THEN sends - 1 ELSE sends
SentB == IF Waits("b", Taken) THEN Taken - 1 ELSE Taken

QueueInv ==
  /\ Len(Queued) <= adds
  /\ \A i \in 1 .. Len(Queued) : Queued[i] = <<"b", Taken + i>>

\* The first byte of the buffer goes before the interrupt can take the second.
HeldInv ==
  /\ pc = "pop" => uartReadyTx
  /\ pc = "wait" => \/ txData = Nul
                    \/ sends >= 1 /\ txData = <<"s", sends>>
                    \/ Taken >= 1 /\ txData = <<"b", Taken>> /\ uartReadyTx

OrderInv == /\ QueueInv /\ HeldInv /\ LineInOrder
            /\ Wired(wire, "s", MaxSends, SentS) /\ Wired(wire, "b", MaxAdds, SentB)

LEMMA OrderInit == Init => OrderInv
<1> SUFFICES ASSUME Init PROVE OrderInv
  OBVIOUS
<1>1. BufferInit \in Buffers /\ BufferInit.length = 0
  BY SizeAssumption, ByteAssumption DEF BufferInit, Buffer, Buffers, Slot
<1>2. Len(Queued) = 0 /\ Taken = 0
  BY <1>1, ContentType DEF Init, Queued, Taken
<1>3. QueueInv /\ HeldInv
  BY <1>2 DEF Init, QueueInv, HeldInv
<1>4. Len(wire) = 0 /\ SentS = 0 /\ SentB = 0
  BY <1>2 DEF Init, SentS, SentB, Waits
<1>5. QED BY <1>3, <1>4, TransmitAssumption DEF OrderInv, LineInOrder, InOrder, Wired

\* The line after a byte was written.
LEMMA LineGrows ==
  ASSUME wire \in Seq(Byte), NEW c \in Byte, Write(c)
  PROVE  /\ Len(wire) \in Nat /\ Len(wire') = Len(wire) + 1 /\ wire'[Len(wire) + 1] = c
         /\ \A i \in 1 .. Len(wire) : wire'[i] = wire[i]
         /\ \A x : (\E j \in 1 .. Len(wire') : wire'[j] = x)
                     <=> (\E j \in 1 .. Len(wire) : wire[j] = x) \/ c = x
<1>1. /\ Len(wire) \in Nat /\ Len(wire') = Len(wire) + 1 /\ wire'[Len(wire) + 1] = c
      /\ \A i \in 1 .. Len(wire) : wire'[i] = wire[i]
  BY DEF Write
<1> DEFINE n == Len(wire)
<1> DEFINE N == 1 .. Len(wire')
<1>2. N = (1 .. n) \cup {n + 1} /\ wire'[n + 1] = c
  BY <1>1
<1>3. \A i \in 1 .. n : wire'[i] = wire[i]
  BY <1>1
<1> HIDE DEF n, N
<1>4. \A x : (\E j \in N : wire'[j] = x) <=> (\E j \in 1 .. n : wire[j] = x) \/ c = x
  BY <1>2, <1>3, Zenon
<1>5. QED BY <1>1, <1>4 DEF n, N

\* What was in order stays in order if the last byte is.
LEMMA LastInOrder ==
  ASSUME wire \in Seq(Byte), NEW c \in Byte, Write(c),
         NEW source, NEW max \in Nat, InOrder(source, max),
         \A n \in 1 .. max : c = <<source, n>> =>
           \A m \in 1 .. max : (\E j \in 1 .. Len(wire) : wire[j] = <<source, m>>) <=> m < n
  PROVE  InOrder(source, max)'
<1> SUFFICES ASSUME NEW i \in 1 .. Len(wire'), NEW n \in 1 .. max, wire'[i] = <<source, n>>,
                    NEW m \in 1 .. max
             PROVE  (\E j \in 1 .. i - 1 : wire'[j] = <<source, m>>) <=> m < n
  BY DEF InOrder
<1>1. /\ Len(wire) \in Nat /\ Len(wire') = Len(wire) + 1 /\ wire'[Len(wire) + 1] = c
      /\ \A k \in 1 .. Len(wire) : wire'[k] = wire[k]
  BY LineGrows
<1>2. \A j \in 1 .. i - 1 : wire'[j] = wire[j]
  BY <1>1
<1>3. (\E j \in 1 .. i - 1 : wire'[j] = <<source, m>>)
        <=> \E j \in 1 .. i - 1 : wire[j] = <<source, m>>
  BY <1>2, Zenon
<1>4. CASE i = Len(wire) + 1
  <2>1. i - 1 = Len(wire)
    BY <1>1, <1>4
  <2>2. c = <<source, n>>
    BY <1>1, <1>4, Zenon
  <2>3. QED BY <1>3, <2>1, <2>2
<1>5. CASE i # Len(wire) + 1
  <2>1. i \in 1 .. Len(wire)
    BY <1>1, <1>5
  <2>2. wire[i] = <<source, n>>
    BY <1>1, <2>1
  <2>3. QED BY <1>3, <2>1, <2>2 DEF InOrder
<1>6. QED BY <1>4, <1>5

\* What is written to UDR is the next byte of its source, or of another.
LEMMA WriteNext ==
  ASSUME wire \in Seq(Byte), NEW c \in Byte, Write(c),
         NEW source, NEW max \in Nat, NEW k, Wired(wire, source, max, k), InOrder(source, max),
         k + 1 <= max, c = <<source, k + 1>>
  PROVE  Wired(wire', source, max, k + 1) /\ InOrder(source, max)'
<1>1. k \in Nat /\ \A m : <<source, m>> = c <=> m = k + 1
  BY DEF Wired
<1>2. ASSUME NEW m \in 1 .. max
      PROVE  (\E j \in 1 .. Len(wire') : wire'[j] = <<source, m>>) <=> m <= k + 1
  <2>1. (\E j \in 1 .. Len(wire') : wire'[j] = <<source, m>>)
          <=> (\E j \in 1 .. Len(wire) : wire[j] = <<source, m>>) \/ m = k + 1
    BY <1>1, LineGrows
  <2>2. (\E j \in 1 .. Len(wire) : wire[j] = <<source, m>>) <=> m <= k
    BY DEF Wired
  <2>3. m <= k + 1 <=> m <= k \/ m = k + 1
    BY <1>1
  <2>4. QED BY <2>1, <2>2, <2>3
<1>3. Wired(wire', source, max, k + 1)
  <2>1. k + 1 \in 0 .. max
    BY <1>1
  <2>2. QED BY <1>2, <2>1, Zenon DEF Wired
<1>4. ASSUME NEW n \in 1 .. max, c = <<source, n>>, NEW m \in 1 .. max
      PROVE  (\E j \in 1 .. Len(wire) : wire[j] = <<source, m>>) <=> m < n
  <2>1. (\E j \in 1 .. Len(wire) : wire[j] = <<source, m>>) <=> m <= k
    BY DEF Wired
  <2>2. n = k + 1
    BY <1>1, <1>4
  <2>3. m <= k <=> m < n
    BY <1>1, <2>2
  <2>4. QED BY <2>1, <2>3
<1>5. InOrder(source, max)'
  BY <1>4, LastInOrder
<1>6. QED BY <1>3, <1>5

LEMMA WriteOther ==
  ASSUME wire \in Seq(Byte), NEW c \in Byte, Write(c),
         NEW source, NEW max \in Nat, NEW k, Wired(wire, source, max, k), InOrder(source, max),
         \A n \in 1 .. max : c # <<source, n>>
  PROVE  Wired(wire', source, max, k) /\ InOrder(source, max)'
<1>1. ASSUME NEW m \in 1 .. max
      PROVE  (\E j \in 1 .. Len(wire') : wire'[j] = <<source, m>>)
               <=> \E j \in 1 .. Len(wire) : wire[j] = <<source, m>>
  BY LineGrows
<1>2. Wired(wire', source, max, k)
  BY <1>1, Zenon DEF Wired
<1>3. InOrder(source, max)'
  BY LastInOrder
<1>4. QED BY <1>2, <1>3

\* Taking a byte out of the buffer.
LEMMA TakeFirst ==
  ASSUME Inv, QueueInv, UNCHANGED adds, uartTxBuffer' = GetFromFront(uartTxBuffer)
  PROVE  /\ QueueInv' /\ Taken \in Nat
         /\ HasData(uartTxBuffer) => /\ Taken' = Taken + 1 /\ Taken + 1 <= adds
                                     /\ FrontByte(uartTxBuffer) = <<"b", Taken + 1>>
         /\ ~HasData(uartTxBuffer) => /\ Taken' = Taken /\ FrontByte(uartTxBuffer) = Nul
<1>1. uartTxBuffer \in Buffers /\ adds \in Nat /\ Queued \in Seq(Byte)
  BY TransmitAssumption, ContentType DEF Inv, TypeOK, Queued
<1>2. Len(Queued) \in Nat /\ Taken \in Nat /\ Len(Queued) <= adds
  BY <1>1 DEF Taken, QueueInv
<1>3. CASE HasData(uartTxBuffer)
  <2>1. Queued' = Tail(Queued) /\ Queued # << >> /\ FrontByte(uartTxBuffer) = Head(Queued)
    BY <1>1, <1>3, GetTakesHead DEF Queued
  <2>2. /\ Len(Queued') = Len(Queued) - 1 /\ Len(Queued) >= 1 /\ Head(Queued) = Queued[1]
        /\ \A i \in 1 .. Len(Queued') : Queued'[i] = Queued[i + 1]
    BY <1>1, <2>1, EmptySeq
  <2>3. Taken' = Taken + 1 /\ Taken + 1 <= adds
    BY <1>1, <1>2, <2>2 DEF Taken
  <2>4. Queued[1] = <<"b", Taken + 1>>
    BY <1>2, <2>2 DEF QueueInv
  <2>5. \A i \in 1 .. Len(Queued') : Queued'[i] = <<"b", Taken' + i>>
    <3> SUFFICES ASSUME NEW i \in 1 .. Len(Queued') PROVE Queued'[i] = <<"b", Taken' + i>>
      OBVIOUS
    <3>1. Queued'[i] = Queued[i + 1] /\ i + 1 \in 1 .. Len(Queued)
      BY <1>2, <2>2
    <3>2. Queued[i + 1] = <<"b", Taken + (i + 1)>>
      BY <3>1 DEF QueueInv
    <3>3. Taken + (i + 1) = Taken' + i
      BY <1>2, <2>2, <2>3
    <3>4. QED BY <3>1, <3>2, <3>3
  <2>6. QueueInv'
    BY <1>1, <1>2, <2>2, <2>5 DEF QueueInv
  <2>7. QED BY <1>2, <1>3, <2>1, <2>2, <2>3, <2>4, <2>6
<1>4. CASE ~HasData(uartTxBuffer)
  <2>1. UNCHANGED <<uartTxBuffer, adds>>
    BY <1>1, <1>4, GetTakesHead
  <2>2. QED BY <1>2, <1>4, <2>1 DEF QueueInv, Queued, Taken, FrontByte, Nul
<1>5. QED BY <1>3, <1>4

LEMMA LineSame == LineInOrder /\ UNCHANGED wire => LineInOrder'
<1> SUFFICES ASSUME wire' = wire, NEW source, NEW max, InOrder(source, max)
             PROVE  InOrder(source, max)'
  BY DEF LineInOrder
<1>1. Len(wire') = Len(wire) /\ \A j : wire'[j] = wire[j]
  OBVIOUS
<1> SUFFICES ASSUME NEW i \in 1 .. Len(wire'), NEW n \in 1 .. max, wire'[i] = <<source, n>>,
                    NEW m \in 1 .. max
             PROVE  (\E j \in 1 .. i - 1 : wire'[j] = <<source, m>>) <=> m < n
  BY DEF InOrder
<1>2. QED BY <1>1 DEF InOrder

\* Where nothing is written and the buffer is left alone.
LEMMA Aside ==
  ASSUME Inv, OrderInv, UNCHANGED <<uartTxBuffer, adds, wire>>,
         sends' \in Nat, pc' \in {"idle", "wait", "pop"}, HeldInv',
         SentS' = SentS, SentB' = SentB
  PROVE  OrderInv'
<1>1. QueueInv'
  BY DEF OrderInv, QueueInv, Queued, Taken
<1>2. LineInOrder'
  BY LineSame DEF OrderInv
<1>3. Wired(wire', "s", MaxSends, SentS') /\ Wired(wire', "b", MaxAdds, SentB')
  BY DEF OrderInv
<1>4. QED BY <1>1, <1>2, <1>3 DEF OrderInv

LEMMA TypeFacts ==
  ASSUME Inv
  PROVE  /\ wire \in Seq(Byte) /\ uartTxBuffer \in Buffers
         /\ sends \in Nat /\ sends <= MaxSends /\ MaxSends \in Nat
         /\ adds \in Nat /\ adds <= MaxAdds /\ MaxAdds \in Nat
         /\ Queued \in Seq(Byte) /\ Len(Queued) \in Nat /\ Taken \in Int
BY TransmitAssumption, ContentType DEF Inv, TypeOK, Queued, Taken

\* Names of bytes: a byte of one source is not of the other, and nobody's is Nul.
LEMMA Names ==
  /\ \A n \in 1 .. MaxSends : <<"s", n>> \in Byte /\ <<"s", n>> # Nul
  /\ \A n \in 1 .. MaxAdds : <<"b", n>> \in Byte /\ <<"b", n>> # Nul
  /\ \A m, n : <<"s", m>> # <<"b", n>>
BY TransmitAssumption

LEMMA OrderNext ==
  ASSUME OnlyWhenIdle, Inv, OrderInv, [Next]_vars PROVE OrderInv'
<1>1. CASE CallSendByte
  <2>1. /\ UNCHANGED <<uartTxBuffer, adds, wire>> /\ pc = "idle" /\ pc' = "wait"
        /\ sends' = sends + 1 /\ txData' = <<"s", sends + 1>> /\ sends \in Nat
    BY <1>1, TypeFacts DEF CallSendByte
  <2>2. SentS = sends /\ SentS' = sends
    BY <2>1 DEF SentS, Waits
  <2>3. Taken' = Taken /\ SentB = Taken /\ SentB' = Taken
    BY <2>1 DEF SentB, Waits, Taken, Queued
  <2>4. HeldInv'
    BY <2>1 DEF HeldInv
  <2>5. QED BY <2>1, <2>2, <2>3, <2>4, Aside
<1>2. CASE StartTxBuffer
  <2>1. /\ UNCHANGED <<uartTxBuffer, adds, wire, sends>> /\ pc = "idle" /\ pc' = "pop"
        /\ uartReadyTx' /\ sends \in Nat
    BY <1>2, TypeFacts DEF StartTxBuffer
  <2>2. Taken' = Taken /\ SentB' = SentB /\ SentS' = SentS
    BY <2>1 DEF SentS, SentB, Waits, Taken, Queued
  <2>3. HeldInv'
    BY <2>1 DEF HeldInv
  <2>4. QED BY <2>1, <2>2, <2>3, Aside
<1>3. CASE CharacterSent \/ UNCHANGED vars
  <2>1. UNCHANGED <<uartTxBuffer, adds, wire, sends, pc, txData, uartReadyTx>> /\ sends \in Nat
    BY <1>3, TypeFacts DEF CharacterSent, vars
  <2>2. Taken' = Taken /\ SentB' = SentB /\ SentS' = SentS
    BY <2>1 DEF SentS, SentB, Waits, Taken, Queued
  <2>3. HeldInv'
    BY <2>1, <2>2 DEF OrderInv, HeldInv
  <2>4. pc \in {"idle", "wait", "pop"}
    BY DEF Inv, TypeOK
  <2>5. QED BY <2>1, <2>2, <2>3, <2>4, Aside
<1>4. CASE AddToTxBuffer
  <2>1. /\ UNCHANGED <<wire, sends, pc, txData>> /\ pc = "idle" /\ adds' = adds + 1
        /\ adds + 1 \in 1 .. MaxAdds /\ HasRoom(uartTxBuffer)
        /\ uartTxBuffer' = AddToEnd(uartTxBuffer, <<"b", adds + 1>>)
    BY <1>4, TypeFacts DEF AddToTxBuffer
  <2>2. Queued' = Append(Queued, <<"b", adds + 1>>)
    BY <2>1, Names, TypeFacts, AddAppends DEF Queued
  <2>3. /\ Len(Queued') = Len(Queued) + 1 /\ Queued'[Len(Queued) + 1] = <<"b", adds + 1>>
        /\ \A i \in 1 .. Len(Queued) : Queued'[i] = Queued[i]
    BY <2>2, TypeFacts
  <2>4. Taken' = Taken /\ Len(Queued) <= adds
    BY <2>1, <2>3, TypeFacts DEF Taken, OrderInv, QueueInv
  <2>5. QueueInv'
    <3>1. ASSUME NEW i \in 1 .. Len(Queued') PROVE Queued'[i] = <<"b", Taken' + i>>
      <4>1. CASE i = Len(Queued) + 1
        <5>1. Taken + i = adds + 1
          BY <4>1, TypeFacts DEF Taken
        <5>2. QED BY <2>3, <2>4, <4>1, <5>1
      <4>2. CASE i # Len(Queued) + 1
        <5>1. i \in 1 .. Len(Queued)
          BY <2>3, <4>2, TypeFacts
        <5>2. QED BY <2>3, <2>4, <5>1 DEF OrderInv, QueueInv
      <4>3. QED BY <4>1, <4>2
    <3>2. Len(Queued') <= adds'
      BY <2>1, <2>3, <2>4, TypeFacts
    <3>3. QED BY <3>1, <3>2 DEF QueueInv
  <2>6. HeldInv'
    BY <2>1 DEF HeldInv
  <2>7. SentS' = SentS /\ SentB' = SentB
    BY <2>1, <2>4 DEF SentS, SentB, Waits
  <2>8. LineInOrder'
    BY <2>1, LineSame DEF OrderInv
  <2>9. QED BY <2>1, <2>5, <2>6, <2>7, <2>8 DEF OrderInv
<1>5. CASE PopFirst
  <2>1. /\ UNCHANGED <<wire, sends, adds, uartReadyTx>> /\ pc = "pop" /\ pc' = "wait"
        /\ txData' = FrontByte(uartTxBuffer) /\ uartTxBuffer' = GetFromFront(uartTxBuffer)
        /\ uartReadyTx
    BY <1>5 DEF PopFirst, OrderInv, HeldInv
  <2>2. /\ QueueInv' /\ Taken \in Nat
        /\ \/ Taken' = Taken + 1 /\ Taken + 1 \in 1 .. MaxAdds /\ txData' = <<"b", Taken + 1>>
           \/ Taken' = Taken /\ txData' = Nul
    BY <2>1, TakeFirst, TypeFacts DEF OrderInv
  <2>3. HeldInv'
    BY <2>1, <2>2 DEF HeldInv
  <2>4. SentS = sends /\ SentB = Taken /\ Taken <= MaxAdds
    BY <2>1, TypeFacts DEF SentS, SentB, Waits, Taken, OrderInv, QueueInv
  <2>5. SentS' = sends
    <3>1. txData' # <<"s", sends>> \/ sends = 0
      BY <2>2, Names, TypeFacts
    <3>2. QED BY <2>1, <3>1, TypeFacts DEF SentS, Waits
  <2>6. SentB' = Taken
    <3>1. CASE txData' = <<"b", Taken + 1>> /\ Taken' = Taken + 1
      BY <2>1, <2>2, <3>1 DEF SentB, Waits
    <3>2. CASE txData' = Nul /\ Taken' = Taken
      BY <2>1, <2>2, <2>4, <3>2, Names DEF SentB, Waits
    <3>3. QED BY <2>2, <3>1, <3>2
  <2>7. LineInOrder'
    BY <2>1, LineSame DEF OrderInv
  <2>8. QED BY <2>1, <2>2, <2>3, <2>4, <2>5, <2>6, <2>7 DEF OrderInv
<1>6. CASE SendWhenReady
  <2>1. /\ UNCHANGED <<uartTxBuffer, sends, adds>> /\ pc = "wait" /\ pc' = "idle"
        /\ Write(txData) /\ txData \in Byte
    BY <1>6 DEF SendWhenReady, Inv, TypeOK
  <2>2. UNCHANGED <<Queued, Taken>> /\ QueueInv' /\ HeldInv'
    BY <2>1 DEF OrderInv, QueueInv, HeldInv, Queued, Taken
  <2>3. SentS' = sends /\ SentB' = Taken
    BY <2>1, <2>2 DEF SentS, SentB, Waits
  <2>4. Taken <= MaxAdds
    BY TypeFacts DEF OrderInv, QueueInv, Taken
  <2>5. CASE txData = Nul
    <3>1. SentS = sends /\ SentB = Taken
      BY <2>4, <2>5, Names, TypeFacts DEF SentS, SentB, Waits
    <3>2. /\ Wired(wire', "s", MaxSends, sends) /\ InOrder("s", MaxSends)'
          /\ Wired(wire', "b", MaxAdds, Taken) /\ InOrder("b", MaxAdds)'
      BY <2>1, <2>5, <3>1, Names, TypeFacts, WriteOther DEF OrderInv, LineInOrder
    <3>3. QED BY <2>2, <2>3, <3>2 DEF OrderInv, LineInOrder
  <2>6. CASE sends >= 1 /\ txData = <<"s", sends>>
    <3>1. SentS = sends - 1 /\ SentB = Taken
      BY <2>1, <2>6, Names DEF SentS, SentB, Waits
    <3>2. Wired(wire', "s", MaxSends, sends) /\ InOrder("s", MaxSends)'
      <4>1. (sends - 1) + 1 = sends
        BY TypeFacts
      <4>2. QED BY <2>1, <2>6, <3>1, <4>1, TypeFacts, WriteNext DEF OrderInv, LineInOrder
    <3>3. Wired(wire', "b", MaxAdds, Taken) /\ InOrder("b", MaxAdds)'
      BY <2>1, <2>6, <3>1, Names, TypeFacts, WriteOther DEF OrderInv, LineInOrder
    <3>4. QED BY <2>2, <2>3, <3>2, <3>3 DEF OrderInv, LineInOrder
  <2>7. CASE Taken >= 1 /\ txData = <<"b", Taken>>
    <3>1. SentS = sends /\ SentB = Taken - 1
      BY <2>1, <2>7, Names DEF SentS, SentB, Waits
    <3>2. Wired(wire', "b", MaxAdds, Taken) /\ InOrder("b", MaxAdds)'
      <4>1. (Taken - 1) + 1 = Taken
        BY TypeFacts
      <4>2. QED BY <2>1, <2>4, <2>7, <3>1, <4>1, TypeFacts, WriteNext DEF OrderInv, LineInOrder
    <3>3. Wired(wire', "s", MaxSends, sends) /\ InOrder("s", MaxSends)'
      BY <2>1, <2>7, <3>1, Names, TypeFacts, WriteOther DEF OrderInv, LineInOrder
    <3>4. QED BY <2>2, <2>3, <3>2, <3>3 DEF OrderInv, LineInOrder
  <2>8. QED BY <2>1, <2>5, <2>6, <2>7 DEF OrderInv, HeldInv
<1>7. CASE SIG_UART_TRANS
  <2>1. UNCHANGED <<pc, txData, sends, adds>> /\ ~uartReadyTx
    BY <1>7 DEF SIG_UART_TRANS, Inv, ReadyIsBaton
  <2>2. pc # "pop" /\ (pc = "wait" => txData = Nul \/ (sends >= 1 /\ txData = <<"s", sends>>))
    BY <2>1 DEF OrderInv, HeldInv
  <2>3. ASSUME NEW n \in 1 .. MaxAdds PROVE ~Waits("b", n)
    BY <2>2, Names DEF Waits
  <2>4. SentS' = SentS
    BY <2>1 DEF SentS, Waits
  <2>5. Taken <= MaxAdds /\ SentB = Taken
    BY <2>3, TypeFacts DEF OrderInv, QueueInv, Taken, SentB, Waits
  <2>6. CASE uartBufferedTx /\ HasData(uartTxBuffer)
    <3>1. /\ Write(FrontByte(uartTxBuffer)) /\ uartTxBuffer' = GetFromFront(uartTxBuffer)
          /\ UNCHANGED uartReadyTx
      BY <1>7, <2>6 DEF SIG_UART_TRANS
    <3>2. /\ QueueInv' /\ Taken' = Taken + 1 /\ Taken + 1 \in 1 .. MaxAdds
          /\ FrontByte(uartTxBuffer) = <<"b", Taken + 1>>
      BY <2>1, <2>6, <3>1, TakeFirst, TypeFacts DEF OrderInv
    <3>3. HeldInv'
      BY <2>1, <2>2 DEF HeldInv
    <3>4. SentB' = Taken + 1
      BY <2>1, <2>3, <3>2 DEF SentB, Waits
    <3>5. Wired(wire', "b", MaxAdds, Taken + 1) /\ InOrder("b", MaxAdds)'
      BY <2>5, <3>1, <3>2, Names, TypeFacts, WriteNext DEF OrderInv, LineInOrder
    <3>6. Wired(wire', "s", MaxSends, SentS) /\ InOrder("s", MaxSends)'
      BY <3>1, <3>2, Names, TypeFacts, WriteOther DEF OrderInv, LineInOrder
    <3>7. QED BY <2>4, <3>2, <3>3, <3>4, <3>5, <3>6 DEF OrderInv, LineInOrder
  <2>7. CASE ~(uartBufferedTx /\ HasData(uartTxBuffer))
    <3>1. UNCHANGED <<uartTxBuffer, wire>> /\ uartReadyTx'
      BY <1>7, <2>7 DEF SIG_UART_TRANS, TransmitterReady
    <3>2. Taken' = Taken /\ SentB' = SentB
      BY <2>1, <3>1 DEF Taken, Queued, SentB, Waits
    <3>3. HeldInv'
      BY <2>1, <2>2, <3>2 DEF HeldInv
    <3>4. sends \in Nat /\ pc \in {"idle", "wait", "pop"}
      BY TypeFacts DEF Inv, TypeOK
    <3>5. QED BY <2>1, <2>4, <3>1, <3>2, <3>3, <3>4, Aside
  <2>8. QED BY <2>6, <2>7
<1>8. QED
  BY <1>1, <1>2, <1>3, <1>4, <1>5, <1>6, <1>7 DEF Next, Foreground

\* LineInOrder: what uartSendByte is given and what lies in the transmit buffer reaches the
\* line once each and in order, when the program starts the buffer only while nothing is
\* being sent (uart.c 191-197).
THEOREM OnceAndInOrder ==
  ASSUME OnlyWhenIdle
  PROVE  Spec => []LineInOrder
<1>1. Inv /\ OrderInv /\ [Next]_vars => Inv' /\ OrderInv'
  BY NextInv, OrderNext
<1>2. OrderInv => LineInOrder
  BY DEF OrderInv
<1>3. QED BY <1>1, <1>2, InitInv, OrderInit, PTL DEF Spec
=============================================================================
