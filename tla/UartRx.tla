------------------------------- MODULE UartRx -------------------------------
(***************************************************************************)
(* The receiving half of the PC serial line (uart.c): the receive          *)
(* interrupt against the foreground program.                               *)
(*                                                                         *)
(* The interrupt handler runs with interrupts off, so it is one step.  The *)
(* foreground is cut where an interrupt can change what happens next: a    *)
(* check of the length and the read that follows it, and the two one-byte  *)
(* stores that make up the assignment of the 16-bit pointer UartRxFunc on  *)
(* this 8-bit processor.  datalength is 16 bits wide too, but Size < 256   *)
(* (0x40 in uart.h) keeps its high byte 0, so reading or clearing it is    *)
(* one step.                                                               *)
(***************************************************************************)
EXTENDS CBuffer

CONSTANT MaxArrivals   \* bound: how many bytes the host sends

ASSUME ArrivalsAssumption == MaxArrivals \in Nat

\* A code address, as its high and low byte.
Null    == <<0, 0>>
Handler == <<1, 1>>    \* the user function; neither of its bytes is 0

VARIABLES
  uartRxBuffer,    \* the receive buffer
  uartRxOverflow,  \* unsigned short
  UartRxFunc,      \* <<high byte, low byte>>
  pc, newFunc,     \* the foreground: where it is, and uartSetRxHandler's argument
  arrived,         \* history: how many bytes have come in
  accepted,        \* history: those put into the buffer, in order
  consumed,        \* history: those that have left it, read or flushed, in order
  handled, wild    \* history: how many went to Handler, and to a torn pointer

vars == <<uartRxBuffer, uartRxOverflow, UartRxFunc, pc, newFunc,
          arrived, accepted, consumed, handled, wild>>

Init ==
  /\ uartRxBuffer = BufferInit
  /\ uartRxOverflow = 0
  /\ UartRxFunc = Null
  /\ pc = "idle" /\ newFunc = Null
  /\ arrived = 0 /\ handled = 0 /\ wild = 0
  /\ accepted = << >> /\ consumed = << >>

\* Mutants: the counter stops at its largest value; a read is not preceded by a
\* check of the length.
CountSaturating(n) == IF n + 1 = Word THEN n ELSE n + 1
ReceiveUnchecked ==
  /\ pc = "idle"
  /\ pc' = "get"
  /\ UNCHANGED <<uartRxBuffer, uartRxOverflow, UartRxFunc, newFunc,
                 arrived, accepted, consumed, handled, wild>>

-----------------------------------------------------------------------------
\* uartRxOverflow++
CountOne(n) == (n + 1) % Word

(***************************************************************************)
(* UART_INTERRUPT_HANDLER(SIG_UART_RECV).  Through a half-written pointer  *)
(* the processor jumps to an address that is no function: the byte is gone *)
(* (the least of what may happen).                                         *)
(***************************************************************************)
SIG_UART_RECV ==
  /\ arrived < MaxArrivals
  /\ arrived' = arrived + 1
  /\ \/ /\ UartRxFunc = Handler
        /\ handled' = handled + 1
        /\ UNCHANGED <<uartRxBuffer, uartRxOverflow, accepted, wild>>
     \/ /\ UartRxFunc \notin {Handler, Null}
        /\ wild' = wild + 1
        /\ UNCHANGED <<uartRxBuffer, uartRxOverflow, accepted, handled>>
     \/ /\ UartRxFunc = Null
        /\ \E c \in Byte :
             /\ uartRxBuffer' = AddToEnd(uartRxBuffer, c)
             /\ accepted' = IF HasRoom(uartRxBuffer) THEN Append(accepted, c)
                                                     ELSE accepted
        /\ uartRxOverflow' = IF HasRoom(uartRxBuffer) THEN uartRxOverflow
                                                 ELSE CountOne(uartRxOverflow)
        /\ UNCHANGED <<handled, wild>>
  /\ UNCHANGED <<UartRxFunc, pc, newFunc, consumed>>

\* uartReceiveByte, uartGetByte: the test of datalength ...
ReceiveCheck ==
  /\ pc = "idle"
  /\ HasData(uartRxBuffer)
  /\ pc' = "get"
  /\ UNCHANGED <<uartRxBuffer, uartRxOverflow, UartRxFunc, newFunc,
                 arrived, accepted, consumed, handled, wild>>

\* ... and, some interrupts later, the byte the caller is told it received.
ReceiveGet ==
  /\ pc = "get"
  /\ uartRxBuffer' = GetFromFront(uartRxBuffer)
  /\ consumed' = Append(consumed, FrontByte(uartRxBuffer))
  /\ pc' = "idle"
  /\ UNCHANGED <<uartRxOverflow, UartRxFunc, newFunc,
                 arrived, accepted, handled, wild>>

\* uartFlushReceiveBuffer: datalength = 0, with no critical section.
FlushReceiveBuffer ==
  /\ pc = "idle"
  /\ uartRxBuffer' = Flush(uartRxBuffer)
  /\ consumed' = consumed \o Content(uartRxBuffer)
  /\ UNCHANGED <<uartRxOverflow, UartRxFunc, pc, newFunc,
                 arrived, accepted, handled, wild>>

\* uartSetRxHandler(f): the first of the two stores, of either byte ...
SetHandlerFirst ==
  /\ pc = "idle"
  /\ \E f \in {Null, Handler}, half \in {1, 2} :
       /\ newFunc' = f
       /\ UartRxFunc' = [UartRxFunc EXCEPT ![half] = f[half]]
  /\ pc' = "set"
  /\ UNCHANGED <<uartRxBuffer, uartRxOverflow,
                 arrived, accepted, consumed, handled, wild>>

\* ... and the second.
SetHandlerSecond ==
  /\ pc = "set"
  /\ UartRxFunc' = newFunc
  /\ pc' = "idle"
  /\ UNCHANGED <<uartRxBuffer, uartRxOverflow, newFunc,
                 arrived, accepted, consumed, handled, wild>>

Foreground == \/ ReceiveCheck
              \/ ReceiveGet
              \/ FlushReceiveBuffer
              \/ SetHandlerFirst
              \/ SetHandlerSecond

Next == SIG_UART_RECV \/ Foreground

Spec == Init /\ [][Next]_vars

-----------------------------------------------------------------------------
TypeOK ==
  /\ uartRxBuffer \in Buffers
  /\ uartRxOverflow \in 0 .. Word - 1
  /\ UartRxFunc \in {0, 1} \X {0, 1}
  /\ pc \in {"idle", "get", "set"}
  /\ newFunc \in {Null, Handler}
  /\ arrived \in 0 .. MaxArrivals
  /\ accepted \in Seq(Byte) /\ consumed \in Seq(Byte)
  /\ handled \in Nat /\ wild \in Nat

\* No byte the interrupt stored is lost, duplicated or overtaken: what has left
\* the buffer followed by what is in it is what was stored, whatever interrupts
\* came between the foreground's check, read and flush (buffer.h 19-22).
FifoOrder == consumed \o Content(uartRxBuffer) = accepted

\* Every byte that arrived is stored, handed over, or counted: the overflow
\* counter misses none, up to its width (uart.c 276-283).
EveryByteAccounted ==
  (arrived - Len(accepted) - handled - wild) % Word = uartRxOverflow

\* uartReceiveByte reads outside the critical section in which it checked: when
\* it says TRUE the byte it returns is a byte that was received, never the 0
\* bufferGetFromFront gives for an empty buffer (uart.c 143-147).
CheckedByteIsThere == pc = "get" => HasData(uartRxBuffer)
=============================================================================
