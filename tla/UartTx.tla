------------------------------- MODULE UartTx -------------------------------
(***************************************************************************)
(* The transmitting half of the PC serial line (uart.c): uartSendByte and  *)
(* uartSendTxBuffer in the foreground against the transmit-complete        *)
(* interrupt.                                                              *)
(*                                                                         *)
(* A byte is known by where it comes from and its number there: <<"s", n>> *)
(* is the n-th byte given to uartSendByte, <<"b", n>> the n-th put into    *)
(* the transmit buffer, and Nul the 0 an empty buffer yields.              *)
(***************************************************************************)
EXTENDS CBuffer

CONSTANTS
  MaxSends, MaxAdds, MaxStarts,  \* bounds: calls of each kind the program makes
  OnlyWhenIdle   \* TRUE: the program starts the buffer only when nothing is being sent

Nul  == Zero
Idle == <<"idle", 0>>    \* no byte in the shift register

ASSUME TransmitAssumption ==
  /\ {MaxSends, MaxAdds, MaxStarts} \subseteq Nat /\ OnlyWhenIdle \in BOOLEAN
  /\ Idle \notin Byte
  /\ {<<"s", n>> : n \in 1 .. MaxSends} \cup {<<"b", n>> : n \in 1 .. MaxAdds}
       \subseteq Byte \ {Nul}

VARIABLES
  uartTxBuffer, uartReadyTx, uartBufferedTx,
  shift,       \* the byte the transmitter is shifting out, or Idle
  txc,         \* the transmit-complete flag: SIG_UART_TRANS is pending
  pc, txData,  \* the foreground: where it is, and uartSendByte's argument
  sends, adds, starts,
  wire,        \* history: the bytes that were written to UDR, in order
  overrun      \* history: UDR was written while a byte was in transmission

vars == <<uartTxBuffer, uartReadyTx, uartBufferedTx, shift, txc, pc, txData,
          sends, adds, starts, wire, overrun>>

Init ==
  /\ uartTxBuffer = BufferInit
  /\ uartReadyTx = TRUE
  /\ uartBufferedTx = FALSE
  /\ shift = Idle
  /\ txc = FALSE
  /\ pc = "idle" /\ txData = Nul
  /\ sends = 0 /\ adds = 0 /\ starts = 0
  /\ wire = << >> /\ overrun = FALSE

\* outb(UDR, c)
Write(c) ==
  /\ shift' = c
  /\ wire' = Append(wire, c)
  /\ overrun' = (overrun \/ shift # Idle)

-----------------------------------------------------------------------------
\* Mutants of the actions below: uartSendByte does not wait for the transmitter; the
\* first byte of the buffer is not taken out; the interrupt does not say it is ready.
SendAtOnce ==
  /\ pc = "wait"
  /\ Write(txData)
  /\ uartReadyTx' = FALSE
  /\ pc' = "idle"
  /\ UNCHANGED <<uartTxBuffer, uartBufferedTx, txc, txData, sends, adds, starts>>
PopLeavesByte ==
  /\ pc = "pop"
  /\ txData' = FrontByte(uartTxBuffer)
  /\ pc' = "wait"
  /\ UNCHANGED <<uartTxBuffer, uartReadyTx, uartBufferedTx, shift, txc,
                 sends, adds, starts, wire, overrun>>
ReadyForgotten == uartBufferedTx' = FALSE /\ UNCHANGED uartReadyTx

(***************************************************************************)
(* uartSendByte: wait for uartReadyTx, then write UDR and clear the flag.  *)
(* The two are neighbouring instructions and the processor always runs one *)
(* instruction between two interrupts, while a character takes about a     *)
(* thousand; so the transmit-complete interrupt of the byte just written   *)
(* cannot come between them, and they are one step.                        *)
(***************************************************************************)
CallSendByte ==
  /\ pc = "idle" /\ sends < MaxSends
  /\ sends' = sends + 1
  /\ txData' = <<"s", sends + 1>>
  /\ pc' = "wait"
  /\ UNCHANGED <<uartTxBuffer, uartReadyTx, uartBufferedTx, shift, txc,
                 adds, starts, wire, overrun>>

SendWhenReady ==
  /\ pc = "wait"
  /\ uartReadyTx
  /\ Write(txData)
  /\ uartReadyTx' = FALSE
  /\ pc' = "idle"
  /\ UNCHANGED <<uartTxBuffer, uartBufferedTx, txc, txData, sends, adds, starts>>

\* uartAddToTxBuffer; a caller that is told 0 (no room) keeps the byte.
AddToTxBuffer ==
  /\ pc = "idle" /\ adds < MaxAdds
  /\ HasRoom(uartTxBuffer)
  /\ uartTxBuffer' = AddToEnd(uartTxBuffer, <<"b", adds + 1>>)
  /\ adds' = adds + 1
  /\ UNCHANGED <<uartReadyTx, uartBufferedTx, shift, txc, pc, txData,
                 sends, starts, wire, overrun>>

\* uartSendTxBuffer: turn on buffered transmit ...
StartTxBuffer ==
  /\ pc = "idle" /\ starts < MaxStarts
  /\ OnlyWhenIdle => uartReadyTx
  /\ starts' = starts + 1
  /\ uartBufferedTx' = TRUE
  /\ pc' = "pop"
  /\ UNCHANGED <<uartTxBuffer, uartReadyTx, shift, txc, txData,
                 sends, adds, wire, overrun>>

\* ... take the first byte, the argument, and go on into uartSendByte.
PopFirst ==
  /\ pc = "pop"
  /\ txData' = FrontByte(uartTxBuffer)
  /\ uartTxBuffer' = GetFromFront(uartTxBuffer)
  /\ pc' = "wait"
  /\ UNCHANGED <<uartReadyTx, uartBufferedTx, shift, txc,
                 sends, adds, starts, wire, overrun>>

Foreground == \/ CallSendByte
              \/ SendWhenReady
              \/ AddToTxBuffer
              \/ StartTxBuffer
              \/ PopFirst

-----------------------------------------------------------------------------
\* The transmitter has shifted the byte out and raises its flag.
CharacterSent ==
  /\ shift # Idle
  /\ shift' = Idle
  /\ txc' = TRUE
  /\ UNCHANGED <<uartTxBuffer, uartReadyTx, uartBufferedTx, pc, txData,
                 sends, adds, starts, wire, overrun>>

\* There is no more to send: the transmitter is ready for the foreground.
TransmitterReady == uartBufferedTx' = FALSE /\ uartReadyTx' = TRUE

\* UART_INTERRUPT_HANDLER(SIG_UART_TRANS); taking the interrupt clears the flag.
SIG_UART_TRANS ==
  /\ txc
  /\ txc' = FALSE
  /\ \/ /\ uartBufferedTx
        /\ HasData(uartTxBuffer)
        /\ Write(FrontByte(uartTxBuffer))
        /\ uartTxBuffer' = GetFromFront(uartTxBuffer)
        /\ UNCHANGED <<uartReadyTx, uartBufferedTx>>
     \/ /\ ~(uartBufferedTx /\ HasData(uartTxBuffer))
        /\ TransmitterReady
        /\ UNCHANGED <<uartTxBuffer, shift, wire, overrun>>
  /\ UNCHANGED <<pc, txData, sends, adds, starts>>

Next == Foreground \/ CharacterSent \/ SIG_UART_TRANS

\* The transmitter and its interrupt do not stop, and a call that has begun is
\* carried on; whether the program makes another call is up to it.
Fairness == /\ WF_vars(CharacterSent)
            /\ WF_vars(SIG_UART_TRANS)
            /\ WF_vars(SendWhenReady)
            /\ WF_vars(PopFirst)

Spec == Init /\ [][Next]_vars /\ Fairness

-----------------------------------------------------------------------------
TypeOK ==
  /\ uartTxBuffer \in Buffers
  /\ {uartReadyTx, uartBufferedTx, txc, overrun} \subseteq BOOLEAN
  /\ shift \in Byte \cup {Idle}
  /\ txData \in Byte
  /\ pc \in {"idle", "wait", "pop"}
  /\ sends \in 0 .. MaxSends /\ adds \in 0 .. MaxAdds /\ starts \in 0 .. MaxStarts
  /\ wire \in Seq(Byte)

\* uartReadyTx hands the transmitter back and forth between the foreground and
\* the interrupt: exactly one of ready, a byte in the shift register and a
\* pending interrupt holds.  So nobody waits for a transmitter that is idle, and no
\* byte is written over one that is still on its way out.
NoOverrun == ~overrun
ReadyIsBaton ==
  /\ uartReadyTx => shift = Idle /\ ~txc
  /\ ~uartReadyTx => (shift # Idle) # txc
  /\ NoOverrun

\* Of one source, the bytes on the wire before the n-th are the first n-1.
InOrder(source, max) ==
  \A i \in 1 .. Len(wire), n \in 1 .. max :
    wire[i] = <<source, n>> =>
      \A m \in 1 .. max : (\E j \in 1 .. i - 1 : wire[j] = <<source, m>>) <=> m < n

\* What uartSendByte is given and what lies in the transmit buffer reaches the line
\* once each and in order, also while a buffered transmission is going on under
\* interrupt control (uart.c 191-197, buffer.h 19-22).
LineInOrder == InOrder("s", MaxSends) /\ InOrder("b", MaxAdds)

\* uart.h 188: "This function waits for the uart to be ready": it always ends; and
\* a buffered transmission drains the buffer and ends.
SendsEnd == /\ pc = "wait" ~> pc = "idle"
            /\ uartBufferedTx ~> (~uartBufferedTx /\ uartReadyTx)
=============================================================================
