----------------------------- MODULE IrReceiver -----------------------------
(***************************************************************************)
(* The infra-red receiver (basic ir.c; homebrewos ir.c is the same but for *)
(* the lights): an interrupt at every falling edge of the signal, which    *)
(* measures the time since the last one with Timer2, and an interrupt when *)
(* Timer2 overflows.  The program finds a message in gIRReady and gIRData. *)
(*                                                                         *)
(* A message is a tuple of bits; gIRAddr and gIRData together are the last *)
(* one received.  The remote control is part of the model: the widths of   *)
(* the gaps between the edges it has still to send.                        *)
(***************************************************************************)
EXTENDS Integers, Sequences

CONSTANTS
  Bits,        \* of a message; the code has 4 bytes of 8
  Messages     \* what the remote control sends

ASSUME IrAssumption == Bits \in Nat \ {0} /\ Messages \subseteq [1 .. Bits -> {0, 1}]

IR_START_SHORT == 58     \* in ticks of Timer2, 69.4 us
IR_START_LONG  == 82
IR_BIT_SHORT   == 13
IR_BIT_LONG    == 26
IR_ZERO_ONE    == 19
Wrap           == 256    \* TCNT2 is a byte

StartGap == 70
BitGap(b) == IF b = 1 THEN 23 ELSE 16
Silence == Wrap          \* at least, between two messages
GapWidths == {Silence, StartGap, BitGap(0), BitGap(1)}

VARIABLES
  IRState, IRTemp,       \* the state, and the bits so far: IRByte, IRBit are their number
  gIRReady, gIRData,
  TCNT2, TOIE2,          \* Timer2, and whether its overflow interrupts
  EIMSK6, INTF6,         \* the edge interrupt: enabled; an edge was noted
  late,                  \* TCNT2 was reset some time after the edge, not with it
  air, message,          \* the gaps to come, and the message they are of
  undisturbed,           \* history: the receiver was idle and enabled when it began
  unread                 \* history: the last message received was not returned yet

ir == <<IRState, IRTemp, gIRReady, gIRData, TCNT2, TOIE2, EIMSK6, INTF6, late,
        air, message, undisturbed, unread>>

NoMessage == [i \in 1 .. Bits |-> 0]

IrInit ==
  /\ IRState = "idle" /\ IRTemp = << >>
  /\ gIRReady = FALSE /\ gIRData = NoMessage
  /\ TCNT2 = 0 /\ TOIE2 = FALSE
  /\ EIMSK6 = TRUE /\ INTF6 = FALSE /\ late = FALSE
  /\ air = << >> /\ message = NoMessage
  /\ undisturbed = FALSE /\ unread = FALSE

-----------------------------------------------------------------------------
(***************************************************************************)
(* The remote control.                                                     *)
(***************************************************************************)
\* The silence before the message, its start, and its bits.
Gaps(m) == <<Silence, StartGap>> \o [i \in 1 .. Bits |-> BitGap(m[i])]

RemotePressed ==
  /\ air = << >> /\ ~(INTF6 /\ EIMSK6)
  /\ message' \in Messages
  /\ air' = Gaps(message')
  /\ undisturbed' = FALSE
  /\ UNCHANGED <<IRState, IRTemp, gIRReady, gIRData, TCNT2, TOIE2, EIMSK6, INTF6, late, unread>>

\* The gap as TCNT2 sees it: only what is left of it if it was reset late.
Measured == IF late THEN {w \in GapWidths : w <= Head(air)} ELSE {Head(air)}

\* An edge: the interrupt for the last one is over by then unless it is disabled.
\* The overflow comes before the edge if the gap is that long.  Nobody looks at the
\* timer while the receiver is idle.
Edge ==
  /\ air # << >>
  /\ ~(INTF6 /\ EIMSK6)
  /\ \E w \in Measured :
       /\ TCNT2 + w >= Wrap => ~TOIE2
       /\ TCNT2' = IF IRState = "idle" THEN 0 ELSE (TCNT2 + w) % Wrap
  /\ air' = Tail(air)
  /\ INTF6' = TRUE /\ late' = FALSE
  /\ undisturbed' = IF Len(air) = Bits + 2 THEN IRState = "idle" /\ EIMSK6
                                           ELSE undisturbed
  /\ UNCHANGED <<IRState, IRTemp, gIRReady, gIRData, TOIE2, EIMSK6, message, unread>>

-----------------------------------------------------------------------------
\* A mutant of BitOf: the threshold is not where zeros end and ones begin.
ZeroOneLow(w) == IF w > 15 THEN 1 ELSE 0

(***************************************************************************)
(* The interrupts.                                                         *)
(***************************************************************************)
\* "clear overflow", "timeout interrupt"; writing TIFR back clears the flags of
\* the other timers, too, and costs them a tick.
TimeoutOn == TOIE2' = TRUE

NoBits == << >>
BitOf(w) == IF w > IR_ZERO_ONE THEN 1 ELSE 0

EdgeIdle ==
  /\ IRState = "idle"
  /\ IRState' = "start" /\ TimeoutOn
  /\ UNCHANGED <<IRTemp, gIRReady, gIRData, unread>>

EdgeStart ==
  /\ IRState = "start"
  /\ IF TCNT2 < IR_START_SHORT \/ TCNT2 > IR_START_LONG
     THEN IRState' = "idle" /\ UNCHANGED <<IRTemp, TOIE2>>
     ELSE IRState' = "receive" /\ IRTemp' = NoBits /\ TimeoutOn
  /\ UNCHANGED <<gIRReady, gIRData, unread>>

EdgeReceive ==
  /\ IRState = "receive"
  /\ IF TCNT2 < IR_BIT_SHORT \/ TCNT2 > IR_BIT_LONG
     THEN IRState' = "idle" /\ UNCHANGED <<IRTemp, gIRReady, gIRData, TOIE2, unread>>
     ELSE /\ IRTemp' = Append(IRTemp, BitOf(TCNT2))
          /\ IF Len(IRTemp') = Bits
             THEN /\ gIRData' = IRTemp' /\ gIRReady' = TRUE /\ unread' = TRUE
                  /\ IRState' = "idle" /\ UNCHANGED TOIE2
             ELSE TimeoutOn /\ UNCHANGED <<IRState, gIRReady, gIRData, unread>>

INT6 ==
  /\ INTF6 /\ EIMSK6
  /\ EdgeIdle \/ EdgeStart \/ EdgeReceive
  /\ TCNT2' = 0 /\ INTF6' = FALSE
  /\ UNCHANGED <<EIMSK6, late, air, message, undisturbed>>

\* No edge for 17.7 ms.
TIMER2_OVF ==
  /\ TOIE2 /\ ~(INTF6 /\ EIMSK6)
  /\ air # << >> => \E w \in Measured : TCNT2 + w >= Wrap
  /\ TOIE2' = FALSE /\ IRState' = "idle" /\ TCNT2' = 0
  /\ UNCHANGED <<IRTemp, gIRReady, gIRData, EIMSK6, INTF6, late, air, message,
                 undisturbed, unread>>

-----------------------------------------------------------------------------
TimerReads == IF IRState = "idle" THEN {0} ELSE {w % Wrap : w \in GapWidths}

\* EIMSK &= 0xBF and EIMSK |= 0x40.
MaskIR ==
  /\ EIMSK6' = FALSE /\ undisturbed' = FALSE
  /\ UNCHANGED <<IRState, IRTemp, gIRReady, gIRData, TCNT2, TOIE2, INTF6, late, air, message, unread>>

\* An edge noted in the meantime is served now, whatever Timer2 says by then.
UnmaskIR ==
  /\ EIMSK6' = TRUE
  /\ IF INTF6 /\ ~EIMSK6 THEN late' = TRUE /\ TCNT2' \in TimerReads
                         ELSE UNCHANGED <<late, TCNT2>>
  /\ UNCHANGED <<IRState, IRTemp, gIRReady, gIRData, TOIE2, INTF6, air, message,
                 undisturbed, unread>>

IrTypeOK ==
  /\ IRState \in {"idle", "start", "receive"} /\ IRTemp \in Seq({0, 1}) /\ Len(IRTemp) <= Bits
  /\ {gIRReady, TOIE2, EIMSK6, INTF6, late, undisturbed, unread} \subseteq BOOLEAN
  /\ gIRData \in [1 .. Bits -> {0, 1}] /\ TCNT2 \in 0 .. Wrap - 1
  /\ message \in [1 .. Bits -> {0, 1}] /\ Len(air) <= Bits + 2

\* Whatever edges are missed while the interrupt is disabled, and whatever is left
\* of a message that was broken off, only a whole message is ever handed over:
\* the one in the air, at its last edge (ir.c 77-107).
WholeStep == gIRData' # gIRData => gIRData' = message /\ air = << >>

\* A message that begins while the receiver is idle and is not masked is received.
HeardStep == INT6 /\ undisturbed /\ air = << >> => gIRReady' /\ gIRData' = message
=============================================================================
