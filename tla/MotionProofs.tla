---------------------------- MODULE MotionProofs ----------------------------
(***************************************************************************)
(* A frame is built in quiet, no scene runs past its end, and the bus sees *)
(* whole packets and, of complete_motion, the frames in order: for every   *)
(* number of servos, scenes, frames, motions and commands, whoever plays,  *)
(* when the host sends its bus commands while nothing is played.           *)
(***************************************************************************)
EXTENDS MotionFrames, TLAPS, SequenceTheorems

Building == {"make", "fill", "send", "write"}
SilentBus == uart0 = << >> /\ ~txc

\* The timer: it asks for a frame only while there is one to make.
ClockInv ==
  /\ caller \in Callers
  /\ timer1 => F_PLAYING
  /\ pc = "make" => ret \in {"play", "process"}
  /\ pc \in {"make", "fill"} \/ F_PLAYING => gSceneIndex >= 0
  /\ pc = "make" /\ ret = "play" => gFrameIdx = 0 /\ gNumOfFrame >= 1
  /\ pc \in {"pose", "direct"} => ret = "pose"
  /\ pc = "flash" => caller = "M_PlayFlash"
  /\ caller = "M_PlayFlash" => ret = "play"
  /\ caller # "M_PlayFlash" =>
     /\ pc = "make" /\ ret = "process" => gFrameIdx < gNumOfFrame
     /\ F_NEXTFRAME /\ pc = "loop" => F_PLAYING /\ gFrameIdx < gNumOfFrame
     /\ F_NEXTFRAME /\ pc # "loop" => pc \in Building /\ ret = "process"
     /\ pc = "done" \/ ret = "pose" => ~F_PLAYING /\ gSceneIndex >= LastScene
     /\ ret = "pose" => ~F_NEXTFRAME

\* The bus: a packet is on its way while gTx0Cnt > 0, one byte of it at a time, and
\* only a servo command is ever sent without one.
BusInv ==
  /\ gTx0Cnt \in 0 .. FrameLen /\ gTx0BufIdx \in 0 .. gTx0Cnt
  /\ gTx0Cnt > 0 => Len(uart0) <= 1 /\ (uart0 # << >> => ~txc)
  /\ gTx0Cnt = 0 /\ ~SilentBus => pc \in {"direct", "loop", "done"} /\ ret = "pose"
  /\ pc = "direct" => gTx0Cnt = 0 /\ arg.pos < CommandLen
  /\ pc \in {"fill", "send", "write", "pose"} => SilentBus
  /\ pc \in {"fill", "send", "pose"} => gTx0BufIdx = 0
  /\ pc \in {"fill", "pose"} => gTx0Cnt < FrameLen
  /\ pc \in {"send", "write"} => gTx0Cnt = FrameLen
  /\ pc = "write" => gTx0BufIdx = 1
  /\ pc = "pose" => arg = Token("pose", 0, 0, gTx0Cnt)
  /\ pc \in {"loop", "done", "make", "flash"} /\ gTx0Cnt > 0 => gTx0BufIdx >= 1

Inv == TypeOK /\ ClockInv /\ BusInv

-----------------------------------------------------------------------------
LEMMA Lengths == FrameLen \in Nat /\ FrameLen >= 5 /\ BufLen \in Nat /\ FrameLen < BufLen
BY MotionAssumption DEF FrameLen, HeaderLen, BufLen

\* A scene of a motion has a frame.
LEMMA SceneHasFrames ==
  ASSUME NEW m \in Motions
  PROVE  /\ Len(m) \in 1 .. MaxScenes
         /\ \A s \in 0 .. Len(m) - 1 : m[s + 1].frames \in 1 .. MaxFrames
                                       /\ m[s + 1].slow \in BOOLEAN
<1> DEFINE Scene == [frames : 1 .. MaxFrames, slow : BOOLEAN]
<1>1. PICK n \in 1 .. MaxScenes : m \in [1 .. n -> Scene]
  BY DEF Motions
<1>2. MaxScenes \in Nat /\ n \in Nat
  BY MotionAssumption
<1>3. m \in Seq(Scene)
  BY <1>1, <1>2, SeqDef
<1>4. Len(m) = n
  BY <1>1, <1>2, <1>3, LenProperties
<1>5. QED BY <1>1, <1>2, <1>4

LEMMA InitInv == Init => Inv
<1> SUFFICES ASSUME Init PROVE Inv
  OBVIOUS
<1>1. Blank \in Tokens /\ gTx0Buf \in [0 .. BufLen - 1 -> Tokens]
  BY Lengths, MotionAssumption DEF Init, Blank, Tokens
<1>2. /\ motion \in Motions \cup {<< >>} /\ gSceneIndex \in -1 .. MaxScenes - 1
      /\ uart0 \in Seq(Tokens) /\ Len(uart0) <= 2
      /\ gTx0Cnt \in 0 .. BufLen /\ gTx0BufIdx \in 0 .. BufLen
  BY Lengths, MotionAssumption DEF Init
<1>3. MaxFrames \in Nat /\ gNumOfFrame \in 0 .. MaxFrames /\ gFrameIdx \in 0 .. gNumOfFrame
  BY MotionAssumption DEF Init
<1>4. {F_PLAYING, F_NEXTFRAME, timer1, txc} \subseteq BOOLEAN
  BY DEF Init
<1>5. {arg, bus} \subseteq Tokens
  BY <1>1 DEF Init
<1>6. TypeOK
  BY <1>1, <1>2, <1>3, <1>4, <1>5 DEF Init, TypeOK
<1>7. ClockInv
  BY DEF Init, ClockInv, LastScene
<1>8. BusInv
  BY Lengths DEF Init, BusInv, SilentBus
<1>9. QED BY <1>6, <1>7, <1>8 DEF Inv

-----------------------------------------------------------------------------
LEMMA TypeFacts ==
  ASSUME TypeOK
  PROVE  /\ gFrameIdx \in Nat /\ gNumOfFrame \in Nat /\ gFrameIdx <= gNumOfFrame
         /\ gNumOfFrame <= MaxFrames /\ gSceneIndex \in Int /\ MaxFrames \in Nat
         /\ gTx0Cnt \in Nat /\ gTx0BufIdx \in Nat
BY Lengths, MotionAssumption DEF TypeOK

\* Writing to a UART with room keeps it well-formed.
LEMMA WriteTyped ==
  ASSUME uart0 \in Seq(Tokens), UDRE, NEW b \in Tokens, WriteUDR0(b)
  PROVE  /\ uart0' \in Seq(Tokens) /\ Len(uart0') = Len(uart0) + 1 /\ Len(uart0') <= 2
         /\ uart0' # << >> /\ bus' \in Tokens
BY DEF UDRE, WriteUDR0

-----------------------------------------------------------------------------
(***************************************************************************)
(* The UART and the interrupts.                                            *)
(***************************************************************************)
LEMMA ByteSentInv == Inv /\ ByteSent => Inv'
<1> SUFFICES ASSUME Inv, ByteSent PROVE Inv'
  OBVIOUS
<1> USE DEF Inv, ByteSent, play, clock, tx, fg, env
<1>1. uart0' \in Seq(Tokens) /\ Len(uart0') = Len(uart0) - 1 /\ Len(uart0) \in Nat
  BY DEF TypeOK
<1>2. TypeOK'
  BY <1>1 DEF TypeOK
<1>3. ClockInv'
  BY DEF ClockInv, Building, LastScene
<1>4. BusInv'
  BY <1>1, EmptySeq DEF BusInv, SilentBus
<1>5. QED BY <1>2, <1>3, <1>4

LEMMA TransmitInv == Inv /\ USART0_TX => Inv'
<1> SUFFICES ASSUME Inv, USART0_TX PROVE Inv'
  OBVIOUS
<1> USE DEF Inv, USART0_TX, play, clock, fg, env
<1>1. ClockInv'
  BY DEF ClockInv, Building, LastScene
<1>2. CASE gTx0BufIdx < gTx0Cnt
  <2>1. /\ UDRE /\ WriteUDR0(gTx0Buf[gTx0BufIdx])
        /\ gTx0BufIdx' = gTx0BufIdx + 1 /\ UNCHANGED gTx0Cnt
    BY <1>2, TypeFacts
  <2>2. gTx0Buf[gTx0BufIdx] \in Tokens /\ uart0 \in Seq(Tokens)
    BY <1>2, TypeFacts, Lengths DEF TypeOK, BusInv
  <2>3. /\ uart0' \in Seq(Tokens) /\ Len(uart0') = Len(uart0) + 1 /\ Len(uart0') <= 2
        /\ uart0' # << >> /\ bus' \in Tokens
    BY <2>1, <2>2, WriteTyped
  <2>4. gTx0BufIdx' \in 0 .. BufLen
    BY <1>2, <2>1, TypeFacts, Lengths DEF TypeOK
  <2>5. TypeOK'
    BY <2>1, <2>3, <2>4 DEF TypeOK
  <2>6. uart0 = << >> /\ Len(uart0') = 1
    BY <1>2, <2>3, TypeFacts DEF BusInv
  <2>7. BusInv'
    BY <1>2, <2>1, <2>6, TypeFacts DEF BusInv, SilentBus
  <2>8. QED BY <1>1, <2>5, <2>7
<1>3. CASE gTx0BufIdx = gTx0Cnt
  <2>1. gTx0BufIdx' = 0 /\ gTx0Cnt' = 0 /\ UNCHANGED <<uart0, bus>>
    BY <1>3, TypeFacts DEF PacketSent
  <2>2. TypeOK'
    BY <2>1, Lengths DEF TypeOK
  <2>3. BusInv'
    BY <1>3, <2>1, Lengths DEF BusInv, SilentBus
  <2>4. QED BY <1>1, <2>2, <2>3
<1>4. QED BY <1>2, <1>3, TypeFacts DEF BusInv

LEMMA TickInv == Inv /\ TIMER1_OVF => Inv'
<1> SUFFICES ASSUME Inv, TIMER1_OVF PROVE Inv'
  OBVIOUS
<1> USE DEF Inv, play, tx, hw, fg, env
<1>1. /\ timer1 /\ TickPossible
      /\ UNCHANGED <<motion, gSceneIndex, gNumOfFrame, tx, hw, fg, env>>
  BY DEF TIMER1_OVF
<1>2. BusInv'
  BY <1>1 DEF BusInv, SilentBus
<1>3. CASE LastFrameMade
  <2>1. gFrameIdx' = 0 /\ F_PLAYING' = FALSE /\ timer1' = FALSE /\ UNCHANGED F_NEXTFRAME
    BY <1>3 DEF TIMER1_OVF
  <2>2. gFrameIdx' \in 0 .. gNumOfFrame'
    BY <1>1, <2>1, TypeFacts
  <2>3. {F_PLAYING', F_NEXTFRAME', timer1', txc'} \subseteq BOOLEAN
    BY <1>1, <2>1 DEF TypeOK
  <2>4. TypeOK'
    BY <1>1, <2>2, <2>3 DEF TypeOK
  <2>5. ClockInv'
    BY <1>1, <1>3, <2>1, TypeFacts
       DEF ClockInv, Building, LastScene, TickPossible, LastFrameMade
  <2>6. QED BY <1>2, <2>4, <2>5
<1>4. CASE ~LastFrameMade
  <2>1. F_NEXTFRAME' = TRUE /\ UNCHANGED <<gFrameIdx, F_PLAYING, timer1>>
    BY <1>4 DEF TIMER1_OVF
  <2>2. TypeOK'
    BY <1>1, <2>1 DEF TypeOK
  <2>3. ClockInv'
    <3>1. caller \in {"complete_motion", "serialslave", "M_PlayFlash"}
      BY MotionAssumption DEF ClockInv
    <3>2. gFrameIdx < gNumOfFrame /\ F_PLAYING
      BY <1>1, <1>4, TypeFacts DEF LastFrameMade, ClockInv
    <3>3. CASE caller = "M_PlayFlash"
      BY <1>1, <2>1, <3>2, <3>3 DEF ClockInv, LastScene
    <3>4. CASE caller # "M_PlayFlash"
      <4>1. ret # "pose" /\ pc \notin {"done", "pose", "direct", "flash"}
        BY <3>2, <3>4 DEF ClockInv
      <4>2. pc = "loop" \/ ret = "process"
        BY <1>1, <3>1, <3>4, <4>1 DEF TickPossible, TypeOK
      <4>3. pc = "loop" \/ pc \in Building
        BY <4>1 DEF TypeOK, Building
      <4>4. QED
        BY <1>1, <2>1, <3>2, <3>4, <4>1, <4>2, <4>3 DEF ClockInv, LastScene
    <3>5. QED BY <3>3, <3>4
  <2>4. QED BY <1>2, <2>2, <2>3
<1>5. QED BY <1>3, <1>4

-----------------------------------------------------------------------------
(***************************************************************************)
(* Building and sending a frame.                                           *)
(***************************************************************************)
LEMMA MakeFrameInv == Inv /\ MakeFrame => Inv'
<1> SUFFICES ASSUME Inv, MakeFrame PROVE Inv'
  OBVIOUS
<1> USE DEF Inv, MakeFrame, play, tx, hw, env
<1>1. gFrameIdx < gNumOfFrame
  BY TypeFacts DEF ClockInv
<1>2. gFrameIdx' \in 0 .. gNumOfFrame'
  BY <1>1, TypeFacts
<1>3. TypeOK'
  BY <1>2 DEF TypeOK
<1>4. ClockInv'
  BY <1>1, TypeFacts DEF ClockInv, Building, LastScene
<1>5. BusInv'
  BY Lengths DEF BusInv, SilentBus
<1>6. QED BY <1>3, <1>4, <1>5

\* A byte of a packet goes into the buffer.
LEMMA StuffTyped ==
  ASSUME TypeOK, NEW b \in Tokens, gTx0Cnt < BufLen, Stuff(b)
  PROVE  gTx0Buf' \in [0 .. BufLen - 1 -> Tokens] /\ gTx0Cnt' \in 0 .. BufLen
BY Lengths DEF TypeOK, Stuff

LEMMA SyncPosSendInv == Inv /\ SyncPosSend => Inv'
<1> SUFFICES ASSUME Inv, SyncPosSend PROVE Inv'
  OBVIOUS
<1> DEFINE b == Token("frame", gSceneIndex, gFrameIdx, gTx0Cnt)
<1> USE DEF Inv, SyncPosSend, play, clock, hw, env
<1>1. gSceneIndex \in 0 .. MaxScenes - 1 /\ gFrameIdx \in 0 .. MaxFrames
      /\ gTx0Cnt \in 0 .. FrameLen
  BY TypeFacts, MotionAssumption DEF TypeOK, ClockInv, BusInv
<1>2. b \in Tokens
  BY <1>1 DEF Token, Tokens
<1>3. gTx0Buf' \in [0 .. BufLen - 1 -> Tokens] /\ gTx0Cnt' \in 0 .. BufLen
  BY <1>2, StuffTyped
<1>4. TypeOK'
  BY <1>3 DEF TypeOK
<1>5. ClockInv'
  BY DEF ClockInv, Building, LastScene
<1>6. BusInv'
  BY Lengths, TypeFacts DEF BusInv, SilentBus, Stuff
<1>7. QED BY <1>4, <1>5, <1>6

LEMMA SendFrameInv == Inv /\ SendFrame => Inv'
<1> SUFFICES ASSUME Inv, SendFrame PROVE Inv'
  OBVIOUS
<1> USE DEF Inv, SendFrame, play, clock, hw, env
<1>1. gTx0BufIdx = 0 /\ gTx0Cnt = FrameLen
  BY DEF BusInv
<1>2. arg' \in Tokens /\ gTx0BufIdx' \in 0 .. BufLen
  BY <1>1, Lengths DEF TypeOK
<1>3. TypeOK'
  BY <1>2 DEF TypeOK
<1>4. ClockInv'
  BY DEF ClockInv, Building, LastScene
<1>5. BusInv'
  BY <1>1, Lengths DEF BusInv, SilentBus
<1>6. QED BY <1>3, <1>4, <1>5

LEMMA SciTx0DataInv == Inv /\ SciTx0Data => Inv'
<1> SUFFICES ASSUME Inv, SciTx0Data PROVE Inv'
  OBVIOUS
<1> USE DEF Inv, SciTx0Data, play, tx, env
<1>1. arg \in Tokens /\ uart0 \in Seq(Tokens)
  BY DEF TypeOK
<1>2. /\ uart0' \in Seq(Tokens) /\ Len(uart0') = Len(uart0) + 1 /\ Len(uart0') <= 2
      /\ uart0' # << >> /\ bus' \in Tokens
  BY <1>1, WriteTyped
<1>3. F_NEXTFRAME' \in BOOLEAN
  BY DEF TypeOK, RequestServed
<1>4. TypeOK'
  BY <1>2, <1>3 DEF TypeOK
<1>5. ClockInv'
  BY TypeFacts DEF ClockInv, Building, LastScene, RequestServed, TypeOK
<1>6. BusInv'
  BY <1>2, Lengths DEF BusInv, SilentBus
<1>7. QED BY <1>4, <1>5, <1>6

LEMMA ProcessFramesInv == Inv /\ ProcessFrames => Inv'
<1> SUFFICES ASSUME Inv, ProcessFrames PROVE Inv'
  OBVIOUS
<1> USE DEF Inv, ProcessFrames, play, clock, tx, hw, env
<1>1. ret # "pose" /\ F_PLAYING /\ gFrameIdx < gNumOfFrame
  BY DEF ClockInv
<1>2. gSceneIndex >= 0
  BY <1>1 DEF ClockInv
<1>3. TypeOK'
  BY DEF TypeOK
<1>4. ClockInv'
  BY <1>1, <1>2 DEF ClockInv, Building, LastScene
<1>5. BusInv'
  BY <1>1 DEF BusInv, SilentBus
<1>6. QED BY <1>3, <1>4, <1>5

-----------------------------------------------------------------------------
(***************************************************************************)
(* Scenes and motions, and the other commands to the bus.                  *)
(***************************************************************************)
LEMMA BeginSceneInv ==
  ASSUME Inv, NEW m \in Motions, NEW s \in 0 .. Len(m) - 1, motion' = m, BeginScene(m, s),
         UNCHANGED <<tx, hw, arg, caller>>,
         caller # "M_PlayFlash" => ~F_NEXTFRAME,
         gTx0Cnt = 0 => SilentBus,
         pc \in {"loop", "done", "flash"}
  PROVE  Inv'
<1> USE DEF Inv, BeginScene, tx, hw
<1>1. /\ gSceneIndex' \in 0 .. MaxScenes - 1 /\ gNumOfFrame' \in 1 .. MaxFrames
      /\ m[s + 1].slow \in BOOLEAN
  BY SceneHasFrames, MotionAssumption
<1>2. gNumOfFrame' \in 0 .. MaxFrames /\ gFrameIdx' \in 0 .. gNumOfFrame'
      /\ gSceneIndex' \in -1 .. MaxScenes - 1
  BY <1>1, MotionAssumption
<1>3. F_PLAYING' \in BOOLEAN /\ F_NEXTFRAME' \in BOOLEAN /\ timer1' \in BOOLEAN
  BY DEF TypeOK
<1>4. TypeOK'
  BY <1>2, <1>3 DEF TypeOK
<1>5. ClockInv'
  BY <1>1 DEF ClockInv, Building, LastScene
<1>6. BusInv'
  BY DEF BusInv, SilentBus
<1>7. QED BY <1>4, <1>5, <1>6

LEMMA StartMotionInv == Inv /\ StartMotion => Inv'
<1> SUFFICES ASSUME Inv, StartMotion PROVE Inv'
  OBVIOUS
<1>1. PICK m \in Motions : motion' = m /\ BeginScene(m, 0)
  BY DEF StartMotion
<1>2. 0 \in 0 .. Len(m) - 1
  BY SceneHasFrames, MotionAssumption
<1>3. UNCHANGED <<tx, hw, arg, caller>> /\ pc = "done" /\ SilentBus
  BY DEF StartMotion, SilentBus
<1>4. caller # "M_PlayFlash" => ~F_NEXTFRAME
  BY <1>3 DEF Inv, ClockInv, Building
<1>5. QED BY <1>1, <1>2, <1>3, <1>4, BeginSceneInv

LEMMA NextSceneInv == Inv /\ (NextScene \/ FlashNextScene) => Inv'
<1> SUFFICES ASSUME Inv, NextScene \/ FlashNextScene PROVE Inv'
  OBVIOUS
<1>1. /\ BeginScene(motion, gSceneIndex + 1) /\ motion' = motion
      /\ gSceneIndex < Len(motion) - 1
      /\ UNCHANGED <<tx, hw, arg, caller>> /\ pc \in {"loop", "flash"}
  BY DEF NextScene, FlashNextScene, LastScene, env
<1>2. motion \in Motions
  <2>1. motion # << >>
    BY <1>1, TypeFacts, MotionAssumption DEF Inv, TypeOK
  <2>2. QED BY <2>1 DEF Inv, TypeOK
<1>3. gSceneIndex + 1 \in 0 .. Len(motion) - 1
  BY <1>1, <1>2, SceneHasFrames, MotionAssumption DEF Inv, TypeOK
<1>4. caller # "M_PlayFlash" => ~F_NEXTFRAME /\ ret # "pose"
  <2>1. gSceneIndex < LastScene /\ gSceneIndex \in Int /\ LastScene \in Int
    BY <1>1, <1>2, SceneHasFrames, TypeFacts DEF Inv, LastScene
  <2>2. caller = "M_PlayFlash" \/ (pc = "loop" /\ ~F_PLAYING)
    BY DEF NextScene, FlashNextScene, Inv, ClockInv
  <2>3. QED BY <2>1, <2>2 DEF Inv, ClockInv
<1>5. gTx0Cnt = 0 => SilentBus
  BY <1>1, <1>4 DEF Inv, BusInv, ClockInv
<1>6. QED BY <1>1, <1>2, <1>3, <1>4, <1>5, BeginSceneInv

LEMMA EndInv == Inv /\ (EndMotion \/ FlashReturn) => Inv'
<1> SUFFICES ASSUME Inv, EndMotion \/ FlashReturn PROVE Inv'
  OBVIOUS
<1> USE DEF Inv, EndMotion, FlashReturn, play, clock, tx, hw, env
<1>1. TypeOK'
  BY DEF TypeOK
<1>2. ClockInv'
  BY DEF ClockInv, Building, LastScene
<1>3. BusInv'
  BY DEF BusInv, SilentBus
<1>4. QED BY <1>1, <1>2, <1>3

LEMMA BeginCommandInv == HostWaits /\ Inv /\ (BeginPose \/ BeginDirect) => Inv'
<1> SUFFICES ASSUME HostWaits, Inv, BeginPose \/ BeginDirect PROVE Inv'
  OBVIOUS
<1> USE DEF Inv, BeginPose, BeginDirect, CommandAllowed, Quiet, play, clock, tx, hw
<1>1. arg'.pos = 0 /\ arg' \in Tokens
  BY Lengths, MotionAssumption DEF Token, Tokens
<1>2. TypeOK'
  BY <1>1 DEF TypeOK
<1>3. ClockInv'
  BY DEF ClockInv, Building, LastScene
<1>4. BusInv'
  BY <1>1, Lengths DEF BusInv, SilentBus, CommandLen
<1>5. QED BY <1>2, <1>3, <1>4

LEMMA StuffPoseInv == Inv /\ StuffPose => Inv'
<1> SUFFICES ASSUME Inv, StuffPose PROVE Inv'
  OBVIOUS
<1> USE DEF Inv, StuffPose, play, clock, hw, env
<1>1. arg = Token("pose", 0, 0, gTx0Cnt) /\ gTx0Cnt < FrameLen /\ arg \in Tokens
  BY DEF BusInv, TypeOK
<1>2. gTx0Buf' \in [0 .. BufLen - 1 -> Tokens] /\ gTx0Cnt' \in 0 .. BufLen
  BY <1>1, StuffTyped
<1>3. arg' = Token("pose", 0, 0, gTx0Cnt + 1)
  BY <1>1 DEF Token
<1>4. arg' \in Tokens
  BY <1>1, <1>3, TypeFacts, Lengths, MotionAssumption DEF Token, Tokens
<1>5. TypeOK'
  BY <1>2, <1>4 DEF TypeOK
<1>6. ClockInv'
  BY DEF ClockInv, Building, LastScene
<1>7. arg.pos = gTx0Cnt
  BY <1>1 DEF Token
<1>8. BusInv'
  BY <1>1, <1>3, <1>7, Lengths, TypeFacts DEF BusInv, SilentBus, Stuff
<1>9. QED BY <1>5, <1>6, <1>8

LEMMA DirectByteInv == Inv /\ DirectByte => Inv'
<1> SUFFICES ASSUME Inv, DirectByte PROVE Inv'
  OBVIOUS
<1> USE DEF Inv, DirectByte, play, clock, tx, env
<1>1. arg \in Tokens /\ arg.pos < CommandLen /\ uart0 \in Seq(Tokens)
  BY DEF TypeOK, BusInv
<1>2. /\ uart0' \in Seq(Tokens) /\ Len(uart0') = Len(uart0) + 1 /\ Len(uart0') <= 2
      /\ uart0' # << >> /\ bus' \in Tokens
  BY <1>1, WriteTyped
<1>3. arg' \in Tokens /\ arg'.pos = arg.pos + 1
  BY <1>1, Lengths DEF Tokens, CommandLen
<1>4. TypeOK'
  BY <1>2, <1>3 DEF TypeOK
<1>5. ClockInv'
  BY DEF ClockInv, Building, LastScene
<1>6. BusInv'
  <2>1. ret = "pose" /\ gTx0Cnt = 0 /\ gTx0BufIdx = 0
    BY DEF ClockInv, BusInv
  <2>2. pc' = "loop" \/ (pc' = "direct" /\ arg'.pos < CommandLen)
    BY <1>3
  <2>3. QED BY <2>1, <2>2, Lengths DEF BusInv
<1>7. QED BY <1>4, <1>5, <1>6

-----------------------------------------------------------------------------
LEMMA NextInv == HostWaits /\ Inv /\ [Next]_vars => Inv'
<1> SUFFICES ASSUME HostWaits, Inv, [Next]_vars PROVE Inv'
  OBVIOUS
<1>1. CASE Foreground
  BY <1>1, MakeFrameInv, SyncPosSendInv, SendFrameInv, SciTx0DataInv, ProcessFramesInv,
     NextSceneInv, EndInv, StuffPoseInv, DirectByteInv DEF Foreground
<1>2. CASE Host
  BY <1>2, StartMotionInv, BeginCommandInv DEF Host
<1>3. CASE ByteSent \/ USART0_TX \/ TIMER1_OVF
  BY <1>3, ByteSentInv, TransmitInv, TickInv
<1>4. CASE UNCHANGED vars
  <2> USE <1>4 DEF vars, play, clock, tx, hw, fg, env, Inv
  <2>1. TypeOK'
    BY DEF TypeOK
  <2>2. ClockInv'
    BY DEF ClockInv, Building, LastScene
  <2>3. BusInv'
    BY DEF BusInv, SilentBus
  <2>4. QED BY <2>1, <2>2, <2>3
<1>5. QED BY <1>1, <1>2, <1>3, <1>4 DEF Next

\* TypeOK: the timer's test for equality never finds gFrameIdx past the end of the scene
\* (main.c 144), and the indices of the transmit buffer stay inside it.
THEOREM NeverPastTheEnd ==
  ASSUME HostWaits
  PROVE  Spec => []TypeOK
<1>1. Inv => TypeOK
  BY DEF Inv
<1>2. Inv /\ [Next]_vars => Inv'
  BY NextInv
<1>3. QED BY <1>1, <1>2, InitInv, PTL DEF Spec

\* NoSendWhileBuilding: while SyncPosSend fills the buffer, the interrupt has nothing to
\* send and nothing is pending that could start it (motion.c 473).
THEOREM BuiltInQuiet ==
  ASSUME HostWaits
  PROVE  Spec => []NoSendWhileBuilding
<1>1. Inv => NoSendWhileBuilding
  BY DEF Inv, BusInv, SilentBus, NoSendWhileBuilding
<1>2. Inv /\ [Next]_vars => Inv'
  BY NextInv
<1>3. QED BY <1>1, <1>2, InitInv, PTL DEF Spec

-----------------------------------------------------------------------------
(***************************************************************************)
(* Packets and frames in order.  The bus shows the byte before the one the *)
(* interrupt will send next; between two packets it shows the last byte of *)
(* one.                                                                    *)
(***************************************************************************)
InPacket == 0 .. gTx0Cnt - 1
OfPacket(i, kind, scene) ==
  gTx0Buf[i].pos = i /\ gTx0Buf[i].kind = kind /\ gTx0Buf[i].scene = scene

BuiltInv ==
  /\ \A i \in InPacket : OfPacket(i, gTx0Buf[0].kind, gTx0Buf[0].scene)
  /\ gTx0Cnt > 0 => gTx0Buf[0].kind \in {"frame", "pose"}
  /\ gTx0Cnt > 0 /\ pc \notin {"fill", "pose"} => gTx0Cnt = FrameLen
  /\ pc = "fill" => \A i \in InPacket : OfPacket(i, "frame", gSceneIndex)
  /\ pc = "pose" => \A i \in InPacket : OfPacket(i, "pose", 0)

\* No byte of the next packet was sent yet.
Between == (gTx0BufIdx = 0 \/ pc = "write") /\ (pc = "direct" => arg.pos = 0)

LineInv ==
  /\ pc = "write" => arg = gTx0Buf[0]
  /\ pc # "write" /\ gTx0BufIdx >= 1 => bus = gTx0Buf[gTx0BufIdx - 1]
  /\ pc = "direct" =>
       /\ arg = Token("cmd", 0, 0, arg.pos)
       /\ arg.pos > 0 => bus = Token("cmd", 0, 0, arg.pos - 1)
  /\ Between => bus.pos = PacketLen(bus) - 1

PacketInv == BuiltInv /\ LineInv

\* complete_motion: a scene begins after the last frame of the one before, and a frame
\* is made after the one before.
SceneBegins ==
  \/ gSceneIndex = 0
  \/ bus.scene = gSceneIndex - 1 /\ bus.frame = LastFrame(gSceneIndex - 1)

Making == {"fill", "send", "write"}

FrameInv ==
  /\ \A i \in InPacket : gTx0Buf[i].frame = gTx0Buf[0].frame
  /\ pc \in Making =>
       \A i \in InPacket : gTx0Buf[i].frame = gFrameIdx /\ gTx0Buf[i].scene = gSceneIndex

OrderInv ==
  /\ pc \in {"done", "loop", "make"} \cup Making
  /\ pc # "done" =>
       /\ motion \in Motions /\ gSceneIndex \in 0 .. LastScene
       /\ gNumOfFrame = SceneData(gSceneIndex).frames
  /\ pc \in Making \cup {"make"} => (F_PLAYING <=> SceneData(gSceneIndex).slow)
  /\ pc = "loop" =>
       /\ F_PLAYING => SceneData(gSceneIndex).slow
       /\ bus.scene = gSceneIndex
       /\ bus.frame = IF F_PLAYING THEN gFrameIdx ELSE LastFrame(gSceneIndex)
  /\ pc = "make" /\ ret = "process" =>
       F_PLAYING /\ bus.scene = gSceneIndex /\ bus.frame = gFrameIdx
  /\ pc = "make" /\ ret = "play" => SceneBegins
  /\ pc \in Making =>
       /\ \/ gFrameIdx = 1 /\ SceneBegins
          \/ bus.scene = gSceneIndex /\ bus.frame = gFrameIdx - 1
       /\ F_PLAYING \/ gFrameIdx = 1

SceneInv == caller = "complete_motion" => FrameInv /\ OrderInv

-----------------------------------------------------------------------------
LEMMA PacketInit == Init => PacketInv /\ SceneInv
<1> SUFFICES ASSUME Init PROVE PacketInv /\ SceneInv
  OBVIOUS
<1>1. gTx0Cnt = 0 /\ gTx0BufIdx = 0 /\ pc = "done" /\ bus = Blank
  BY DEF Init
<1>2. PacketInv
  BY <1>1 DEF PacketInv, BuiltInv, LineInv, InPacket, Blank, PacketLen
<1>3. SceneInv
  BY <1>1 DEF SceneInv, FrameInv, OrderInv, InPacket, Making
<1>4. QED BY <1>2, <1>3

\* A step of the foreground or the timer that leaves the packet and the bus alone,
\* outside the building of packets.
LEMMA PacketAside ==
  ASSUME Inv, PacketInv, UNCHANGED <<tx, bus>>,
         pc \in {"loop", "done", "flash", "make"},
         pc' \in {"loop", "done", "flash", "make", "fill"},
         pc' = "fill" => gTx0Cnt = 0
  PROVE  PacketInv'
<1>1. BuiltInv'
  BY DEF PacketInv, BuiltInv, InPacket, OfPacket, tx
<1>2. LineInv'
  BY DEF PacketInv, LineInv, Between, tx
<1>3. QED BY <1>1, <1>2 DEF PacketInv

LEMMA SyncPosSendPacket == Inv /\ PacketInv /\ SyncPosSend => PacketInv'
<1> SUFFICES ASSUME Inv, PacketInv, SyncPosSend PROVE PacketInv'
  OBVIOUS
<1>1. /\ pc = "fill" /\ pc' \in {"fill", "send"} /\ gTx0Cnt' = gTx0Cnt + 1
      /\ gTx0Buf' = [gTx0Buf EXCEPT ![gTx0Cnt] = Token("frame", gSceneIndex, gFrameIdx, gTx0Cnt)]
      /\ UNCHANGED <<gSceneIndex, gTx0BufIdx, bus, arg>>
  BY DEF SyncPosSend, Stuff, play, hw
<1>2. gTx0BufIdx = 0 /\ gTx0Cnt \in 0 .. BufLen - 1 /\ gTx0Buf \in [0 .. BufLen - 1 -> Tokens]
  BY <1>1, Lengths DEF SyncPosSend, Inv, TypeOK, BusInv
<1>3. \A i \in InPacket' : OfPacket(i, "frame", gSceneIndex)'
  <2> SUFFICES ASSUME NEW i \in 0 .. gTx0Cnt' - 1
               PROVE  /\ gTx0Buf'[i].pos = i /\ gTx0Buf'[i].kind = "frame"
                      /\ gTx0Buf'[i].scene = gSceneIndex
    BY <1>1 DEF InPacket, OfPacket
  <2>1. CASE i = gTx0Cnt
    BY <1>1, <1>2, <2>1 DEF Token
  <2>2. CASE i # gTx0Cnt
    <3>1. i \in InPacket /\ gTx0Buf'[i] = gTx0Buf[i]
      BY <1>1, <1>2, <2>2, Lengths DEF InPacket
    <3>2. QED BY <1>1, <3>1 DEF PacketInv, BuiltInv, OfPacket
  <2>3. QED BY <2>1, <2>2
<1>4. BuiltInv'
  <2>1. 0 \in InPacket'
    BY <1>1, <1>2 DEF InPacket
  <2>2. gTx0Buf'[0].kind = "frame" /\ gTx0Buf'[0].scene = gSceneIndex'
    BY <1>1, <1>3, <2>1 DEF OfPacket
  <2>3. pc' \notin {"fill", "pose"} => gTx0Cnt' = FrameLen
    BY <1>1 DEF SyncPosSend
  <2>4. QED BY <1>1, <1>3, <2>2, <2>3 DEF BuiltInv, OfPacket
<1>5. LineInv'
  BY <1>1, <1>2 DEF PacketInv, LineInv, Between
<1>6. QED BY <1>4, <1>5 DEF PacketInv

LEMMA StuffPosePacket == Inv /\ PacketInv /\ StuffPose => PacketInv'
<1> SUFFICES ASSUME Inv, PacketInv, StuffPose PROVE PacketInv'
  OBVIOUS
<1>1. /\ pc = "pose" /\ pc' \in {"pose", "send"} /\ gTx0Cnt' = gTx0Cnt + 1
      /\ gTx0Buf' = [gTx0Buf EXCEPT ![gTx0Cnt] = Token("pose", 0, 0, gTx0Cnt)]
      /\ UNCHANGED <<gSceneIndex, gTx0BufIdx, bus>>
  BY DEF StuffPose, Stuff, play, hw, Inv, BusInv
<1>2. gTx0BufIdx = 0 /\ gTx0Cnt \in 0 .. BufLen - 1 /\ gTx0Buf \in [0 .. BufLen - 1 -> Tokens]
  BY <1>1, Lengths DEF StuffPose, Inv, TypeOK, BusInv
<1>3. \A i \in InPacket' : OfPacket(i, "pose", 0)'
  <2> SUFFICES ASSUME NEW i \in 0 .. gTx0Cnt' - 1
               PROVE  /\ gTx0Buf'[i].pos = i /\ gTx0Buf'[i].kind = "pose"
                      /\ gTx0Buf'[i].scene = 0
    BY DEF InPacket, OfPacket
  <2>1. CASE i = gTx0Cnt
    BY <1>1, <1>2, <2>1 DEF Token
  <2>2. CASE i # gTx0Cnt
    <3>1. i \in InPacket /\ gTx0Buf'[i] = gTx0Buf[i]
      BY <1>1, <1>2, <2>2, Lengths DEF InPacket
    <3>2. QED BY <1>1, <3>1 DEF PacketInv, BuiltInv, OfPacket
  <2>3. QED BY <2>1, <2>2
<1>4. BuiltInv'
  <2>1. 0 \in InPacket'
    BY <1>1, <1>2 DEF InPacket
  <2>2. gTx0Buf'[0].kind = "pose" /\ gTx0Buf'[0].scene = 0
    BY <1>1, <1>3, <2>1 DEF OfPacket
  <2>3. pc' \notin {"fill", "pose"} => gTx0Cnt' = FrameLen
    <3>1. arg.pos = gTx0Cnt
      BY <1>1 DEF Inv, BusInv, Token
    <3>2. QED BY <1>1, <3>1 DEF StuffPose
  <2>4. QED BY <1>1, <1>3, <2>2, <2>3 DEF BuiltInv, OfPacket
<1>5. LineInv'
  BY <1>1, <1>2 DEF PacketInv, LineInv, Between
<1>6. QED BY <1>4, <1>5 DEF PacketInv

LEMMA SendPacket == Inv /\ PacketInv /\ (SendFrame \/ SciTx0Data) => PacketInv'
<1> SUFFICES ASSUME Inv, PacketInv, SendFrame \/ SciTx0Data PROVE PacketInv'
  OBVIOUS
<1>1. CASE SendFrame
  <2>1. /\ pc = "send" /\ pc' = "write" /\ arg' = gTx0Buf[0] /\ gTx0BufIdx = 0 /\ gTx0BufIdx' = 1
        /\ UNCHANGED <<gTx0Buf, gTx0Cnt, bus, gSceneIndex>>
    BY <1>1 DEF SendFrame, Inv, BusInv, play, hw
  <2>2. BuiltInv'
    BY <2>1 DEF PacketInv, BuiltInv, InPacket, OfPacket
  <2>3. LineInv'
    BY <2>1 DEF PacketInv, LineInv, Between
  <2>4. QED BY <2>2, <2>3 DEF PacketInv
<1>2. CASE SciTx0Data
  <2>1. /\ pc = "write" /\ pc' \in {"flash", "loop"} /\ bus' = gTx0Buf[0] /\ gTx0BufIdx = 1
        /\ UNCHANGED <<gTx0Buf, gTx0Cnt, gTx0BufIdx, gSceneIndex>>
    BY <1>2 DEF SciTx0Data, WriteUDR0, Inv, BusInv, PacketInv, LineInv, play, tx
  <2>2. BuiltInv'
    BY <2>1 DEF PacketInv, BuiltInv, InPacket, OfPacket
  <2>3. LineInv'
    BY <2>1 DEF LineInv, Between
  <2>4. QED BY <2>2, <2>3 DEF PacketInv
<1>3. QED BY <1>1, <1>2

LEMMA CommandPacket ==
  HostWaits /\ Inv /\ PacketInv /\ (BeginPose \/ BeginDirect \/ DirectByte) => PacketInv'
<1> SUFFICES ASSUME HostWaits, Inv, PacketInv, BeginPose \/ BeginDirect \/ DirectByte
             PROVE  PacketInv'
  OBVIOUS
<1>1. CASE BeginPose \/ BeginDirect
  <2>1. /\ pc = "done" /\ gTx0Cnt = 0 /\ gTx0BufIdx = 0 /\ UNCHANGED <<tx, bus>>
        /\ \/ pc' = "pose" /\ arg' = Token("pose", 0, 0, 0)
           \/ pc' = "direct" /\ arg' = Token("cmd", 0, 0, 0)
    BY <1>1, Lengths DEF BeginPose, BeginDirect, CommandAllowed, Quiet, Inv, BusInv, hw
  <2>2. arg'.pos = 0
    BY <2>1 DEF Token
  <2>3. QED BY <2>1, <2>2 DEF PacketInv, BuiltInv, LineInv, Between, InPacket, OfPacket, tx
<1>2. CASE DirectByte
  <2>0. arg \in Tokens /\ gTx0BufIdx \in Nat
    BY TypeFacts DEF Inv, TypeOK
  <2>1. /\ pc = "direct" /\ gTx0Cnt = 0 /\ gTx0BufIdx = 0 /\ UNCHANGED tx /\ bus' = arg
        /\ arg = Token("cmd", 0, 0, arg.pos) /\ arg \in Tokens /\ arg.pos \in {0, 1}
        /\ arg' = [arg EXCEPT !.pos = @ + 1]
        /\ pc' = IF arg.pos + 1 < 2 THEN "direct" ELSE "loop"
    BY <1>2, <2>0, Lengths
       DEF DirectByte, WriteUDR0, Inv, BusInv, PacketInv, LineInv, Tokens, CommandLen
  <2>2. arg' = Token("cmd", 0, 0, arg'.pos) /\ arg'.pos = arg.pos + 1
    BY <2>1 DEF Token
  <2>3. bus'.pos = arg.pos /\ PacketLen(bus') = 2
    BY <2>1 DEF Token, PacketLen, CommandLen
  <2>4. QED BY <2>1, <2>2, <2>3 DEF PacketInv, BuiltInv, LineInv, Between, InPacket, OfPacket, tx
<1>3. QED BY <1>1, <1>2

LEMMA TransmitPacket == Inv /\ PacketInv /\ USART0_TX => PacketInv'
<1> SUFFICES ASSUME Inv, PacketInv, USART0_TX PROVE PacketInv'
  OBVIOUS
<1>1. UNCHANGED <<pc, arg, gSceneIndex, gTx0Buf>> /\ txc
  BY DEF USART0_TX, play, fg
<1>2. pc \notin {"fill", "send", "write", "pose"}
  BY <1>1 DEF Inv, BusInv, SilentBus
<1>3. CASE gTx0BufIdx < gTx0Cnt
  <2>1. /\ bus' = gTx0Buf[gTx0BufIdx] /\ gTx0BufIdx' = gTx0BufIdx + 1 /\ UNCHANGED gTx0Cnt
    BY <1>3, TypeFacts DEF USART0_TX, WriteUDR0, Inv
  <2>2. pc # "direct" /\ gTx0BufIdx \in Nat
    BY <1>3, TypeFacts DEF Inv, BusInv
  <2>3. BuiltInv'
    BY <1>1, <1>2, <2>1 DEF PacketInv, BuiltInv, InPacket, OfPacket
  <2>4. LineInv'
    BY <1>1, <1>2, <2>1, <2>2 DEF LineInv, Between
  <2>5. QED BY <2>3, <2>4 DEF PacketInv
<1>4. CASE gTx0BufIdx = gTx0Cnt
  <2>1. gTx0BufIdx' = 0 /\ gTx0Cnt' = 0 /\ UNCHANGED bus
    BY <1>4, TypeFacts DEF USART0_TX, PacketSent, Inv
  <2>2. BuiltInv'
    BY <1>1, <1>2, <2>1 DEF BuiltInv, InPacket
  <2>3. LineInv'
    <3>1. CASE gTx0Cnt = 0
      BY <1>1, <1>2, <1>4, <2>1, <3>1 DEF PacketInv, LineInv, Between
    <3>2. CASE gTx0Cnt > 0
      <4>1. gTx0Cnt = FrameLen /\ pc # "direct"
        BY <1>2, <3>2 DEF PacketInv, BuiltInv, Inv, BusInv
      <4>2. bus = gTx0Buf[FrameLen - 1] /\ FrameLen - 1 \in InPacket
        BY <1>2, <1>4, <4>1, Lengths DEF PacketInv, LineInv, InPacket
      <4>3. bus.pos = FrameLen - 1 /\ bus.kind \in {"frame", "pose"}
        BY <3>2, <4>2 DEF PacketInv, BuiltInv, OfPacket
      <4>4. QED BY <1>1, <1>2, <2>1, <4>1, <4>3 DEF LineInv, Between, PacketLen
    <3>3. QED BY <3>1, <3>2, TypeFacts DEF Inv
  <2>4. QED BY <2>2, <2>3 DEF PacketInv
<1>5. QED BY <1>3, <1>4, TypeFacts DEF Inv, BusInv
\* What neither the packet nor the bus notices.
LEMMA PacketSame ==
  ASSUME PacketInv, UNCHANGED <<tx, bus, pc, arg, gSceneIndex>> PROVE PacketInv'
<1>1. BuiltInv'
  BY DEF PacketInv, BuiltInv, InPacket, OfPacket, tx
<1>2. LineInv'
  BY DEF PacketInv, LineInv, Between, tx
<1>3. QED BY <1>1, <1>2 DEF PacketInv

LEMMA PacketNext ==
  ASSUME HostWaits, Inv, PacketInv, [Next]_vars PROVE PacketInv'
<1>1. CASE ByteSent \/ TIMER1_OVF \/ UNCHANGED vars
  <2>1. UNCHANGED <<tx, bus, pc, arg, gSceneIndex>>
    BY <1>1 DEF ByteSent, TIMER1_OVF, vars, play, hw, fg
  <2>2. QED BY <2>1, PacketSame
<1>2. CASE ProcessFrames \/ StartMotion \/ NextScene \/ FlashNextScene \/ EndMotion
           \/ FlashReturn \/ MakeFrame
  <2>1. /\ UNCHANGED <<tx, bus>> /\ pc \in {"loop", "done", "flash", "make"}
        /\ pc' \in {"loop", "done", "flash", "make", "fill"} /\ (pc' = "fill" => gTx0Cnt = 0)
    BY <1>2 DEF ProcessFrames, StartMotion, NextScene, FlashNextScene, EndMotion, FlashReturn,
                MakeFrame, BeginScene, hw
  <2>2. QED BY <2>1, PacketAside
<1>3. CASE SyncPosSend \/ StuffPose \/ SendFrame \/ SciTx0Data \/ USART0_TX
  BY <1>3, SyncPosSendPacket, StuffPosePacket, SendPacket, TransmitPacket
<1>4. CASE BeginPose \/ BeginDirect \/ DirectByte
  BY <1>4, CommandPacket
<1>5. QED BY <1>1, <1>2, <1>3, <1>4 DEF Next, Foreground, Host

-----------------------------------------------------------------------------
(***************************************************************************)
(* The frames of complete_motion.                                          *)
(***************************************************************************)
\* The interrupt sends the next byte of the packet: its predecessor is on the bus.
LEMMA NextByte ==
  ASSUME Inv, PacketInv, USART0_TX, gTx0BufIdx < gTx0Cnt
  PROVE  /\ bus' = gTx0Buf[gTx0BufIdx] /\ bus = gTx0Buf[gTx0BufIdx - 1]
         /\ {gTx0BufIdx, gTx0BufIdx - 1} \subseteq InPacket /\ 0 \in InPacket
         /\ pc \in {"loop", "done", "make", "flash"}
<1>1. bus' = gTx0Buf[gTx0BufIdx] /\ txc
  BY TypeFacts DEF USART0_TX, WriteUDR0, Inv
<1>2. pc \notin {"fill", "send", "write", "pose", "direct"}
  BY <1>1, TypeFacts DEF Inv, BusInv, SilentBus
<1>3. pc \in {"loop", "done", "make", "flash"}
  BY <1>2 DEF Inv, TypeOK
<1>4. gTx0BufIdx >= 1
  BY <1>3, TypeFacts DEF Inv, BusInv
<1>5. bus = gTx0Buf[gTx0BufIdx - 1]
  BY <1>3, <1>4 DEF PacketInv, LineInv
<1>6. QED BY <1>1, <1>3, <1>4, <1>5, TypeFacts DEF InPacket, Inv

LEMMA TransmitScene ==
  ASSUME Inv, PacketInv, FrameInv, OrderInv, USART0_TX PROVE FrameInv' /\ OrderInv'
<1>1. UNCHANGED <<play, clock, fg, gTx0Buf>> /\ txc
  BY DEF USART0_TX
<1>2. gTx0Cnt' \in {gTx0Cnt, 0}
  BY DEF USART0_TX, PacketSent
<1>3. pc \notin Making
  BY <1>1 DEF Inv, BusInv, SilentBus, Making
<1>4. FrameInv'
  BY <1>1, <1>2, <1>3 DEF FrameInv, InPacket, fg
<1>5. bus'.scene = bus.scene /\ bus'.frame = bus.frame
  <2>1. CASE gTx0BufIdx < gTx0Cnt
    BY <2>1, NextByte DEF PacketInv, BuiltInv, FrameInv, OfPacket
  <2>2. CASE ~ (gTx0BufIdx < gTx0Cnt)
    BY <2>2 DEF USART0_TX
  <2>3. QED BY <2>1, <2>2
<1>6. OrderInv'
  BY <1>1, <1>3, <1>5 DEF OrderInv, SceneBegins, LastFrame, SceneData, LastScene, Making, play,
                          clock, fg
<1>7. QED BY <1>4, <1>6

\* The tick after the last frame ends the scene.
LEMMA TickScene ==
  ASSUME Inv, FrameInv, OrderInv, TIMER1_OVF, caller = "complete_motion"
  PROVE  FrameInv' /\ OrderInv'
<1>1. /\ UNCHANGED <<play, tx, bus, pc, ret>> /\ pc = "loop" /\ F_PLAYING
  BY DEF TIMER1_OVF, TickPossible, hw, fg, Inv, ClockInv
<1>2. FrameInv'
  BY <1>1 DEF FrameInv, InPacket, Making, tx
<1>3. bus.scene = gSceneIndex /\ bus.frame = gFrameIdx /\ SceneData(gSceneIndex).slow
  BY <1>1 DEF OrderInv
<1>4. CASE LastFrameMade
  <2>1. ~F_PLAYING'
    BY <1>4 DEF TIMER1_OVF
  <2>2. bus.frame = LastFrame(gSceneIndex)
    BY <1>1, <1>3, <1>4 DEF OrderInv, LastFrameMade, LastFrame
  <2>3. QED BY <1>1, <1>2, <1>3, <2>1, <2>2
            DEF OrderInv, LastFrame, SceneData, LastScene, Making, play
<1>5. CASE ~LastFrameMade
  <2>1. UNCHANGED <<F_PLAYING, gFrameIdx>>
    BY <1>5 DEF TIMER1_OVF
  <2>2. QED BY <1>1, <1>2, <2>1
            DEF OrderInv, LastFrame, SceneData, LastScene, Making, play
<1>6. QED BY <1>4, <1>5

LEMMA MakeScene ==
  ASSUME Inv, FrameInv, OrderInv, MakeFrame PROVE FrameInv' /\ OrderInv'
<1>1. /\ UNCHANGED <<play, F_PLAYING, tx, bus>> /\ pc = "make" /\ pc' = "fill"
      /\ gFrameIdx' = gFrameIdx + 1 /\ gFrameIdx \in Nat /\ gTx0Cnt = 0
  BY TypeFacts DEF MakeFrame, hw, Inv
<1>2. FrameInv'
  BY <1>1 DEF FrameInv, InPacket, tx
<1>3. \/ gFrameIdx = 0 /\ SceneBegins
      \/ F_PLAYING /\ bus.scene = gSceneIndex /\ bus.frame = gFrameIdx
  BY <1>1 DEF Inv, ClockInv, OrderInv
<1>4. /\ \/ gFrameIdx' = 1 /\ SceneBegins'
         \/ bus'.scene = gSceneIndex' /\ bus'.frame = gFrameIdx' - 1
      /\ F_PLAYING' \/ gFrameIdx' = 1
  <2>1. CASE gFrameIdx = 0 /\ SceneBegins
    BY <1>1, <2>1 DEF SceneBegins, LastFrame, SceneData, play
  <2>2. CASE F_PLAYING /\ bus.scene = gSceneIndex /\ bus.frame = gFrameIdx
    BY <1>1, <2>2 DEF play
  <2>3. QED BY <1>3, <2>1, <2>2
<1>5. OrderInv'
  BY <1>1, <1>4 DEF OrderInv, SceneData, LastScene, Making, play
<1>6. QED BY <1>2, <1>5

LEMMA FillScene ==
  ASSUME Inv, FrameInv, OrderInv, SyncPosSend PROVE FrameInv' /\ OrderInv'
<1>1. /\ pc = "fill" /\ pc' \in {"fill", "send"} /\ gTx0Cnt' = gTx0Cnt + 1
      /\ gTx0Buf' = [gTx0Buf EXCEPT ![gTx0Cnt] = Token("frame", gSceneIndex, gFrameIdx, gTx0Cnt)]
      /\ UNCHANGED <<play, clock, bus>>
  BY DEF SyncPosSend, Stuff, hw
<1>2. gTx0Cnt \in 0 .. BufLen - 1 /\ gTx0Buf \in [0 .. BufLen - 1 -> Tokens]
  BY <1>1, Lengths DEF SyncPosSend, Inv, TypeOK, BusInv
<1>3. ASSUME NEW i \in InPacket'
      PROVE  gTx0Buf'[i].frame = gFrameIdx /\ gTx0Buf'[i].scene = gSceneIndex
  <2>1. CASE i = gTx0Cnt
    BY <1>1, <1>2, <2>1 DEF Token
  <2>2. CASE i # gTx0Cnt
    <3>1. i \in InPacket /\ gTx0Buf'[i] = gTx0Buf[i]
      BY <1>1, <1>2, <2>2, Lengths DEF InPacket
    <3>2. QED BY <1>1, <3>1 DEF FrameInv, Making
  <2>3. QED BY <2>1, <2>2
<1>4. 0 \in InPacket'
  BY <1>1, <1>2 DEF InPacket
<1>5. FrameInv'
  BY <1>1, <1>3, <1>4 DEF FrameInv, play, clock
<1>6. OrderInv'
  BY <1>1 DEF OrderInv, SceneBegins, LastFrame, SceneData, LastScene, Making, play, clock
<1>7. QED BY <1>5, <1>6

\* The first byte is written: the bus now shows the frame that was made.
LEMMA SendScene ==
  ASSUME Inv, PacketInv, FrameInv, OrderInv, SendFrame \/ SciTx0Data,
         caller = "complete_motion"
  PROVE  FrameInv' /\ OrderInv'
<1>1. UNCHANGED <<play, gFrameIdx, F_PLAYING, gTx0Buf, gTx0Cnt, ret>>
  BY DEF SendFrame, SciTx0Data, clock, tx
<1>2. CASE SendFrame
  <2>1. pc = "send" /\ pc' = "write" /\ UNCHANGED bus
    BY <1>2 DEF SendFrame, hw
  <2>2. FrameInv'
    BY <1>1, <2>1 DEF FrameInv, InPacket, Making, play
  <2>3. OrderInv'
    BY <1>1, <2>1 DEF OrderInv, SceneBegins, LastFrame, SceneData, LastScene, Making, play
  <2>4. QED BY <2>2, <2>3
<1>3. CASE SciTx0Data
  <2>1. pc = "write" /\ pc' = "loop" /\ bus' = gTx0Buf[0] /\ gTx0Cnt = FrameLen
    BY <1>3 DEF SciTx0Data, WriteUDR0, PacketInv, LineInv, Inv, BusInv
  <2>2. bus'.scene = gSceneIndex /\ bus'.frame = gFrameIdx
    BY <2>1, Lengths DEF FrameInv, InPacket, Making
  <2>3. FrameInv'
    BY <1>1, <2>1 DEF FrameInv, InPacket, Making
  <2>4. (F_PLAYING <=> SceneData(gSceneIndex).slow) /\ (F_PLAYING \/ gFrameIdx = 1)
    BY <2>1 DEF OrderInv, Making
  <2>5. bus'.frame = IF F_PLAYING THEN gFrameIdx ELSE LastFrame(gSceneIndex)
    BY <2>2, <2>4 DEF LastFrame
  <2>6. OrderInv'
    BY <1>1, <2>1, <2>2, <2>4, <2>5
       DEF OrderInv, LastFrame, SceneData, LastScene, Making, play
  <2>7. QED BY <2>3, <2>6
<1>4. QED BY <1>2, <1>3

\* A scene is started: the first of a motion, or after the last frame of the one before.
LEMMA BeginSceneOrder ==
  ASSUME FrameInv, ~F_PLAYING, F_PLAYING \in BOOLEAN, UNCHANGED <<tx, bus>>,
         NEW m \in Motions, NEW s \in 0 .. Len(m) - 1, motion' = m, BeginScene(m, s),
         SceneBegins'
  PROVE  FrameInv' /\ OrderInv'
<1>1. pc' = "make" /\ ret' = "play" /\ gSceneIndex' = s /\ gNumOfFrame' = SceneData(s)'.frames
  BY DEF BeginScene, SceneData
<1>2. FrameInv'
  BY <1>1 DEF FrameInv, InPacket, Making, tx
<1>3. F_PLAYING' <=> m[s + 1].slow
  BY SceneHasFrames DEF BeginScene
<1>4. OrderInv'
  BY <1>1, <1>3 DEF OrderInv, SceneData, LastScene, Making
<1>5. QED BY <1>2, <1>4

LEMMA BeginScenes ==
  ASSUME Inv, FrameInv, OrderInv, StartMotion \/ NextScene, caller = "complete_motion"
  PROVE  FrameInv' /\ OrderInv'
<1>1. F_PLAYING \in BOOLEAN /\ UNCHANGED <<tx, bus>>
  BY DEF Inv, TypeOK, StartMotion, NextScene, hw
<1>2. CASE StartMotion
  <2>1. PICK m \in Motions : motion' = m /\ BeginScene(m, 0)
    BY <1>2 DEF StartMotion
  <2>2. 0 \in 0 .. Len(m) - 1
    BY SceneHasFrames
  <2>3. ~F_PLAYING
    BY <1>2 DEF StartMotion, Inv, ClockInv
  <2>4. SceneBegins'
    BY <2>1 DEF BeginScene, SceneBegins
  <2>5. QED BY <1>1, <2>1, <2>2, <2>3, <2>4, BeginSceneOrder
<1>3. CASE NextScene
  <2>1. /\ pc = "loop" /\ ~F_PLAYING /\ gSceneIndex < LastScene /\ motion' = motion
        /\ BeginScene(motion, gSceneIndex + 1)
    BY <1>3 DEF NextScene
  <2>2. motion \in Motions /\ gSceneIndex \in 0 .. LastScene
    BY <2>1 DEF OrderInv
  <2>3. gSceneIndex + 1 \in 0 .. Len(motion) - 1
    BY <2>1, <2>2, SceneHasFrames DEF LastScene
  <2>4. bus.scene = gSceneIndex /\ bus.frame = LastFrame(gSceneIndex)
    BY <2>1 DEF OrderInv
  <2>5. gSceneIndex' - 1 = gSceneIndex
    BY <2>1, <2>2 DEF BeginScene
  <2>6. LastFrame(gSceneIndex - 1)' = LastFrame(gSceneIndex)
    BY <2>1, <2>5 DEF LastFrame, SceneData
  <2>7. SceneBegins'
    BY <1>1, <2>4, <2>5, <2>6 DEF SceneBegins
  <2>8. QED BY <1>1, <2>1, <2>2, <2>3, <2>7, BeginSceneOrder
<1>4. QED BY <1>2, <1>3

LEMMA SceneNext ==
  ASSUME HostWaits, Inv, PacketInv, SceneInv, [Next]_vars PROVE SceneInv'
<1> SUFFICES ASSUME caller' = "complete_motion" PROVE FrameInv' /\ OrderInv'
  BY DEF SceneInv
<1>1. caller = "complete_motion"
  BY DEF Next, Foreground, Host, ByteSent, USART0_TX, TIMER1_OVF, MakeFrame, SyncPosSend,
         SendFrame, SciTx0Data, ProcessFrames, StartMotion, NextScene, EndMotion,
         FlashNextScene, FlashReturn, BeginPose, StuffPose, BeginDirect, DirectByte, env, vars
<1>2. FrameInv /\ OrderInv
  BY <1>1 DEF SceneInv
<1>3. pc \notin {"flash", "pose", "direct"}
  BY <1>2 DEF OrderInv, Making
<1>4. CASE ByteSent \/ UNCHANGED vars
  <2>1. UNCHANGED <<play, clock, tx, fg, bus>>
    BY <1>4 DEF ByteSent, vars, hw
  <2>2. FrameInv'
    BY <1>2, <2>1 DEF FrameInv, InPacket, Making, play, clock, tx, fg
  <2>3. OrderInv'
    BY <1>2, <2>1 DEF OrderInv, SceneBegins, LastFrame, SceneData, LastScene, Making, play,
                      clock, fg
  <2>4. QED BY <2>2, <2>3
<1>5. CASE ProcessFrames \/ EndMotion
  <2>1. /\ UNCHANGED <<play, clock, tx, bus>> /\ pc = "loop"
        /\ \/ pc' = "make" /\ ret' = "process" /\ F_PLAYING
           \/ pc' = "done"
    BY <1>1, <1>5 DEF ProcessFrames, EndMotion, hw
  <2>2. FrameInv'
    BY <1>2, <2>1 DEF FrameInv, InPacket, Making, play, clock, tx
  <2>3. OrderInv'
    BY <1>2, <2>1 DEF OrderInv, LastFrame, SceneData, LastScene, Making, play, clock
  <2>4. QED BY <2>2, <2>3
<1>6. CASE MakeFrame \/ SyncPosSend \/ SendFrame \/ SciTx0Data
  BY <1>1, <1>2, <1>6, MakeScene, FillScene, SendScene
<1>7. CASE StartMotion \/ NextScene
  BY <1>1, <1>2, <1>7, BeginScenes
<1>8. CASE USART0_TX \/ TIMER1_OVF
  BY <1>1, <1>2, <1>8, TransmitScene, TickScene
<1>9. ~ (FlashNextScene \/ FlashReturn \/ StuffPose \/ DirectByte \/ BeginPose \/ BeginDirect)
  BY <1>1, <1>3 DEF FlashNextScene, FlashReturn, StuffPose, DirectByte, BeginPose, BeginDirect,
                    CommandAllowed
<1>10. QED BY <1>4, <1>5, <1>6, <1>7, <1>8, <1>9 DEF Next, Foreground, Host

-----------------------------------------------------------------------------
LEMMA PacketOrder ==
  ASSUME HostWaits, Inv, PacketInv, [Next]_vars PROVE PacketStep
<1> SUFFICES ASSUME flip' # flip PROVE Continues(bus, bus') \/ Starts(bus, bus')
  BY DEF PacketStep
<1>1. USART0_TX \/ SciTx0Data \/ DirectByte
  BY DEF Next, Foreground, Host, ByteSent, TIMER1_OVF, MakeFrame, SyncPosSend, SendFrame,
         ProcessFrames, StartMotion, NextScene, EndMotion, FlashNextScene, FlashReturn,
         BeginPose, StuffPose, BeginDirect, hw, vars
<1>2. CASE USART0_TX
  <2>1. gTx0BufIdx < gTx0Cnt
    BY <1>2 DEF USART0_TX
  <2>2. /\ bus' = gTx0Buf[gTx0BufIdx] /\ bus = gTx0Buf[gTx0BufIdx - 1]
        /\ {gTx0BufIdx, gTx0BufIdx - 1} \subseteq InPacket
    BY <1>2, <2>1, NextByte
  <2>3. gTx0BufIdx \in Nat
    BY TypeFacts DEF Inv
  <2>4. QED BY <2>2, <2>3 DEF PacketInv, BuiltInv, OfPacket, Continues
<1>3. CASE SciTx0Data
  <2>1. pc = "write" /\ bus' = gTx0Buf[0] /\ gTx0Cnt = FrameLen
    BY <1>3 DEF SciTx0Data, WriteUDR0, PacketInv, LineInv, Inv, BusInv
  <2>2. bus'.pos = 0
    BY <2>1, Lengths DEF PacketInv, BuiltInv, InPacket, OfPacket
  <2>3. QED BY <2>1, <2>2 DEF PacketInv, LineInv, Between, Starts
<1>4. CASE DirectByte
  <2>1. /\ pc = "direct" /\ bus' = arg /\ arg = Token("cmd", 0, 0, arg.pos)
        /\ gTx0BufIdx = 0 /\ (arg.pos > 0 => bus = Token("cmd", 0, 0, arg.pos - 1))
    BY <1>4, TypeFacts DEF DirectByte, WriteUDR0, PacketInv, LineInv, Inv, BusInv
  <2>2. arg.pos \in Nat
    BY Lengths DEF Inv, TypeOK, Tokens
  <2>3. CASE arg.pos = 0
    BY <2>1, <2>3 DEF PacketInv, LineInv, Between, Starts
  <2>4. CASE arg.pos > 0
    BY <2>1, <2>2, <2>4 DEF Continues, Token
  <2>5. QED BY <2>2, <2>3, <2>4
<1>5. QED BY <1>1, <1>2, <1>3, <1>4

LEMMA FrameOrder ==
  ASSUME HostWaits, Inv, PacketInv, SceneInv, [Next]_vars, caller = "complete_motion"
  PROVE  FrameStep /\ EndStep
<1>1. FrameInv /\ OrderInv
  BY DEF SceneInv
<1>2. EndStep
  <2> SUFFICES ASSUME EndMotion PROVE bus.scene = LastScene /\ bus.frame = LastFrame(LastScene)
    BY DEF EndStep
  <2>1. pc = "loop" /\ ~F_PLAYING /\ gSceneIndex >= LastScene
    BY DEF EndMotion
  <2>2. motion \in Motions /\ gSceneIndex \in 0 .. LastScene
    BY <1>1, <2>1 DEF OrderInv
  <2>3. gSceneIndex = LastScene
    BY <2>1, <2>2, SceneHasFrames DEF LastScene
  <2>4. QED BY <1>1, <2>1, <2>3 DEF OrderInv
<1>3. FrameStep
  <2> SUFFICES ASSUME flip' # flip
               PROVE  IF bus'.pos > 0 THEN bus'.frame = bus.frame
                      ELSE \/ bus'.scene = 0 /\ bus'.frame = 1
                           \/ bus'.scene = bus.scene /\ bus'.frame = bus.frame + 1
                           \/ /\ bus'.scene = bus.scene + 1 /\ bus'.frame = 1
                              /\ bus.frame = LastFrame(bus.scene)
    BY DEF FrameStep
  <2>1. USART0_TX \/ SciTx0Data
    <3>1. pc # "direct"
      BY <1>1 DEF OrderInv, Making
    <3>2. QED
      BY <3>1
         DEF Next, Foreground, Host, ByteSent, TIMER1_OVF, MakeFrame, SyncPosSend, SendFrame,
             ProcessFrames, StartMotion, NextScene, EndMotion, FlashNextScene, FlashReturn,
             BeginPose, StuffPose, BeginDirect, DirectByte, hw, vars
  <2>2. CASE USART0_TX
    <3>1. gTx0BufIdx < gTx0Cnt
      BY <2>2 DEF USART0_TX
    <3>2. /\ bus' = gTx0Buf[gTx0BufIdx] /\ bus = gTx0Buf[gTx0BufIdx - 1]
          /\ {gTx0BufIdx, gTx0BufIdx - 1} \subseteq InPacket
      BY <2>2, <3>1, NextByte
    <3>3. gTx0BufIdx \in Nat
      BY TypeFacts DEF Inv
    <3>4. bus.pos = gTx0BufIdx - 1 /\ bus'.pos = gTx0BufIdx /\ bus.pos >= 0
      BY <3>2, <3>3 DEF PacketInv, BuiltInv, OfPacket, InPacket
    <3>5. bus'.frame = bus.frame
      BY <1>1, <3>2 DEF FrameInv
    <3>6. QED BY <3>3, <3>4, <3>5
  <2>3. CASE SciTx0Data
    <3>1. pc = "write" /\ bus' = gTx0Buf[0] /\ gTx0Cnt = FrameLen
      BY <2>3 DEF SciTx0Data, WriteUDR0, PacketInv, LineInv, Inv, BusInv
    <3>2. bus'.pos = 0 /\ bus'.scene = gSceneIndex /\ bus'.frame = gFrameIdx
      BY <1>1, <3>1, Lengths DEF PacketInv, BuiltInv, FrameInv, InPacket, OfPacket, Making
    <3>3. \/ gFrameIdx = 1 /\ SceneBegins
          \/ bus.scene = gSceneIndex /\ bus.frame = gFrameIdx - 1
      BY <1>1, <3>1 DEF OrderInv, Making
    <3>4. gFrameIdx \in Nat /\ gSceneIndex \in Int
      BY TypeFacts DEF Inv
    <3>5. QED BY <3>2, <3>3, <3>4 DEF SceneBegins
  <2>4. QED BY <2>1, <2>2, <2>3
<1>4. QED BY <1>2, <1>3

\* FramesInOrder: every byte on the bus follows its predecessor of the same packet or starts
\* a packet after a whole one, whoever plays; complete_motion sends the frames of a motion
\* one after the other, none left out, none twice, and ends after the last (motion.c 473,
\* main.c 128).
THEOREM FramesFollow ==
  ASSUME HostWaits
  PROVE  Spec => FramesInOrder
<1> DEFINE Whole == Inv /\ PacketInv /\ SceneInv
<1>1. Init => Whole
  BY InitInv, PacketInit
<1>2. Whole /\ [Next]_vars => Whole'
  BY NextInv, PacketNext, SceneNext
<1>3. Whole /\ [Next]_vars
        => [PacketStep /\ (caller = "complete_motion" => FrameStep /\ EndStep)]_vars
  BY PacketOrder, FrameOrder
<1>4. QED BY <1>1, <1>2, <1>3, PTL DEF Spec, FramesInOrder
=============================================================================
