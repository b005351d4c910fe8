---------------------------- MODULE MotionFrames ----------------------------
(***************************************************************************)
(* Playing a motion (homebrewos motion.c, main.c): the foreground builds   *)
(* one position packet per frame in gTx0Buf, the transmit-complete         *)
(* interrupt of UART0 sends it to the servo bus byte by byte, and Timer1   *)
(* asks for the next frame and ends the scene.                             *)
(*                                                                         *)
(* A byte on the bus is a record of what it stands for: the packet it was  *)
(* built in (a frame of a scene, the basic pose, or a command sent with    *)
(* sciTx0Data) and its position there.                                     *)
(***************************************************************************)
EXTENDS Integers, Sequences

CONSTANTS
  Servos,       \* how many servos the packet has a byte for
  MaxScenes, MaxFrames, MaxMotions, MaxCommands,   \* bounds
  Callers,      \* who may play: "complete_motion", "serialslave", "M_PlayFlash"
  HostWaits     \* TRUE: the host sends bus commands only while nothing is played

ASSUME MotionAssumption ==
  /\ {Servos, MaxScenes, MaxFrames} \subseteq Nat \ {0}
  /\ {MaxMotions, MaxCommands} \subseteq Nat
  /\ Callers \subseteq {"complete_motion", "serialslave", "M_PlayFlash"}
  /\ HostWaits \in BOOLEAN

HeaderLen == 3                      \* HEADER, torque and id byte, last id
FrameLen  == HeaderLen + Servos + 1 \* ... and the checksum
BufLen    == 4 * FrameLen           \* TX0_BUF_SIZE, with room for what is appended
CommandLen == 2

Blank == [kind |-> "none", scene |-> 0, frame |-> 0, pos |-> 0]
Token(kind, scene, frame, pos) ==
  [kind |-> kind, scene |-> scene, frame |-> frame, pos |-> pos]

VARIABLES
  motion,      \* per scene: number of frames, and whether a frame lasts 20 ms
  gSceneIndex, gFrameIdx, gNumOfFrame,
  F_PLAYING, F_NEXTFRAME,
  timer1,      \* Timer1 overflow interrupt enabled
  gTx0Buf, gTx0Cnt, gTx0BufIdx,
  uart0,       \* the UART: at most one byte shifting and one in the data register
  txc,         \* the transmit-complete flag: USART0_TX is pending
  pc, ret,     \* the foreground: where it is, and who called MakeFrame
  arg,         \* the argument of sciTx0Data
  caller,      \* who plays: it stays the same, only one mode is in control
  motions, commands,   \* how many have begun
  bus, flip    \* history: the byte last written to UDR0; flips with each byte

play  == <<motion, gSceneIndex, gNumOfFrame>>
clock == <<gFrameIdx, F_PLAYING, F_NEXTFRAME, timer1>>
tx    == <<gTx0Buf, gTx0Cnt, gTx0BufIdx>>
hw    == <<uart0, txc, bus, flip>>
fg    == <<pc, ret, arg>>
env   == <<caller, motions, commands>>
vars  == <<play, clock, tx, hw, fg, env>>

Motions ==
  UNION {[1 .. n -> [frames : 1 .. MaxFrames, slow : BOOLEAN]] : n \in 1 .. MaxScenes}
LastScene == Len(motion) - 1
SceneData(s) == motion[s + 1]

Init ==
  /\ motion = << >> /\ gSceneIndex = -1 /\ gNumOfFrame = 0
  /\ gFrameIdx = 0 /\ F_PLAYING = FALSE /\ F_NEXTFRAME = FALSE /\ timer1 = FALSE
  /\ gTx0Buf = [i \in 0 .. BufLen - 1 |-> Blank] /\ gTx0Cnt = 0 /\ gTx0BufIdx = 0
  /\ uart0 = << >> /\ txc = FALSE
  /\ pc = "done" /\ ret = "play" /\ arg = Blank
  /\ caller \in Callers /\ motions = 0 /\ commands = 0
  /\ bus = Blank /\ flip = 0

-----------------------------------------------------------------------------
\* Mutants of the definitions below: the scene is ended one tick late or
\* early; the interrupt does not empty the transmit buffer; MakeFrame does not wait
\* for it.
OneFrameTooMany == gFrameIdx > gNumOfFrame
OneFrameTooFew == gFrameIdx + 1 = gNumOfFrame
BufferNotEmptied == gTx0BufIdx' = 0 /\ UNCHANGED gTx0Cnt
MakeAtOnce ==
  /\ pc = "make"
  /\ gFrameIdx' = gFrameIdx + 1
  /\ pc' = "fill"
  /\ UNCHANGED <<play, F_PLAYING, F_NEXTFRAME, timer1, tx, hw, ret, arg, env>>

-----------------------------------------------------------------------------
(***************************************************************************)
(* The UART and the interrupts.                                            *)
(***************************************************************************)
UDRE == Len(uart0) < 2

WriteUDR0(b) == /\ uart0' = Append(uart0, b)
                /\ bus' = b
                /\ flip' = 1 - flip

\* A byte is out; the flag rises when there is no other behind it.
ByteSent ==
  /\ uart0 # << >>
  /\ uart0' = Tail(uart0)
  /\ txc' = (txc \/ Len(uart0) = 1)
  /\ UNCHANGED <<play, clock, tx, fg, env, bus, flip>>

PacketSent == gTx0BufIdx' = 0 /\ gTx0Cnt' = 0

USART0_TX ==
  /\ txc
  /\ txc' = FALSE
  /\ \/ /\ gTx0BufIdx < gTx0Cnt
        /\ UDRE
        /\ WriteUDR0(gTx0Buf[gTx0BufIdx])
        /\ gTx0BufIdx' = gTx0BufIdx + 1
        /\ UNCHANGED gTx0Cnt
     \/ /\ gTx0BufIdx = gTx0Cnt
        /\ PacketSent
        /\ UNCHANGED <<uart0, bus, flip>>
     \/ /\ gTx0BufIdx > gTx0Cnt
        /\ UNCHANGED <<gTx0BufIdx, gTx0Cnt, uart0, bus, flip>>
  /\ UNCHANGED <<play, clock, fg, env, gTx0Buf>>

(***************************************************************************)
(* TIMER1_OVF.  A tick is at least 20 ms after the scene was started or    *)
(* after the tick before (CalcFrameInterval), a packet takes two or three. *)
(* So none comes while a timed scene is being started; and complete_motion,*)
(* which does nothing but poll, has long served the tick before.  The      *)
(* serial slave may reach process_frames at any time, just before the next *)
(* tick too, and M_PlayFlash starts scenes whatever the timer does.        *)
(***************************************************************************)
TickPossible ==
  CASE caller = "complete_motion" -> pc = "loop" /\ gTx0Cnt = 0
    [] caller = "serialslave"     -> pc = "loop" \/ ret # "play"
    [] caller = "M_PlayFlash"     -> TRUE

LastFrameMade == gFrameIdx = gNumOfFrame

TIMER1_OVF ==
  /\ timer1
  /\ TickPossible
  /\ IF LastFrameMade
     THEN /\ gFrameIdx' = 0
          /\ F_PLAYING' = FALSE
          /\ timer1' = FALSE
          /\ UNCHANGED F_NEXTFRAME
     ELSE /\ F_NEXTFRAME' = TRUE
          /\ UNCHANGED <<gFrameIdx, F_PLAYING, timer1>>
  /\ UNCHANGED <<play, tx, hw, fg, env>>

-----------------------------------------------------------------------------
(***************************************************************************)
(* Building and sending a frame.                                           *)
(***************************************************************************)
\* Put one byte into the transmit buffer: gTx0Buf[gTx0Cnt] = b; gTx0Cnt++.
Stuff(b) == /\ gTx0Buf' = [gTx0Buf EXCEPT ![gTx0Cnt] = b]
            /\ gTx0Cnt' = gTx0Cnt + 1

\* MakeFrame: wait until the transmit buffer is empty, go to the next frame ...
MakeFrame ==
  /\ pc = "make"
  /\ gTx0Cnt = 0
  /\ gFrameIdx' = gFrameIdx + 1
  /\ pc' = "fill"
  /\ UNCHANGED <<play, F_PLAYING, F_NEXTFRAME, timer1, tx, hw, ret, arg, env>>

\* ... and SyncPosSend: one byte after the other, each computed from what the
\* global gFrameIdx is at that moment.
SyncPosSend ==
  /\ pc = "fill"
  /\ gTx0Cnt < BufLen
  /\ Stuff(Token("frame", gSceneIndex, gFrameIdx, gTx0Cnt))
  /\ pc' = IF gTx0Cnt + 1 = FrameLen THEN "send" ELSE "fill"
  /\ UNCHANGED <<play, clock, gTx0BufIdx, hw, ret, arg, env>>

\* SendFrame: advance the pointer, fetch the byte it has passed ...
SendFrame ==
  /\ pc = "send"
  /\ gTx0BufIdx' = gTx0BufIdx + 1
  /\ arg' = gTx0Buf[gTx0BufIdx]
  /\ pc' = "write"
  /\ UNCHANGED <<play, clock, gTx0Buf, gTx0Cnt, hw, ret, env>>

\* F_NEXTFRAME = 0, when process_frames was the caller.
RequestServed == IF ret = "process" THEN FALSE ELSE F_NEXTFRAME

\* ... and sciTx0Data: wait for the data register, write it; then whoever called
\* goes on (process_frames clears the flag that a tick may have set meanwhile).
SciTx0Data ==
  /\ pc = "write"
  /\ UDRE
  /\ WriteUDR0(arg)
  /\ F_NEXTFRAME' = RequestServed
  /\ pc' = IF caller = "M_PlayFlash" THEN "flash" ELSE "loop"
  /\ UNCHANGED <<play, gFrameIdx, F_PLAYING, timer1, tx, txc, ret, arg, env>>

\* process_frames, called from complete_motion's inner loop while the scene
\* plays, from the serial slave's main loop always.
ProcessFrames ==
  /\ pc = "loop"
  /\ F_NEXTFRAME
  /\ caller = "complete_motion" => F_PLAYING
  /\ caller # "M_PlayFlash"
  /\ pc' = "make" /\ ret' = "process"
  /\ UNCHANGED <<play, clock, tx, hw, arg, env>>

-----------------------------------------------------------------------------
(***************************************************************************)
(* Starting scenes and motions.                                            *)
(***************************************************************************)
\* CalcFrameInterval: frames shorter than 20 ms start no timer; CalcUnitMove.
BeginScene(m, s) ==
  /\ gSceneIndex' = s
  /\ gNumOfFrame' = m[s + 1].frames
  /\ IF m[s + 1].slow
     THEN F_PLAYING' = TRUE /\ timer1' = TRUE
     ELSE UNCHANGED <<F_PLAYING, timer1>>
  /\ gFrameIdx' = 0
  /\ UNCHANGED F_NEXTFRAME
  /\ pc' = "make" /\ ret' = "play"

\* LoadMotionFromBuffer or GetMotionFromFlash, and the first scene.  Both first
\* set the gains of every servo and wait for each answer (SendTGain), so nothing
\* is left on the line when the scene starts.
StartMotion ==
  /\ pc = "done" /\ motions < MaxMotions
  /\ uart0 = << >> /\ ~txc
  /\ motions' = motions + 1
  /\ \E m \in Motions : motion' = m /\ BeginScene(m, 0)
  /\ UNCHANGED <<tx, hw, arg, caller, commands>>

\* complete_motion and continue_motions: the scene has ended, play the next.
NextScene ==
  /\ pc = "loop" /\ caller # "M_PlayFlash"
  /\ ~F_PLAYING
  /\ gSceneIndex < LastScene
  /\ BeginScene(motion, gSceneIndex + 1)
  /\ UNCHANGED <<motion, tx, hw, arg, env>>

\* ... or that was the last one.
EndMotion ==
  /\ pc = "loop" /\ caller # "M_PlayFlash"
  /\ ~F_PLAYING
  /\ gSceneIndex >= LastScene
  /\ pc' = "done"
  /\ UNCHANGED <<play, clock, tx, hw, ret, arg, env>>

\* M_PlayFlash does not wait: the loop over F_PLAYING is commented out.
FlashNextScene ==
  /\ pc = "flash"
  /\ gSceneIndex < LastScene
  /\ BeginScene(motion, gSceneIndex + 1)
  /\ UNCHANGED <<motion, tx, hw, arg, env>>

FlashReturn ==
  /\ pc = "flash"
  /\ gSceneIndex >= LastScene
  /\ pc' = "done"
  /\ UNCHANGED <<play, clock, tx, hw, ret, arg, env>>

-----------------------------------------------------------------------------
(***************************************************************************)
(* The serial slave's other commands to the bus.                           *)
(***************************************************************************)
Quiet == ~F_PLAYING /\ gTx0Cnt = 0 /\ uart0 = << >> /\ ~txc

CommandAllowed ==
  /\ caller = "serialslave" /\ commands < MaxCommands
  /\ pc \in {"loop", "done"}
  /\ HostWaits => pc = "done" /\ Quiet

\* 'p': BasicPose appends a packet of its own, printing between the bytes ...
BeginPose ==
  /\ CommandAllowed
  /\ commands' = commands + 1
  /\ pc' = "pose" /\ ret' = "pose" /\ arg' = Token("pose", 0, 0, 0)
  /\ UNCHANGED <<play, clock, tx, hw, caller, motions>>

\* ... and starts it without looking at what the buffer was doing.
StuffPose ==
  /\ pc = "pose"
  /\ gTx0Cnt < BufLen
  /\ Stuff(arg)
  /\ arg' = [arg EXCEPT !.pos = @ + 1]
  /\ pc' = IF arg.pos + 1 = FrameLen THEN "send" ELSE "pose"
  /\ UNCHANGED <<play, clock, gTx0BufIdx, hw, ret, env>>

\* 'g', 'q', 'x': a servo command written byte by byte with sciTx0Data.
BeginDirect ==
  /\ CommandAllowed
  /\ commands' = commands + 1
  /\ pc' = "direct" /\ ret' = "pose" /\ arg' = Token("cmd", 0, 0, 0)
  /\ UNCHANGED <<play, clock, tx, hw, caller, motions>>

DirectByte ==
  /\ pc = "direct"
  /\ UDRE
  /\ WriteUDR0(arg)
  /\ arg' = [arg EXCEPT !.pos = @ + 1]
  /\ pc' = IF arg.pos + 1 < CommandLen THEN "direct" ELSE "loop"
  /\ UNCHANGED <<play, clock, tx, txc, ret, env>>

-----------------------------------------------------------------------------
Foreground ==
  \/ MakeFrame \/ SyncPosSend \/ SendFrame \/ SciTx0Data
  \/ ProcessFrames \/ NextScene \/ EndMotion
  \/ FlashNextScene \/ FlashReturn
  \/ StuffPose \/ DirectByte

Host == StartMotion \/ BeginPose \/ BeginDirect

Next == Foreground \/ Host \/ ByteSent \/ USART0_TX \/ TIMER1_OVF

\* The processor goes on, the UART shifts, the timer counts and interrupts are
\* served; ProcessFrames is not starved by the commands, which are bounded.
Fairness == /\ WF_vars(Foreground)
            /\ WF_vars(ByteSent)
            /\ WF_vars(USART0_TX)
            /\ WF_vars(TIMER1_OVF)

Spec == Init /\ [][Next]_vars /\ Fairness

-----------------------------------------------------------------------------
Tokens == [kind : {"none", "frame", "pose", "cmd"}, scene : 0 .. MaxScenes - 1,
           frame : 0 .. MaxFrames, pos : 0 .. FrameLen]

TypeOK ==
  /\ motion \in Motions \cup {<< >>}
  /\ gSceneIndex \in -1 .. MaxScenes - 1
  /\ gNumOfFrame \in 0 .. MaxFrames
  /\ gFrameIdx \in 0 .. gNumOfFrame     \* past it, main.c 144 would miss the end
  /\ {F_PLAYING, F_NEXTFRAME, timer1, txc} \subseteq BOOLEAN
  /\ gTx0Buf \in [0 .. BufLen - 1 -> Tokens]
  /\ gTx0Cnt \in 0 .. BufLen /\ gTx0BufIdx \in 0 .. BufLen
  /\ uart0 \in Seq(Tokens) /\ Len(uart0) <= 2
  /\ pc \in {"done", "loop", "make", "fill", "send", "write", "flash", "pose", "direct"}
  /\ ret \in {"play", "process", "pose"}
  /\ {arg, bus} \subseteq Tokens

\* While the foreground builds a packet the interrupt has nothing to send and
\* nothing pending that would start on the half-built one (motion.c 473).
NoSendWhileBuilding ==
  pc = "fill" => gTx0BufIdx = 0 /\ uart0 = << >> /\ ~txc

\* The bus sees whole packets, whoever plays: each byte follows its predecessor in the packet,
\* and a packet starts when the one before is complete.
PacketLen(b) == CASE b.kind = "none"  -> 1
                  [] b.kind = "cmd"   -> CommandLen
                  [] OTHER            -> FrameLen
Continues(a, b) == b.kind = a.kind /\ b.scene = a.scene /\ b.pos = a.pos + 1
Starts(a, b) == b.pos = 0 /\ a.pos = PacketLen(a) - 1
PacketStep == flip' # flip => Continues(bus, bus') \/ Starts(bus, bus')

\* How far the scene goes: all its frames, or the first one if it is not timed.
LastFrame(s) == IF SceneData(s).slow THEN SceneData(s).frames ELSE 1

\* And complete_motion plays a motion frame by frame: every byte of a packet belongs to one
\* frame, the frames of a scene follow each other from 1 to the last with none
\* left out or repeated, and so do the scenes.
FrameStep ==
  flip' # flip /\ bus'.kind = "frame" =>
    IF bus'.pos > 0 THEN bus'.frame = bus.frame
    ELSE \/ bus'.scene = 0 /\ bus'.frame = 1
         \/ bus'.scene = bus.scene /\ bus'.frame = bus.frame + 1
         \/ /\ bus'.scene = bus.scene + 1 /\ bus'.frame = 1
            /\ bus.frame = LastFrame(bus.scene)
EndStep == EndMotion => bus.scene = LastScene /\ bus.frame = LastFrame(LastScene)
FramesInOrder == [][PacketStep /\ (caller = "complete_motion" => FrameStep /\ EndStep)]_vars

\* No motion plays for ever: its timed scenes end, and so does it.
MotionEnds == (pc # "done") ~> (pc = "done")

=============================================================================
