---------------------------- MODULE SerialSlave ----------------------------
(***************************************************************************)
(* Serial slave mode (homebrewos serialslave_mode.c, motion.c): the host   *)
(* loads motions into two buffers that take turns while the robot plays.   *)
(*                                                                         *)
(* Three actors: the foreground (Do_Serial, the load loop, and             *)
(* continue_motions, which both call), the receive interrupt that stores   *)
(* the motion block while a load is on, and the timer interrupt that ends  *)
(* a scene.  What happens inside a scene is in MotionFrames.               *)
(*                                                                         *)
(* A byte of a motion block is <<m, k>>, the k-th byte of the m-th motion  *)
(* the host asked to load; its first byte is the number of scenes.         *)
(***************************************************************************)
EXTENDS Integers, Sequences

CONSTANTS
  kMaxMotionBufSize,
  ByteBase,     \* 256: a 16-bit integer is read as two bytes in this base
  Sizes,        \* the block sizes a host asks for; one that is too large, too
  MaxLoads, MaxScenes,   \* bounds
  Polite,       \* TRUE: the host asks for a load only while no buffer is in waiting
  Prompt        \* TRUE: the host is never late, neither with the delimiter that
                \* ends its request nor with the last bytes of a block

ASSUME SlaveAssumption ==
  /\ kMaxMotionBufSize \in Nat \ {0} /\ ByteBase \in Nat \ {0} /\ Sizes \subseteq Nat \ {0}
  /\ MaxLoads \in Nat /\ MaxScenes \in Nat \ {0}
  /\ {Polite, Prompt} \subseteq BOOLEAN

NULL == 0
Bufs == {1, 2}                \* motionBuf1, motionBuf2
Blank == <<0, 255>>           \* 0xFF, what a buffer is filled with
Delimiter == <<0, 0>>
Tokens == ((0 .. MaxLoads) \X (1 .. kMaxMotionBufSize)) \cup {Blank, Delimiter}
None == [type |-> "none", motion |-> 0, scene |-> 0]

VARIABLES
  toggle,                        \* nextMotionBuf of motion.c
  nextMotionBuf, curMotionBuf,   \* those of serialslave_mode.c
  motionBuf,                     \* the contents of the two buffers
  nextRxIndex, nextBytesExpected, inMotion,
  gSceneIndex, F_PLAYING,
  rxHandler,                     \* ReceiveIntoMotionBuf is the UART's handler
  pc, back,                      \* the foreground; where continue_motions returns to
  low,                           \* the low byte of nextRxIndex, read first
  late,                          \* gTicks - startTicks > 50
  motion,                        \* what the host asked to load: sizes, scenes
  term, ready, sent,             \* the host: delimiter still to come, '^' seen, bytes sent
  acked, failed, begun, stray,   \* history
  playing, note                  \* history: the motion started last, the last notification

bufs  == <<toggle, nextMotionBuf, curMotionBuf>>
rx    == <<motionBuf, nextRxIndex, sent, term, stray>>
scene == <<gSceneIndex, F_PLAYING, inMotion>>
fg    == <<pc, back, low>>
load  == <<nextBytesExpected, rxHandler, late, motion, ready>>
told  == <<acked, failed>>
notes == <<begun, playing, note>>
vars  == <<bufs, rx, scene, fg, load, told, notes>>

Init ==
  /\ toggle = 2 /\ nextMotionBuf = NULL /\ curMotionBuf = NULL
  /\ motionBuf = [b \in Bufs |-> [i \in 0 .. kMaxMotionBufSize - 1 |-> Blank]]
  /\ nextRxIndex = 0 /\ nextBytesExpected = 0 /\ inMotion = FALSE
  /\ gSceneIndex = -1 /\ F_PLAYING = FALSE
  /\ rxHandler = FALSE
  /\ pc = "main" /\ back = "main" /\ low = 0 /\ late = FALSE
  /\ motion = << >> /\ term = FALSE /\ ready = FALSE /\ sent = 0
  /\ acked = {} /\ failed = {} /\ begun = {} /\ stray = 0
  /\ playing = 0 /\ note = None

Last == Len(motion)              \* the motion the host asked for last
Requested == Last > 0 /\ sent < motion[Last].size
FirstByte(b) == motionBuf[b][0]

\* curMotionBuf[0]: the scenes of a motion, 0xFF of a blank buffer, or 0.
NumOfScene(b) ==
  CASE FirstByte(b) = Blank     -> MaxScenes + 1
    [] FirstByte(b) = Delimiter -> 0
    [] OTHER -> IF FirstByte(b)[2] = 1 THEN motion[FirstByte(b)[1]].scenes
                                       ELSE MaxScenes + 1

\* Buffer b holds motion m, all of it.
Holds(b, m) == \A k \in 1 .. motion[m].size : motionBuf[b][k - 1] = <<m, k>>

-----------------------------------------------------------------------------
\* Mutants of the definitions below: the buffers do not take turns; the block is
\* complete one byte early; an incomplete motion is not told from a complete one; one
\* scene too many; the scenes are not counted.
SameBuffer == toggle
OneByteEarly(n) == n + 1 < nextBytesExpected
PartCounts(n) == nextMotionBuf = curMotionBuf
OneSceneMore == gSceneIndex < NumOfScene(curMotionBuf)
SameScene == IF gSceneIndex = -1 THEN 0 ELSE gSceneIndex

-----------------------------------------------------------------------------
(***************************************************************************)
(* The interrupts, the clock and the line from the host.                   *)
(***************************************************************************)
\* ReceiveIntoMotionBuf; without it the byte goes to the command buffer.
Receive(c) ==
  IF rxHandler
  THEN /\ motionBuf' = [motionBuf EXCEPT ![nextMotionBuf][nextRxIndex] = c]
       /\ nextRxIndex' = nextRxIndex + 1
       /\ UNCHANGED stray
  ELSE /\ stray' = IF c = Delimiter THEN stray ELSE stray + 1
       /\ UNCHANGED <<motionBuf, nextRxIndex>>

\* A byte takes hundreds of instructions: between the two that read the index
\* at most one arrives.
RoomInTime == pc \in {"test2", "next2"} => low = nextRxIndex % ByteBase

\* The delimiter that ends the load request, which nobody waits for.
DelimiterArrives ==
  /\ term /\ RoomInTime
  /\ term' = FALSE
  /\ Receive(Delimiter)
  /\ UNCHANGED <<bufs, sent, scene, fg, load, told, notes>>

ByteArrives ==
  /\ ready /\ ~term /\ Requested /\ RoomInTime
  /\ sent' = sent + 1
  /\ Receive(<<Last, sent + 1>>)
  /\ UNCHANGED <<bufs, term, scene, fg, load, told, notes>>

ByteLost ==
  /\ ready /\ ~term /\ Requested
  /\ sent' = sent + 1
  /\ UNCHANGED <<bufs, motionBuf, nextRxIndex, term, stray, scene, fg, load, told, notes>>

\* Five seconds.  A prompt host has sent all of it by then and the load loop has
\* noticed: only a lost byte is still missed.
TimePasses ==
  /\ rxHandler /\ ready /\ ~late
  /\ Prompt => ~Requested /\ nextRxIndex < nextBytesExpected
  /\ late' = TRUE
  /\ UNCHANGED <<bufs, rx, scene, fg, nextBytesExpected, rxHandler, motion, ready, told, notes>>

\* TIMER1_OVF after the last frame.
SceneEnds ==
  /\ F_PLAYING
  /\ F_PLAYING' = FALSE
  /\ UNCHANGED <<bufs, rx, gSceneIndex, inMotion, fg, load, told, notes>>

-----------------------------------------------------------------------------
(***************************************************************************)
(* handle_load_motion.                                                     *)
(***************************************************************************)
\* The host knows from the notifications whether a motion is waiting to begin,
\* and from the time-out message whether a load was given up half way.
NoneWaiting == nextMotionBuf = curMotionBuf \/ ~inMotion

\* The request and its size; if that is too much, an error and nothing else.
LoadRequest ==
  /\ pc = "main" /\ Last < MaxLoads
  /\ Polite => NoneWaiting
  /\ ~term /\ (ready => ~Requested)
  /\ \E n \in Sizes, s \in 1 .. MaxScenes :
       /\ motion' = Append(motion, [size |-> n, scenes |-> s])
       /\ nextBytesExpected' = n
       /\ pc' = IF n > kMaxMotionBufSize THEN "cont" ELSE "prepare"
       /\ term' \in BOOLEAN         \* handle_load_motion does without a delimiter
  /\ back' = "main"
  /\ ready' = FALSE /\ sent' = 0 /\ late' = FALSE
  /\ UNCHANGED <<bufs, motionBuf, nextRxIndex, stray, scene, low, rxHandler, told, notes>>

GetNextMotionBuffer == IF toggle = 1 THEN 2 ELSE 1

\* GetNextMotionBuffer, and the buffer is filled with 0xFF.
Prepare ==
  /\ pc = "prepare"
  /\ toggle' = GetNextMotionBuffer
  /\ nextMotionBuf' = toggle'
  /\ motionBuf' = [motionBuf EXCEPT ![toggle'] = [i \in 0 .. kMaxMotionBufSize - 1 |-> Blank]]
  /\ nextRxIndex' = 0
  /\ pc' = "handler"
  /\ UNCHANGED <<curMotionBuf, sent, term, stray, scene, back, low, load, told, notes>>

\* A prompt delimiter has come while the buffer was filled.
SetHandler ==
  /\ pc = "handler"
  /\ Prompt => ~term
  /\ rxHandler' = TRUE
  /\ pc' = "ready"
  /\ UNCHANGED <<bufs, rx, scene, back, low, nextBytesExpected, late, motion, ready, told, notes>>

\* '^': let the host know we are ready.
SendReady ==
  /\ pc = "ready"
  /\ ready' = TRUE
  /\ pc' = "test"
  /\ UNCHANGED <<bufs, rx, scene, back, low, nextBytesExpected, rxHandler, late, motion,
                 told, notes>>

\* while (nextRxIndex < nextBytesExpected): the integer is read low byte first.
ReadLow(from, to) ==
  /\ pc = from
  /\ low' = nextRxIndex % ByteBase
  /\ pc' = to
  /\ UNCHANGED <<bufs, rx, scene, back, load, told, notes>>

IndexRead == (nextRxIndex \div ByteBase) * ByteBase + low

MoreExpected(n) == n < nextBytesExpected

TestLow == ReadLow("test", "test2")

TestHigh ==
  /\ pc = "test2"
  /\ IF MoreExpected(IndexRead) THEN pc' = "cont" /\ back' = "tick"
                                ELSE pc' = "finish" /\ UNCHANGED back
  /\ UNCHANGED <<bufs, rx, scene, low, load, told, notes>>

TimedOut == late

\* Timed out: the handler is taken back, the buffer stays as it is.
TestTime ==
  /\ pc = "tick"
  /\ IF TimedOut THEN /\ rxHandler' = FALSE
                      /\ failed' = failed \cup {Last}
                      /\ pc' = "main"
                 ELSE /\ pc' = "test"
                      /\ UNCHANGED <<rxHandler, failed>>
  /\ UNCHANGED <<bufs, rx, scene, back, low, nextBytesExpected, late, motion, ready,
                 acked, notes>>

ResetHandler ==
  /\ pc = "finish"
  /\ rxHandler' = FALSE
  /\ pc' = "ack"
  /\ UNCHANGED <<bufs, rx, scene, back, low, nextBytesExpected, late, motion, ready, told, notes>>

SendAck ==
  /\ pc = "ack"
  /\ acked' = acked \cup {Last}
  /\ pc' = "start"
  /\ UNCHANGED <<bufs, rx, scene, back, low, load, failed, notes>>

\* If no motion is in progress, then start the new one.
StartMotion ==
  /\ pc = "start"
  /\ IF inMotion
     THEN pc' = "main" /\ UNCHANGED <<curMotionBuf, gSceneIndex, inMotion, back>>
     ELSE /\ curMotionBuf' = nextMotionBuf
          /\ gSceneIndex' = -1      \* scene 0 is the next
          /\ inMotion' = TRUE
          /\ pc' = "begin" /\ back' = "main"
  /\ UNCHANGED <<toggle, nextMotionBuf, rx, F_PLAYING, low, load, told, notes>>

-----------------------------------------------------------------------------
(***************************************************************************)
(* continue_motions, after every Do_Serial and in every turn of the load   *)
(* loop.                                                                   *)
(***************************************************************************)
DoSerialIdle ==
  /\ pc = "main"
  /\ pc' = "cont" /\ back' = "main"
  /\ UNCHANGED <<bufs, rx, scene, low, load, told, notes>>

NothingToContinue ==
  /\ pc = "cont"
  /\ ~inMotion \/ F_PLAYING
  /\ pc' = back
  /\ UNCHANGED <<bufs, rx, scene, back, low, load, told, notes>>

MoreScenes == gSceneIndex + 1 < NumOfScene(curMotionBuf)

ContinueScene ==
  /\ pc = "cont" /\ inMotion /\ ~F_PLAYING
  /\ MoreScenes
  /\ pc' = "begin"
  /\ UNCHANGED <<bufs, rx, scene, back, low, load, told, notes>>

\* All done with the motion: 'd', and gSceneIndex = -1.
MotionDone ==
  /\ pc = "cont" /\ inMotion /\ ~F_PLAYING
  /\ ~MoreScenes
  /\ note' = [type |-> "d", motion |-> playing, scene |-> 0]
  /\ gSceneIndex' = -1
  /\ pc' = "next"
  /\ UNCHANGED <<bufs, rx, F_PLAYING, inMotion, back, low, load, told, begun, playing>>

NextLow == ReadLow("next", "next2")

\* No next motion has been received, or not completely; n is the index read.
NothingNext(n) == nextMotionBuf = curMotionBuf \/ n < nextBytesExpected

\* The next motion, or the end.
NextHigh ==
  /\ pc = "next2"
  /\ IF NothingNext(IndexRead)
     THEN /\ inMotion' = FALSE
          /\ pc' = back
          /\ UNCHANGED curMotionBuf
     ELSE /\ curMotionBuf' = nextMotionBuf
          /\ pc' = "begin"
          /\ UNCHANGED inMotion
  /\ UNCHANGED <<toggle, nextMotionBuf, rx, gSceneIndex, F_PLAYING, back, low, load, told, notes>>

NextScene == gSceneIndex + 1

\* 'b', and PlaySceneFromBuffer; a scene of short frames starts no timer.
BeginScene ==
  /\ pc = "begin"
  /\ LET m == IF gSceneIndex = -1 THEN FirstByte(curMotionBuf)[1] ELSE playing
     IN  /\ note' = [type |-> "b", motion |-> m, scene |-> NextScene]
         /\ playing' = m
         /\ begun' = begun \cup {m}
  /\ gSceneIndex' = NextScene
  /\ F_PLAYING' \in {TRUE, F_PLAYING}
  /\ pc' = back
  /\ UNCHANGED <<bufs, rx, inMotion, back, low, load, told>>

-----------------------------------------------------------------------------
Loading == \/ Prepare \/ SetHandler \/ SendReady \/ TestLow \/ TestHigh \/ TestTime
           \/ ResetHandler \/ SendAck \/ StartMotion

Playing == \/ DoSerialIdle \/ NothingToContinue \/ ContinueScene \/ MotionDone
           \/ NextLow \/ NextHigh \/ BeginScene

Line == DelimiterArrives \/ ByteArrives \/ ByteLost

Next == LoadRequest \/ Loading \/ Playing \/ Line \/ TimePasses \/ SceneEnds

\* The processor runs, scenes and time-outs end, and bytes do not stay on the
\* way; whether the host asks for another motion is up to it.
Fairness == /\ WF_vars(Loading \/ Playing)
            /\ WF_vars(Line)
            /\ WF_vars(TimePasses)
            /\ WF_vars(SceneEnds)

Spec == Init /\ [][Next]_vars /\ Fairness

-----------------------------------------------------------------------------
Notes == [type : {"none", "b", "d"}, motion : 0 .. MaxLoads, scene : 0 .. MaxScenes]

TypeOK ==
  /\ toggle \in Bufs /\ {nextMotionBuf, curMotionBuf} \subseteq Bufs \cup {NULL}
  /\ motionBuf \in [Bufs -> [0 .. kMaxMotionBufSize - 1 -> Tokens]]
  /\ nextRxIndex \in 0 .. kMaxMotionBufSize /\ nextBytesExpected \in Sizes \cup {0}
  /\ {inMotion, F_PLAYING, rxHandler, late, term, ready} \subseteq BOOLEAN
  /\ gSceneIndex \in -1 .. MaxScenes - 1
  /\ pc \in {"main", "prepare", "handler", "ready", "test", "test2", "tick", "finish",
             "ack", "start", "cont", "next", "next2", "begin"}
  /\ back \in {"main", "tick"} /\ low \in 0 .. ByteBase - 1
  /\ motion \in Seq([size : Sizes, scenes : 1 .. MaxScenes]) /\ Last <= MaxLoads
  /\ sent \in 0 .. kMaxMotionBufSize /\ stray \in Nat
  /\ acked \cup failed \cup begun \subseteq 0 .. MaxLoads
  /\ playing \in 0 .. MaxLoads /\ note \in Notes

\* The bytes of a block go where they belong.  None is taken for a command: the
\* host sends it after '^', and by then the handler is in place (serialslave_mode.c
\* 182-187); and none is written over the motion being played (motion.c 115-116),
\* whose scenes are all still there when their turn comes.
BlockInPlace == /\ stray = 0
                /\ note.type = "b" => playing > 0 /\ Holds(curMotionBuf, playing)

\* The robot says a motion is received only when all of it is there, each byte in
\* its place (serialslave_mode.c 156-157, 190-191).
AckStep == acked' # acked => Holds(nextMotionBuf, Last)
AckMeansComplete == [][AckStep]_vars

\* The host can follow the play by what it is told (serialslave_mode.c 193-259), and
\* "no next motion has been received (or not received completely)" (257) is what the
\* robot finds when it comes to rest.
Host == INSTANCE PlayQueue WITH
          asked  <- [m \in 1 .. Last |-> motion[m].scenes],
          moving <- inMotion
ImplementsPlayQueue == Host!Spec

\* What is acknowledged is played, and played to the end.
PlayedToTheEnd == /\ \A m \in 1 .. MaxLoads : m \in acked ~> m \in begun
                  /\ inMotion ~> (note.type = "d")
=============================================================================
