-------------------------- MODULE SerialSlaveProofs --------------------------
(***************************************************************************)
(* Serial slave mode, for every number and size of motions: the block of a *)
(* motion goes where it belongs, an acknowledgement is true, and what the  *)
(* host is told is what PlayQueue promises, if the host keeps to the       *)
(* protocol and its blocks are not longer than what the low byte of an     *)
(* index tells apart.                                                      *)
(***************************************************************************)
EXTENDS SerialSlave, TLAPS, SequenceTheorems

GoodHost ==
  /\ Polite /\ Prompt
  /\ \A n \in Sizes : n <= kMaxMotionBufSize => n <= ByteBase

Continue == {"cont", "next", "next2", "begin"}    \* continue_motions

\* The load loop, and the whole of handle_load_motion after Prepare.
InLoop == pc \in {"test", "test2", "tick"} \/ (pc \in Continue /\ back = "tick")
LoadOn == pc \in {"handler", "ready", "finish", "ack", "start"} \/ InLoop

\* A motion is being loaded, is in waiting or was given up while another one plays.
Loaded == inMotion /\ nextMotionBuf # curMotionBuf
Starting == pc = "begin" /\ gSceneIndex = -1
Complete == nextRxIndex = nextBytesExpected

\* The receiver: the handler is in place while bytes of a block may come.
RxInv ==
  /\ stray = 0
  /\ rxHandler <=> (pc \in {"ready", "finish"} \/ InLoop)
  /\ rxHandler => ~term
  /\ ready /\ Requested => rxHandler
  /\ pc \in {"prepare", "handler", "ready"} => ~ready /\ ~late /\ sent = 0
  /\ pc \in {"handler", "ready"} => nextRxIndex = 0
  /\ InLoop /\ late => ~Requested /\ ~Complete

\* The next buffer is that of the motion asked for last, from its first byte on.
NextInv ==
  /\ nextMotionBuf \in {NULL, toggle}
  /\ pc = "prepare" => Last > 0 /\ motion[Last].size = nextBytesExpected
                       /\ nextBytesExpected <= kMaxMotionBufSize /\ ~Loaded
                       /\ Last \notin acked \cup failed \cup begun
  /\ LoadOn \/ Loaded \/ Starting =>
       /\ Last > 0 /\ nextMotionBuf = toggle
       /\ nextBytesExpected = motion[Last].size /\ nextBytesExpected <= kMaxMotionBufSize
       /\ nextRxIndex <= sent /\ sent <= nextBytesExpected
       /\ nextRxIndex = sent => \A k \in 1 .. sent : motionBuf[nextMotionBuf][k - 1] = <<Last, k>>
  /\ pc \in {"finish", "ack", "start"} \/ Starting => Complete

\* The index as read is the index, or lags behind by the byte that came in between.
LowInv ==
  pc \in {"test2", "next2"} =>
    \/ low = nextRxIndex % ByteBase
    \/ /\ rxHandler /\ nextRxIndex > 0 /\ low = (nextRxIndex - 1) % ByteBase
       /\ Last \notin begun

\* What was asked for, acknowledged, given up and begun.
HistoryInv ==
  /\ acked \cup failed \cup begun \subseteq 1 .. Last
  /\ acked \cap failed = {} /\ failed \cap begun = {}
  /\ acked \subseteq begun \cup {Last}
  /\ Last \in acked \ begun => ~LoadOn \/ pc = "start"
  /\ Last \in acked \ begun => Complete /\ (pc = "start" \/ Starting \/ Loaded)
  /\ LoadOn /\ pc # "start" => Last \notin acked
  /\ LoadOn => Last \notin failed
  /\ pc = "start" => Last \in acked
  /\ Loaded \/ Starting => Last \notin begun
  /\ Loaded /\ Last \in failed => ~Complete
  /\ Starting => Last \notin failed
  /\ LoadOn /\ ~Starting => (Last \in begun <=> inMotion /\ nextMotionBuf = curMotionBuf)
  /\ LoadOn /\ Last \in begun =>
       Complete /\ pc \in {"test", "test2", "tick", "finish", "ack", "start"}

\* The motion that plays, and what the host was told of it last.
PlayInv ==
  /\ inMotion => curMotionBuf \in Bufs
  /\ ~inMotion => gSceneIndex = -1
  /\ inMotion /\ gSceneIndex = -1 => pc \in {"next", "next2", "begin"}
  /\ pc \in {"next", "next2", "begin"} => inMotion
  /\ pc \in {"next", "next2"} => note.type = "d" /\ gSceneIndex = -1
  /\ note.type = "b" <=> gSceneIndex >= 0
  /\ note.type = "b" =>
       /\ note.motion = playing /\ note.scene = gSceneIndex
       /\ playing \in begun /\ Holds(curMotionBuf, playing)
       /\ gSceneIndex < motion[playing].scenes
       /\ pc = "begin" => gSceneIndex + 1 < motion[playing].scenes
  /\ Starting => curMotionBuf = nextMotionBuf

Inv == TypeOK /\ RxInv /\ NextInv /\ LowInv /\ HistoryInv /\ PlayInv

-----------------------------------------------------------------------------
LEMMA Constants ==
  /\ kMaxMotionBufSize \in Nat /\ kMaxMotionBufSize > 0 /\ ByteBase \in Nat /\ ByteBase > 0
  /\ Sizes \subseteq Nat \ {0} /\ MaxLoads \in Nat /\ MaxScenes \in Nat /\ MaxScenes > 0
BY SlaveAssumption

LEMMA InitInv == Init => Inv
<1> SUFFICES ASSUME Init PROVE Inv
  OBVIOUS
<1> USE Constants DEF Init, Last, Requested, Loaded, Starting, Complete, InLoop, LoadOn, Continue
<1>1. motionBuf \in [Bufs -> [0 .. kMaxMotionBufSize - 1 -> Tokens]]
  BY DEF Bufs, Tokens
<1>2. motion \in Seq([size : Sizes, scenes : 1 .. MaxScenes]) /\ Len(motion) = 0
  OBVIOUS
<1>3. note \in Notes
  BY DEF Notes, None
<1>4. TypeOK
  <2>1. toggle \in Bufs /\ {nextMotionBuf, curMotionBuf} \subseteq Bufs \cup {NULL}
    BY DEF Bufs
  <2>2. nextRxIndex \in 0 .. kMaxMotionBufSize /\ sent \in 0 .. kMaxMotionBufSize /\ stray \in Nat
    OBVIOUS
  <2>3. {inMotion, F_PLAYING, rxHandler, late, term, ready} \subseteq BOOLEAN
    OBVIOUS
  <2>4. /\ gSceneIndex \in -1 .. MaxScenes - 1 /\ low \in 0 .. ByteBase - 1
        /\ playing \in 0 .. MaxLoads
    OBVIOUS
  <2>5. acked \cup failed \cup begun \subseteq 0 .. MaxLoads
    OBVIOUS
  <2>6. QED BY <1>1, <1>2, <1>3, <2>1, <2>2, <2>3, <2>4, <2>5 DEF TypeOK
<1>5. RxInv /\ NextInv /\ LowInv
  BY <1>2 DEF RxInv, NextInv, LowInv, NULL
<1>6. HistoryInv /\ PlayInv
  BY <1>2 DEF HistoryInv, PlayInv, None
<1>7. QED BY <1>4, <1>5, <1>6 DEF Inv

LEMMA Types ==
  ASSUME TypeOK
  PROVE  /\ Last \in Nat /\ Last <= MaxLoads /\ nextRxIndex \in Nat /\ nextBytesExpected \in Nat
         /\ sent \in Nat /\ gSceneIndex \in Int /\ low \in Nat /\ low < ByteBase
         /\ \A m \in 1 .. Last : motion[m].size \in Sizes /\ motion[m].size \in Nat
                                 /\ motion[m].scenes \in 1 .. MaxScenes
<1>1. motion \in Seq([size : Sizes, scenes : 1 .. MaxScenes])
  BY DEF TypeOK
<1>2. \A m \in 1 .. Last : motion[m] \in [size : Sizes, scenes : 1 .. MaxScenes]
  BY <1>1, ElementOfSeq DEF Last
<1>3. \A m \in 1 .. Last : motion[m].size \in Sizes /\ motion[m].size \in Nat
                         /\ motion[m].scenes \in 1 .. MaxScenes
  BY <1>2, Constants
<1>4. QED BY <1>1, <1>3, Constants DEF TypeOK, Last

\* What the index is read as.
LEMMA TwoBytes ==
  ASSUME NEW i \in Nat, i <= ByteBase
  PROVE  /\ (i \div ByteBase) * ByteBase + (i % ByteBase) = i
         /\ i < ByteBase => i \div ByteBase = 0 /\ i % ByteBase = i
<1> USE Constants
<1>1. CASE i < ByteBase
  <2>1. i \div ByteBase = 0 /\ i % ByteBase = i
    BY <1>1
  <2>2. QED BY <2>1
<1>2. CASE i = ByteBase
  <2>1. i \div ByteBase = 1 /\ i % ByteBase = 0
    BY <1>2
  <2>2. QED BY <1>2, <2>1
<1>3. QED BY <1>1, <1>2

LEMMA ReadsTheIndex ==
  ASSUME GoodHost, Inv, pc \in {"test2", "next2"}, LoadOn \/ Loaded
  PROVE  /\ IndexRead \in Nat
         /\ IndexRead >= nextBytesExpected => Complete
         /\ ~rxHandler \/ Last \in begun => IndexRead = nextRxIndex
<1> USE Types, Constants DEF Inv
<1>1. /\ nextRxIndex <= nextBytesExpected /\ nextBytesExpected <= kMaxMotionBufSize
      /\ nextBytesExpected \in Sizes
  BY DEF NextInv, Last
<1>2. nextBytesExpected <= ByteBase /\ nextRxIndex <= ByteBase
  BY <1>1 DEF GoodHost
<1>3. CASE low = nextRxIndex % ByteBase
  <2>1. IndexRead = nextRxIndex
    BY <1>2, <1>3, TwoBytes DEF IndexRead
  <2>2. QED BY <1>1, <2>1 DEF Complete
<1>4. CASE low # nextRxIndex % ByteBase
  <2>1. nextRxIndex > 0 /\ low = (nextRxIndex - 1) % ByteBase /\ rxHandler /\ Last \notin begun
    BY <1>4 DEF LowInv
  <2>2. nextRxIndex - 1 \in Nat /\ nextRxIndex - 1 < ByteBase
    BY <1>2, <2>1
  <2>3. low = nextRxIndex - 1
    BY <2>1, <2>2, TwoBytes
  <2>4. CASE nextRxIndex < ByteBase
    <3>1. nextRxIndex \div ByteBase = 0
      BY <2>4, TwoBytes
    <3>2. IndexRead = nextRxIndex - 1
      BY <2>3, <3>1 DEF IndexRead
    <3>3. QED BY <1>1, <2>1, <2>2, <3>2
  <2>5. CASE nextRxIndex = ByteBase
    <3>1. nextRxIndex \div ByteBase = 1 /\ Complete
      BY <1>1, <1>2, <2>5 DEF Complete
    <3>2. \A q \in Int : q = 1 => q * ByteBase = ByteBase
      OBVIOUS
    <3>3. IndexRead = ByteBase + low
      BY <3>1, <3>2 DEF IndexRead
    <3>4. IndexRead \in Nat
      BY <3>3
    <3>5. QED BY <2>1, <3>1, <3>4
  <2>6. QED BY <1>2, <2>4, <2>5
<1>5. QED BY <1>3, <1>4

\* The first byte of a whole motion is its number of scenes.
LEMMA ScenesOf ==
  ASSUME TypeOK, NEW b \in Bufs, NEW m \in 1 .. Last, Holds(b, m)
  PROVE  FirstByte(b) = <<m, 1>> /\ NumOfScene(b) = motion[m].scenes
<1>1. motion[m].size >= 1
  BY Types, Constants
<1>2. motionBuf[b][0] = <<m, 1>>
  BY <1>1, Types DEF Holds
<1>3. m # 0 /\ <<m, 1>> # Blank /\ <<m, 1>> # Delimiter
  BY DEF Blank, Delimiter
<1>4. QED BY <1>2, <1>3 DEF FirstByte, NumOfScene

-----------------------------------------------------------------------------
(***************************************************************************)
(* The interrupts, the clock and the line.                                 *)
(***************************************************************************)
LEMMA DelimiterArrivesInv == GoodHost /\ Inv /\ DelimiterArrives => Inv'
<1> SUFFICES ASSUME GoodHost, Inv, DelimiterArrives PROVE Inv'
  OBVIOUS
<1> USE Types, Constants DEF Inv, DelimiterArrives, Receive, bufs, rx, scene, fg, load, told, notes
<1> USE DEF Last, Requested, Loaded, Starting, Complete, InLoop, LoadOn, Continue
<1>1. UNCHANGED <<motionBuf, nextRxIndex, stray>>
  BY DEF RxInv
<1>2. TypeOK'
  BY <1>1 DEF TypeOK
<1>3. RxInv'
  BY <1>1 DEF RxInv, TypeOK, GoodHost
<1>4. NextInv'
  BY <1>1 DEF NextInv, TypeOK, GoodHost
<1>5. LowInv'
  BY <1>1 DEF LowInv, RxInv, TypeOK
<1>6. HistoryInv'
  BY <1>1 DEF HistoryInv, PlayInv, TypeOK
<1>7. PlayInv'
  BY <1>1 DEF PlayInv, HistoryInv, TypeOK, Holds
<1>8. QED BY <1>2, <1>3, <1>4, <1>5, <1>6, <1>7

LEMMA ByteArrivesInv == GoodHost /\ Inv /\ ByteArrives => Inv'
<1> SUFFICES ASSUME GoodHost, Inv, ByteArrives PROVE Inv'
  OBVIOUS
<1> USE Types, Constants DEF Inv, bufs, rx, scene, fg, load, told, notes
<1> USE DEF Last, Requested, Loaded, Starting, Complete, InLoop, LoadOn, Continue
<1>1. /\ ready /\ Requested /\ (pc \in {"test2", "next2"} => low = nextRxIndex % ByteBase)
      /\ sent' = sent + 1 /\ Receive(<<Last, sent + 1>>)
      /\ UNCHANGED <<bufs, term, scene, fg, load, told, notes>>
  BY DEF ByteArrives, RoomInTime
<1>2. rxHandler /\ LoadOn /\ ~Complete /\ ~Starting
  BY <1>1 DEF RxInv, NextInv
<1>3. /\ nextBytesExpected = motion[Last].size /\ nextBytesExpected <= kMaxMotionBufSize
      /\ nextRxIndex <= sent /\ sent < nextBytesExpected /\ nextMotionBuf \in Bufs /\ Last > 0
  BY <1>1, <1>2 DEF NextInv, TypeOK
<1>4. Last \notin begun /\ ~(inMotion /\ nextMotionBuf = curMotionBuf)
  BY <1>2 DEF HistoryInv
<1>5. /\ nextRxIndex \in 0 .. kMaxMotionBufSize - 1 /\ sent' \in 0 .. kMaxMotionBufSize
      /\ <<Last, sent + 1>> \in Tokens
  BY <1>1, <1>3 DEF Tokens
<1>6. /\ motionBuf' = [motionBuf EXCEPT ![nextMotionBuf][nextRxIndex] = <<Last, sent + 1>>]
      /\ nextRxIndex' = nextRxIndex + 1 /\ stray' = stray
  BY <1>1, <1>2 DEF Receive
<1>7. /\ nextRxIndex' \in 0 .. kMaxMotionBufSize
      /\ nextRxIndex' - 1 = nextRxIndex /\ nextRxIndex' > 0
  BY <1>5, <1>6
<1>8. /\ motionBuf' \in [Bufs -> [0 .. kMaxMotionBufSize - 1 -> Tokens]]
      /\ \A b \in Bufs \ {nextMotionBuf} : motionBuf'[b] = motionBuf[b]
      /\ \A i \in 0 .. kMaxMotionBufSize - 1 :
           motionBuf'[nextMotionBuf][i] = IF i = nextRxIndex THEN <<Last, sent + 1>>
                                                             ELSE motionBuf[nextMotionBuf][i]
  BY <1>3, <1>5, <1>6 DEF TypeOK
<1>9. ASSUME nextRxIndex' = sent', NEW k \in 1 .. sent'
      PROVE  motionBuf'[nextMotionBuf][k - 1] = <<Last, k>>
  BY <1>1, <1>2, <1>3, <1>6, <1>8, <1>9 DEF NextInv
<1>10. note.type = "b" /\ Holds(curMotionBuf, playing) => Holds(curMotionBuf, playing)'
  <2>1. note.type = "b" => curMotionBuf \in Bufs \ {nextMotionBuf}
    BY <1>4 DEF PlayInv
  <2>2. QED BY <1>1, <1>8, <2>1 DEF Holds
<1>11. TypeOK'
  BY <1>1, <1>3, <1>5, <1>6, <1>7, <1>8 DEF TypeOK
<1>12. RxInv'
  BY <1>1, <1>2, <1>3, <1>4, <1>5, <1>6 DEF RxInv, TypeOK, GoodHost
<1>13. NextInv'
  <2>1. nextRxIndex' = sent' => \A k \in 1 .. sent' : motionBuf'[nextMotionBuf'][k - 1] = <<Last', k>>
    BY <1>1, <1>9
  <2>2. /\ nextRxIndex' <= sent' /\ sent' <= nextBytesExpected'
        /\ pc \notin {"prepare", "finish", "ack", "start"}
        /\ nextBytesExpected' = motion'[Last'].size /\ Last' > 0
    BY <1>1, <1>2, <1>3, <1>6 DEF NextInv, RxInv
  <2>3. QED BY <1>1, <1>2, <1>3, <2>1, <2>2 DEF NextInv
<1>14. LowInv'
  BY <1>1, <1>2, <1>4, <1>6, <1>7 DEF LowInv, RxInv, TypeOK
<1>15. HistoryInv'
  BY <1>1, <1>2, <1>3, <1>4, <1>5, <1>6, <1>7 DEF HistoryInv, PlayInv, TypeOK
<1>16. PlayInv'
  BY <1>1, <1>4, <1>6, <1>10 DEF PlayInv, HistoryInv, TypeOK, Holds
<1>17. QED BY <1>11, <1>12, <1>13, <1>14, <1>15, <1>16

LEMMA ByteLostInv == GoodHost /\ Inv /\ ByteLost => Inv'
<1> SUFFICES ASSUME GoodHost, Inv, ByteLost PROVE Inv'
  OBVIOUS
<1> USE Types, Constants DEF Inv, ByteLost, bufs, rx, scene, fg, load, told, notes
<1> USE DEF Last, Requested, Loaded, Starting, Complete, InLoop, LoadOn, Continue
<1>1. rxHandler /\ LoadOn /\ ~Complete /\ ~Starting
  BY DEF RxInv, NextInv
<1>2. /\ nextBytesExpected = motion[Last].size /\ nextBytesExpected <= kMaxMotionBufSize
      /\ nextRxIndex <= sent /\ sent < nextBytesExpected /\ nextMotionBuf \in Bufs /\ Last > 0
  BY <1>1 DEF NextInv, TypeOK
<1>3. Last \notin begun /\ ~(inMotion /\ nextMotionBuf = curMotionBuf)
  BY <1>1 DEF HistoryInv
<1>4. TypeOK'
  BY <1>1, <1>2, <1>3 DEF TypeOK
<1>5. RxInv'
  BY <1>1, <1>2, <1>3 DEF RxInv, TypeOK, GoodHost
<1>6. NextInv'
  BY <1>1, <1>2, <1>3 DEF NextInv, TypeOK, GoodHost
<1>7. LowInv'
  BY <1>1, <1>2, <1>3 DEF LowInv, RxInv, TypeOK
<1>8. HistoryInv'
  BY <1>1, <1>2, <1>3 DEF HistoryInv, PlayInv, TypeOK
<1>9. PlayInv'
  BY <1>1, <1>2, <1>3 DEF PlayInv, HistoryInv, TypeOK, Holds
<1>10. QED BY <1>4, <1>5, <1>6, <1>7, <1>8, <1>9

LEMMA TimePassesInv == GoodHost /\ Inv /\ TimePasses => Inv'
<1> SUFFICES ASSUME GoodHost, Inv, TimePasses PROVE Inv'
  OBVIOUS
<1> USE Types, Constants DEF Inv, TimePasses, bufs, rx, scene, fg, load, told, notes
<1> USE DEF Last, Requested, Loaded, Starting, Complete, InLoop, LoadOn, Continue
<1>1. TypeOK'
  BY DEF TypeOK
<1>2. RxInv'
  BY DEF RxInv, TypeOK, GoodHost
<1>3. NextInv'
  BY DEF NextInv, TypeOK, GoodHost
<1>4. LowInv'
  BY DEF LowInv, RxInv, TypeOK
<1>5. HistoryInv'
  BY DEF HistoryInv, PlayInv, TypeOK
<1>6. PlayInv'
  BY DEF PlayInv, HistoryInv, TypeOK, Holds
<1>7. QED BY <1>1, <1>2, <1>3, <1>4, <1>5, <1>6

LEMMA SceneEndsInv == GoodHost /\ Inv /\ SceneEnds => Inv'
<1> SUFFICES ASSUME GoodHost, Inv, SceneEnds PROVE Inv'
  OBVIOUS
<1> USE Types, Constants DEF Inv, SceneEnds, bufs, rx, scene, fg, load, told, notes
<1> USE DEF Last, Requested, Loaded, Starting, Complete, InLoop, LoadOn, Continue
<1>1. TypeOK'
  BY DEF TypeOK
<1>2. RxInv'
  BY DEF RxInv, TypeOK, GoodHost
<1>3. NextInv'
  BY DEF NextInv, TypeOK, GoodHost
<1>4. LowInv'
  BY DEF LowInv, RxInv, TypeOK
<1>5. HistoryInv'
  BY DEF HistoryInv, PlayInv, TypeOK
<1>6. PlayInv'
  BY DEF PlayInv, HistoryInv, TypeOK, Holds
<1>7. QED BY <1>1, <1>2, <1>3, <1>4, <1>5, <1>6

-----------------------------------------------------------------------------
(***************************************************************************)
(* handle_load_motion.                                                     *)
(***************************************************************************)
LEMMA LoadRequestInv == GoodHost /\ Inv /\ LoadRequest => Inv'
<1> SUFFICES ASSUME GoodHost, Inv, LoadRequest PROVE Inv'
  OBVIOUS
<1> USE Types, Constants DEF Inv, bufs, rx, scene, fg, load, told, notes
<1> USE DEF Last, Requested, Loaded, Starting, Complete, InLoop, LoadOn, Continue
<1>1. PICK n \in Sizes, s \in 1 .. MaxScenes :
       /\ motion' = Append(motion, [size |-> n, scenes |-> s])
       /\ nextBytesExpected' = n
       /\ pc' = IF n > kMaxMotionBufSize THEN "cont" ELSE "prepare"
  BY DEF LoadRequest
<1>2. /\ pc = "main" /\ Last < MaxLoads /\ term' \in BOOLEAN /\ back' = "main"
      /\ ready' = FALSE /\ sent' = 0 /\ late' = FALSE /\ ~Loaded
      /\ UNCHANGED <<bufs, motionBuf, nextRxIndex, stray, scene, low, rxHandler, told, notes>>
  BY DEF LoadRequest, GoodHost, NoneWaiting
<1>3. /\ motion' \in Seq([size : Sizes, scenes : 1 .. MaxScenes]) /\ Last' = Last + 1
      /\ motion'[Last'].size = n
      /\ \A m \in 1 .. Last : motion'[m] = motion[m]
  BY <1>1, AppendProperties DEF TypeOK
<1>4. ~Loaded' /\ ~LoadOn' /\ ~Starting' /\ ~Starting /\ pc' \in {"cont", "prepare"}
  BY <1>1, <1>2 DEF PlayInv
<1>5. acked \subseteq begun /\ Last + 1 \notin acked \cup failed \cup begun
  BY <1>2 DEF HistoryInv
<1>6. TypeOK'
  <2>1. nextBytesExpected' \in Sizes /\ pc' \in {"cont", "prepare"} /\ 0 <= kMaxMotionBufSize
    BY <1>1, <1>4
  <2>2. {inMotion', F_PLAYING', rxHandler', late', term', ready'} \subseteq BOOLEAN
    BY <1>2 DEF TypeOK
  <2>3. /\ note' = note /\ begun' = begun /\ acked' = acked /\ failed' = failed
        /\ playing' = playing /\ motionBuf' = motionBuf
    BY <1>2
  <2>4. QED BY <1>2, <1>3, <2>1, <2>2, <2>3 DEF TypeOK
<1>7. RxInv'
  BY <1>1, <1>2, <1>3, <1>4, <1>5 DEF RxInv, TypeOK, GoodHost
<1>8. NextInv'
  BY <1>1, <1>2, <1>3, <1>4, <1>5 DEF NextInv, TypeOK, GoodHost
<1>9. LowInv'
  BY <1>1, <1>2, <1>3, <1>4, <1>5 DEF LowInv, RxInv, TypeOK
<1>10. HistoryInv'
  BY <1>1, <1>2, <1>3, <1>4, <1>5 DEF HistoryInv, PlayInv, TypeOK
<1>11. PlayInv'
  BY <1>1, <1>2, <1>3, <1>4, <1>5 DEF PlayInv, HistoryInv, TypeOK, Holds
<1>12. QED BY <1>6, <1>7, <1>8, <1>9, <1>10, <1>11

LEMMA PrepareInv == GoodHost /\ Inv /\ Prepare => Inv'
<1> SUFFICES ASSUME GoodHost, Inv, Prepare PROVE Inv'
  OBVIOUS
<1> USE Types, Constants DEF Inv, GetNextMotionBuffer, bufs, rx, scene, fg, load, told, notes
<1> USE DEF Last, Requested, Loaded, Starting, Complete, InLoop, LoadOn, Continue
<1>1. /\ pc = "prepare" /\ pc' = "handler" /\ nextMotionBuf' = toggle' /\ nextRxIndex' = 0
      /\ UNCHANGED <<curMotionBuf, sent, term, stray, scene, back, low, load, told, notes>>
  BY DEF Prepare
<1>2. toggle' \in Bufs /\ toggle' # toggle /\ toggle' \in {1, 2}
  BY DEF TypeOK, Bufs, Prepare
<1>3. inMotion => curMotionBuf = toggle
  BY <1>1 DEF NextInv, PlayInv, Bufs, NULL
<1>4. /\ motionBuf' \in [Bufs -> [0 .. kMaxMotionBufSize - 1 -> Tokens]]
      /\ motionBuf'[toggle] = motionBuf[toggle]
  BY <1>2 DEF TypeOK, Tokens, Prepare
<1>5. note.type = "b" /\ Holds(curMotionBuf, playing) => Holds(curMotionBuf, playing)'
  <2>1. note.type = "b" => curMotionBuf = toggle
    BY <1>3 DEF PlayInv
  <2>2. QED BY <1>1, <1>4, <2>1 DEF Holds
<1>6. TypeOK'
  BY <1>1, <1>2, <1>3, <1>4, <1>5 DEF TypeOK, Bufs
<1>7. RxInv'
  BY <1>1, <1>2, <1>3, <1>4, <1>5 DEF RxInv, TypeOK, GoodHost
<1>8. NextInv'
  BY <1>1, <1>2, <1>3, <1>4, <1>5 DEF NextInv, TypeOK, GoodHost, RxInv
<1>9. LowInv'
  BY <1>1, <1>2, <1>3, <1>4, <1>5 DEF LowInv, RxInv, TypeOK
<1>10. HistoryInv'
  BY <1>1, <1>2, <1>3, <1>4, <1>5 DEF HistoryInv, PlayInv, TypeOK, NextInv
<1>11. PlayInv'
  BY <1>1, <1>3, <1>5 DEF PlayInv, HistoryInv, TypeOK, Holds
<1>12. QED BY <1>6, <1>7, <1>8, <1>9, <1>10, <1>11

LEMMA SetHandlerInv == GoodHost /\ Inv /\ SetHandler => Inv'
<1> SUFFICES ASSUME GoodHost, Inv, SetHandler PROVE Inv'
  OBVIOUS
<1> USE Types, Constants DEF Inv, SetHandler, bufs, rx, scene, fg, load, told, notes
<1> USE DEF Last, Requested, Loaded, Starting, Complete, InLoop, LoadOn, Continue
<1>1. TypeOK'
  BY DEF TypeOK
<1>2. RxInv'
  BY DEF RxInv, TypeOK, GoodHost
<1>3. NextInv'
  BY DEF NextInv, TypeOK, GoodHost
<1>4. LowInv'
  BY DEF LowInv, RxInv, TypeOK
<1>5. HistoryInv'
  BY DEF HistoryInv, PlayInv, TypeOK
<1>6. PlayInv'
  BY DEF PlayInv, HistoryInv, TypeOK, Holds
<1>7. QED BY <1>1, <1>2, <1>3, <1>4, <1>5, <1>6

LEMMA SendReadyInv == GoodHost /\ Inv /\ SendReady => Inv'
<1> SUFFICES ASSUME GoodHost, Inv, SendReady PROVE Inv'
  OBVIOUS
<1> USE Types, Constants DEF Inv, SendReady, bufs, rx, scene, fg, load, told, notes
<1> USE DEF Last, Requested, Loaded, Starting, Complete, InLoop, LoadOn, Continue
<1>1. TypeOK'
  BY DEF TypeOK
<1>2. RxInv'
  BY DEF RxInv, TypeOK, GoodHost
<1>3. NextInv'
  BY DEF NextInv, TypeOK, GoodHost
<1>4. LowInv'
  BY DEF LowInv, RxInv, TypeOK
<1>5. HistoryInv'
  BY DEF HistoryInv, PlayInv, TypeOK
<1>6. PlayInv'
  BY DEF PlayInv, HistoryInv, TypeOK, Holds
<1>7. QED BY <1>1, <1>2, <1>3, <1>4, <1>5, <1>6

LEMMA TestLowInv == GoodHost /\ Inv /\ TestLow => Inv'
<1> SUFFICES ASSUME GoodHost, Inv, TestLow PROVE Inv'
  OBVIOUS
<1> USE Types, Constants DEF Inv, TestLow, ReadLow, bufs, rx, scene, fg, load, told, notes
<1> USE DEF Last, Requested, Loaded, Starting, Complete, InLoop, LoadOn, Continue
<1>1. TypeOK'
  BY DEF TypeOK
<1>2. RxInv'
  BY DEF RxInv, TypeOK, GoodHost
<1>3. NextInv'
  BY DEF NextInv, TypeOK, GoodHost
<1>4. LowInv'
  BY DEF LowInv, RxInv, TypeOK
<1>5. HistoryInv'
  BY DEF HistoryInv, PlayInv, TypeOK
<1>6. PlayInv'
  BY DEF PlayInv, HistoryInv, TypeOK, Holds
<1>7. QED BY <1>1, <1>2, <1>3, <1>4, <1>5, <1>6

LEMMA TestHighInv == GoodHost /\ Inv /\ TestHigh => Inv'
<1> SUFFICES ASSUME GoodHost, Inv, TestHigh PROVE Inv'
  OBVIOUS
<1> USE Types, Constants DEF Inv, TestHigh, MoreExpected, bufs, rx, scene, fg, load, told, notes
<1> USE DEF Last, Requested, Loaded, Starting, Complete, InLoop, LoadOn, Continue
<1>1. LoadOn
  OBVIOUS
<1>2. /\ ~(IndexRead < nextBytesExpected) => Complete
      /\ Last \in begun => Complete /\ ~(IndexRead < nextBytesExpected)
  BY ReadsTheIndex DEF HistoryInv
<1>3. TypeOK'
  BY <1>1, <1>2 DEF TypeOK
<1>4. RxInv'
  BY <1>1, <1>2 DEF RxInv, TypeOK, GoodHost
<1>5. NextInv'
  BY <1>1, <1>2 DEF NextInv, TypeOK, GoodHost
<1>6. LowInv'
  BY <1>1, <1>2 DEF LowInv, RxInv, TypeOK
<1>7. HistoryInv'
  BY <1>1, <1>2 DEF HistoryInv, PlayInv, TypeOK
<1>8. PlayInv'
  BY <1>1, <1>2 DEF PlayInv, HistoryInv, TypeOK, Holds
<1>9. QED BY <1>3, <1>4, <1>5, <1>6, <1>7, <1>8

LEMMA TestTimeInv == GoodHost /\ Inv /\ TestTime => Inv'
<1> SUFFICES ASSUME GoodHost, Inv, TestTime PROVE Inv'
  OBVIOUS
<1> USE Types, Constants DEF Inv, TestTime, TimedOut, bufs, rx, scene, fg, load, told, notes
<1> USE DEF Last, Requested, Loaded, Starting, Complete, InLoop, LoadOn, Continue
<1>1. LoadOn /\ Last \notin acked /\ pc = "tick"
  BY DEF HistoryInv
<1>2. late => Last \notin begun /\ ~Complete
  BY DEF RxInv, HistoryInv
<1>3. TypeOK'
  <2>1. Last \in 0 .. MaxLoads /\ failed' \subseteq failed \cup {Last}
    OBVIOUS
  <2>2. QED BY <2>1 DEF TypeOK
<1>4. RxInv'
  BY <1>1, <1>2 DEF RxInv, TypeOK, GoodHost
<1>5. NextInv'
  BY <1>1, <1>2 DEF NextInv, TypeOK, GoodHost
<1>6. LowInv'
  BY <1>1, <1>2 DEF LowInv, RxInv, TypeOK
<1>7. HistoryInv'
  <2>1. CASE late
    <3>1. /\ pc' = "main" /\ failed' = failed \cup {Last} /\ ~LoadOn' /\ ~Starting'
          /\ Last \notin acked \cup begun /\ ~Complete /\ Last > 0 /\ Last' = Last
      BY <1>1, <1>2, <2>1 DEF NextInv
    <3>2. QED BY <3>1 DEF HistoryInv
  <2>2. CASE ~late
    BY <1>1, <2>2 DEF HistoryInv
  <2>3. QED BY <2>1, <2>2
<1>8. PlayInv'
  BY <1>1, <1>2 DEF PlayInv, HistoryInv, TypeOK, Holds
<1>9. QED BY <1>3, <1>4, <1>5, <1>6, <1>7, <1>8

LEMMA ResetHandlerInv == GoodHost /\ Inv /\ ResetHandler => Inv'
<1> SUFFICES ASSUME GoodHost, Inv, ResetHandler PROVE Inv'
  OBVIOUS
<1> USE Types, Constants DEF Inv, ResetHandler, bufs, rx, scene, fg, load, told, notes
<1> USE DEF Last, Requested, Loaded, Starting, Complete, InLoop, LoadOn, Continue
<1>1. ~Requested
  BY DEF NextInv
<1>2. TypeOK'
  BY <1>1 DEF TypeOK
<1>3. RxInv'
  BY <1>1 DEF RxInv, TypeOK, GoodHost
<1>4. NextInv'
  BY <1>1 DEF NextInv, TypeOK, GoodHost
<1>5. LowInv'
  BY <1>1 DEF LowInv, RxInv, TypeOK
<1>6. HistoryInv'
  BY <1>1 DEF HistoryInv, PlayInv, TypeOK
<1>7. PlayInv'
  BY <1>1 DEF PlayInv, HistoryInv, TypeOK, Holds
<1>8. QED BY <1>2, <1>3, <1>4, <1>5, <1>6, <1>7

LEMMA SendAckInv == GoodHost /\ Inv /\ SendAck => Inv'
<1> SUFFICES ASSUME GoodHost, Inv, SendAck PROVE Inv'
  OBVIOUS
<1> USE Types, Constants DEF Inv, SendAck, bufs, rx, scene, fg, load, told, notes
<1> USE DEF Last, Requested, Loaded, Starting, Complete, InLoop, LoadOn, Continue
<1>1. LoadOn /\ Complete /\ Last \notin failed /\ Last > 0
  BY DEF NextInv, HistoryInv
<1>2. TypeOK'
  BY <1>1 DEF TypeOK
<1>3. RxInv'
  BY <1>1 DEF RxInv, TypeOK, GoodHost
<1>4. NextInv'
  BY <1>1 DEF NextInv, TypeOK, GoodHost
<1>5. LowInv'
  BY <1>1 DEF LowInv, RxInv, TypeOK
<1>6. HistoryInv'
  BY <1>1 DEF HistoryInv, PlayInv, TypeOK
<1>7. PlayInv'
  BY <1>1 DEF PlayInv, HistoryInv, TypeOK, Holds
<1>8. QED BY <1>2, <1>3, <1>4, <1>5, <1>6, <1>7

LEMMA StartMotionInv == GoodHost /\ Inv /\ StartMotion => Inv'
<1> SUFFICES ASSUME GoodHost, Inv, StartMotion PROVE Inv'
  OBVIOUS
<1> USE Types, Constants DEF Inv, bufs, rx, scene, fg, load, told, notes
<1> USE DEF Last, Requested, Loaded, Starting, Complete, InLoop, LoadOn, Continue
<1>1. nextMotionBuf \in Bufs /\ LoadOn /\ pc = "start" /\ Complete
  BY DEF NextInv, TypeOK, StartMotion
<1>2. /\ UNCHANGED <<toggle, nextMotionBuf, rx, F_PLAYING, low, load, told, notes>>
      /\ \/ /\ inMotion /\ pc' = "main" /\ UNCHANGED <<curMotionBuf, gSceneIndex, inMotion, back>>
         \/ /\ ~inMotion /\ curMotionBuf' = nextMotionBuf /\ gSceneIndex' = -1 /\ inMotion' = TRUE
            /\ pc' = "begin" /\ back' = "main"
  BY DEF StartMotion
<1>3. curMotionBuf' \in Bufs \cup {NULL}
  BY <1>1, <1>2 DEF TypeOK
<1>4. gSceneIndex' \in -1 .. MaxScenes - 1
  BY <1>2 DEF TypeOK
<1>5. inMotion' \in BOOLEAN
  BY <1>2 DEF TypeOK
<1>6. ~inMotion => note.type # "b"
  BY DEF PlayInv
<1>7. TypeOK'
  BY <1>1, <1>2, <1>3, <1>4, <1>5, <1>6 DEF TypeOK
<1>8. RxInv'
  BY <1>1, <1>2, <1>3, <1>4, <1>5, <1>6 DEF RxInv, TypeOK, GoodHost
<1>9. NextInv'
  BY <1>1, <1>2, <1>3, <1>4, <1>5, <1>6 DEF NextInv, TypeOK, GoodHost
<1>10. LowInv'
  BY <1>1, <1>2, <1>3, <1>4, <1>5, <1>6 DEF LowInv, RxInv, TypeOK
<1>11. HistoryInv'
  BY <1>1, <1>2, <1>3, <1>4, <1>5, <1>6 DEF HistoryInv, PlayInv, TypeOK
<1>12. PlayInv'
  BY <1>1, <1>2, <1>3, <1>4, <1>5, <1>6 DEF PlayInv, HistoryInv, TypeOK, Holds
<1>13. QED BY <1>7, <1>8, <1>9, <1>10, <1>11, <1>12

-----------------------------------------------------------------------------
(***************************************************************************)
(* continue_motions.                                                       *)
(***************************************************************************)
LEMMA DoSerialIdleInv == GoodHost /\ Inv /\ DoSerialIdle => Inv'
<1> SUFFICES ASSUME GoodHost, Inv, DoSerialIdle PROVE Inv'
  OBVIOUS
<1> USE Types, Constants DEF Inv, DoSerialIdle, bufs, rx, scene, fg, load, told, notes
<1> USE DEF Last, Requested, Loaded, Starting, Complete, InLoop, LoadOn, Continue
<1>1. TypeOK'
  BY DEF TypeOK
<1>2. RxInv'
  BY DEF RxInv, TypeOK, GoodHost
<1>3. NextInv'
  BY DEF NextInv, TypeOK, GoodHost
<1>4. LowInv'
  BY DEF LowInv, RxInv, TypeOK
<1>5. HistoryInv'
  BY DEF HistoryInv, PlayInv, TypeOK
<1>6. PlayInv'
  BY DEF PlayInv, HistoryInv, TypeOK, Holds
<1>7. QED BY <1>1, <1>2, <1>3, <1>4, <1>5, <1>6

LEMMA NothingToContinueInv == GoodHost /\ Inv /\ NothingToContinue => Inv'
<1> SUFFICES ASSUME GoodHost, Inv, NothingToContinue PROVE Inv'
  OBVIOUS
<1> USE Types, Constants DEF Inv, NothingToContinue, bufs, rx, scene, fg, load, told, notes
<1> USE DEF Last, Requested, Loaded, Starting, Complete, InLoop, LoadOn, Continue
<1>1. TypeOK'
  BY DEF TypeOK
<1>2. RxInv'
  BY DEF RxInv, TypeOK, GoodHost
<1>3. NextInv'
  BY DEF NextInv, TypeOK, GoodHost
<1>4. LowInv'
  BY DEF LowInv, RxInv, TypeOK
<1>5. HistoryInv'
  BY DEF HistoryInv, PlayInv, TypeOK
<1>6. PlayInv'
  BY DEF PlayInv, HistoryInv, TypeOK, Holds
<1>7. QED BY <1>1, <1>2, <1>3, <1>4, <1>5, <1>6

LEMMA ContinueSceneInv == GoodHost /\ Inv /\ ContinueScene => Inv'
<1> SUFFICES ASSUME GoodHost, Inv, ContinueScene PROVE Inv'
  OBVIOUS
<1> USE Types, Constants DEF Inv, ContinueScene, bufs, rx, scene, fg, load, told, notes
<1> USE DEF Last, Requested, Loaded, Starting, Complete, InLoop, LoadOn, Continue
<1>1. gSceneIndex >= 0 /\ pc' = "begin" /\ pc = "cont" /\ inMotion
  BY DEF PlayInv, TypeOK
<1>2. playing \in 1 .. Last /\ curMotionBuf \in Bufs /\ Holds(curMotionBuf, playing)
  BY <1>1 DEF PlayInv, HistoryInv
<1>3. gSceneIndex + 1 < motion[playing].scenes /\ ~Starting'
  BY <1>1, <1>2, ScenesOf DEF MoreScenes
<1>4. TypeOK'
  BY <1>1, <1>2, <1>3 DEF TypeOK
<1>5. RxInv'
  BY <1>1, <1>2, <1>3 DEF RxInv, TypeOK, GoodHost
<1>6. NextInv'
  BY <1>1, <1>2, <1>3 DEF NextInv, TypeOK, GoodHost
<1>7. LowInv'
  BY <1>1, <1>2, <1>3 DEF LowInv, RxInv, TypeOK
<1>8. HistoryInv'
  BY <1>1, <1>2, <1>3 DEF HistoryInv, PlayInv, TypeOK
<1>9. PlayInv'
  BY <1>1, <1>2, <1>3 DEF PlayInv, HistoryInv, TypeOK, Holds
<1>10. QED BY <1>4, <1>5, <1>6, <1>7, <1>8, <1>9

LEMMA MotionDoneInv == GoodHost /\ Inv /\ MotionDone => Inv'
<1> SUFFICES ASSUME GoodHost, Inv, MotionDone PROVE Inv'
  OBVIOUS
<1> USE Types, Constants DEF Inv, MotionDone, MoreScenes, bufs, rx, scene, fg, load, told, notes
<1> USE DEF Last, Requested, Loaded, Starting, Complete, InLoop, LoadOn, Continue
<1>1. note' \in Notes /\ note'.type = "d"
  BY DEF TypeOK, Notes
<1>2. TypeOK'
  BY <1>1 DEF TypeOK
<1>3. RxInv'
  BY <1>1 DEF RxInv, TypeOK, GoodHost
<1>4. NextInv'
  BY <1>1 DEF NextInv, TypeOK, GoodHost
<1>5. LowInv'
  BY <1>1 DEF LowInv, RxInv, TypeOK
<1>6. HistoryInv'
  BY <1>1 DEF HistoryInv, PlayInv, TypeOK
<1>7. PlayInv'
  BY <1>1 DEF PlayInv, HistoryInv, TypeOK, Holds
<1>8. QED BY <1>2, <1>3, <1>4, <1>5, <1>6, <1>7

LEMMA NextLowInv == GoodHost /\ Inv /\ NextLow => Inv'
<1> SUFFICES ASSUME GoodHost, Inv, NextLow PROVE Inv'
  OBVIOUS
<1> USE Types, Constants DEF Inv, NextLow, ReadLow, bufs, rx, scene, fg, load, told, notes
<1> USE DEF Last, Requested, Loaded, Starting, Complete, InLoop, LoadOn, Continue
<1>1. TypeOK'
  BY DEF TypeOK
<1>2. RxInv'
  BY DEF RxInv, TypeOK, GoodHost
<1>3. NextInv'
  BY DEF NextInv, TypeOK, GoodHost
<1>4. LowInv'
  BY DEF LowInv, RxInv, TypeOK
<1>5. HistoryInv'
  BY DEF HistoryInv, PlayInv, TypeOK
<1>6. PlayInv'
  BY DEF PlayInv, HistoryInv, TypeOK, Holds
<1>7. QED BY <1>1, <1>2, <1>3, <1>4, <1>5, <1>6

LEMMA NextHighInv == GoodHost /\ Inv /\ NextHigh => Inv'
<1> SUFFICES ASSUME GoodHost, Inv, NextHigh PROVE Inv'
  OBVIOUS
<1> USE Types, Constants DEF Inv, bufs, rx, scene, fg, load, told, notes
<1> USE DEF Last, Requested, Loaded, Starting, Complete, InLoop, LoadOn, Continue
<1>1. /\ pc = "next2" /\ inMotion /\ gSceneIndex = -1
      /\ UNCHANGED <<toggle, nextMotionBuf, rx, gSceneIndex, F_PLAYING, back, low, load, told,
                     notes>>
  BY DEF PlayInv, NextHigh
<1>2. \/ /\ inMotion' = FALSE /\ pc' = back /\ UNCHANGED curMotionBuf
         /\ ~Loaded \/ IndexRead < nextBytesExpected
      \/ /\ curMotionBuf' = nextMotionBuf /\ pc' = "begin" /\ UNCHANGED inMotion
         /\ Loaded /\ ~(IndexRead < nextBytesExpected)
  BY <1>1 DEF NextHigh, NothingNext
<1>3. Loaded /\ ~(IndexRead < nextBytesExpected) => Complete
  BY <1>1, ReadsTheIndex
<1>4. Loaded /\ ~rxHandler /\ IndexRead < nextBytesExpected => ~Complete
  BY <1>1, ReadsTheIndex
<1>5. TypeOK'
  BY <1>1, <1>2, <1>3, <1>4 DEF TypeOK
<1>6. RxInv'
  BY <1>1, <1>2, <1>3, <1>4 DEF RxInv, TypeOK, GoodHost
<1>7. NextInv'
  BY <1>1, <1>2, <1>3, <1>4 DEF NextInv, TypeOK, GoodHost
<1>8. LowInv'
  BY <1>1, <1>2, <1>3, <1>4 DEF LowInv, RxInv, TypeOK
<1>9. HistoryInv'
  <2>1. Last \in acked \ begun => ~rxHandler /\ Loaded /\ Complete
    BY <1>1 DEF HistoryInv, RxInv
  <2>2. LoadOn => Last \notin begun
    BY <1>1 DEF HistoryInv
  <2>3. CASE inMotion' = FALSE
    <3>1. /\ pc' = back /\ back \in {"main", "tick"} /\ ~Loaded' /\ ~Starting'
          /\ Last \notin acked \ begun /\ (LoadOn' => LoadOn)
      BY <1>1, <1>2, <1>4, <2>1, <2>3 DEF TypeOK
    <3>2. QED BY <1>1, <2>2, <2>3, <3>1 DEF HistoryInv
  <2>4. CASE inMotion' # FALSE
    <3>1. /\ Starting' /\ ~Loaded' /\ Loaded /\ Complete /\ (LoadOn' <=> LoadOn)
          /\ pc' = "begin"
      BY <1>1, <1>2, <1>3, <2>4
    <3>2. Last \notin begun \cup failed
      BY <3>1 DEF HistoryInv
    <3>3. QED BY <1>1, <2>1, <2>2, <3>1, <3>2 DEF HistoryInv
  <2>5. QED BY <2>3, <2>4
<1>10. PlayInv'
  <2>1. note.type = "d" /\ nextMotionBuf \in Bufs
    BY <1>1 DEF PlayInv, NextInv, TypeOK
  <2>2. note'.type = "d" /\ gSceneIndex' = -1
    BY <1>1 DEF PlayInv
  <2>3. QED BY <1>1, <1>2, <2>1, <2>2 DEF PlayInv, TypeOK
<1>11. QED BY <1>5, <1>6, <1>7, <1>8, <1>9, <1>10

LEMMA BeginSceneInv == GoodHost /\ Inv /\ BeginScene => Inv'
<1> SUFFICES ASSUME GoodHost, Inv, BeginScene PROVE Inv'
  OBVIOUS
<1> USE Types, Constants DEF Inv, bufs, rx, scene, fg, load, told, notes
<1> USE DEF Last, Requested, Loaded, Starting, Complete, InLoop, LoadOn, Continue
<1>1. /\ pc = "begin" /\ pc' = back /\ gSceneIndex' = gSceneIndex + 1
      /\ F_PLAYING' \in {TRUE, F_PLAYING}
      /\ UNCHANGED <<bufs, rx, inMotion, back, low, load, told>>
  BY DEF BeginScene, NextScene
<1>2. PICK m \in {FirstByte(curMotionBuf)[1], playing} :
        /\ m = IF Starting THEN FirstByte(curMotionBuf)[1] ELSE playing
        /\ note' = [type |-> "b", motion |-> m, scene |-> gSceneIndex + 1]
        /\ playing' = m /\ begun' = begun \cup {m}
  BY DEF BeginScene, NextScene
<1>3. inMotion /\ curMotionBuf \in Bufs /\ gSceneIndex >= -1
  BY <1>1 DEF PlayInv, TypeOK
<1>4. /\ m \in 1 .. Last /\ Holds(curMotionBuf, m) /\ gSceneIndex + 1 < motion[m].scenes
      /\ Starting => m = Last
      /\ ~Starting => m \in begun
  <2>1. CASE Starting
    <3>1. /\ Last > 0 /\ curMotionBuf = nextMotionBuf /\ nextRxIndex = motion[Last].size
          /\ sent = nextRxIndex
          /\ nextRxIndex = sent => \A k \in 1 .. sent : motionBuf[nextMotionBuf][k - 1] = <<Last, k>>
      BY <2>1 DEF NextInv, PlayInv
    <3>2. Last \in 1 .. Last /\ Holds(curMotionBuf, Last)
      BY <3>1 DEF Holds
    <3>3. m = Last
      BY <1>2, <1>3, <2>1, <3>2, ScenesOf
    <3>4. motion[Last].scenes > 0
      BY <3>2
    <3>5. QED BY <2>1, <3>2, <3>3, <3>4
  <2>2. CASE ~Starting
    BY <1>1, <1>2, <1>3, <2>2 DEF PlayInv, HistoryInv
  <2>3. QED BY <2>1, <2>2
<1>5. gSceneIndex' \in 0 .. MaxScenes - 1 /\ m \in 0 .. MaxLoads /\ note' \in Notes
  <2>1. gSceneIndex' \in 0 .. MaxScenes - 1 /\ m \in 0 .. MaxLoads
    BY <1>1, <1>3, <1>4
  <2>2. QED BY <1>1, <1>2, <2>1 DEF Notes
<1>6. F_PLAYING' \in BOOLEAN /\ begun' \subseteq 0 .. MaxLoads
  BY <1>1, <1>2, <1>5 DEF TypeOK
<1>7. Holds(curMotionBuf, m)'
  BY <1>1, <1>4 DEF Holds
<1>8. TypeOK'
  BY <1>1, <1>2, <1>3, <1>5, <1>6 DEF TypeOK
<1>9. RxInv'
  BY <1>1, <1>2, <1>3, <1>4, <1>5, <1>6, <1>7 DEF RxInv, TypeOK, GoodHost
<1>10. NextInv'
  BY <1>1, <1>2, <1>3, <1>4, <1>5, <1>6, <1>7 DEF NextInv, TypeOK, GoodHost
<1>11. LowInv'
  BY <1>1, <1>2, <1>3, <1>4, <1>5, <1>6, <1>7 DEF LowInv, RxInv, TypeOK
<1>12. HistoryInv'
  BY <1>1, <1>2, <1>3, <1>4, <1>5 DEF HistoryInv, PlayInv, NextInv, TypeOK
<1>13. PlayInv'
  BY <1>1, <1>2, <1>3, <1>4, <1>5, <1>7 DEF PlayInv, HistoryInv, TypeOK, Holds
<1>14. QED BY <1>8, <1>9, <1>10, <1>11, <1>12, <1>13

-----------------------------------------------------------------------------
LEMMA NextPreserves == GoodHost /\ Inv /\ [Next]_vars => Inv'
<1> SUFFICES ASSUME GoodHost, Inv, [Next]_vars PROVE Inv'
  OBVIOUS
<1>1. CASE Loading
  BY <1>1, PrepareInv, SetHandlerInv, SendReadyInv, TestLowInv, TestHighInv, TestTimeInv,
     ResetHandlerInv, SendAckInv, StartMotionInv DEF Loading
<1>2. CASE Playing
  BY <1>2, DoSerialIdleInv, NothingToContinueInv, ContinueSceneInv, MotionDoneInv, NextLowInv,
     NextHighInv, BeginSceneInv DEF Playing
<1>3. CASE Line \/ LoadRequest \/ TimePasses \/ SceneEnds
  BY <1>3, DelimiterArrivesInv, ByteArrivesInv, ByteLostInv, LoadRequestInv, TimePassesInv,
     SceneEndsInv DEF Line
<1>4. CASE UNCHANGED vars
  <2> USE <1>4 DEF vars, bufs, rx, scene, fg, load, told, notes, Inv, Last, Requested, Loaded,
                   Starting, Complete, InLoop, LoadOn, Continue
  <2>1. TypeOK'
    BY DEF TypeOK
  <2>2. RxInv' /\ NextInv' /\ LowInv'
    BY DEF RxInv, NextInv, LowInv
  <2>3. HistoryInv' /\ PlayInv'
    BY DEF HistoryInv, PlayInv, Holds
  <2>4. QED BY <2>1, <2>2, <2>3
<1>5. QED BY <1>1, <1>2, <1>3, <1>4 DEF Next

LEMMA Invariance ==
  ASSUME GoodHost
  PROVE  Spec => []Inv
<1>1. Inv /\ [Next]_vars => Inv'
  BY NextPreserves
<1>2. QED BY <1>1, InitInv, PTL DEF Spec

\* TypeOK: no byte is stored past the end of a buffer, and no scene is announced that the
\* motion does not have.
THEOREM TypeCorrect ==
  ASSUME GoodHost
  PROVE  Spec => []TypeOK
<1>1. Inv => TypeOK
  BY DEF Inv
<1>2. QED BY <1>1, Invariance, PTL

\* BlockInPlace: no byte of a block goes to the command buffer, and none is written over
\* the motion being played, of which all scenes are there when their turn comes.
THEOREM BlocksStay ==
  ASSUME GoodHost
  PROVE  Spec => []BlockInPlace
<1>1. Inv => BlockInPlace
  BY Types DEF Inv, RxInv, PlayInv, HistoryInv, BlockInPlace
<1>2. QED BY <1>1, Invariance, PTL

\* AckMeansComplete: when the robot says a motion is received, all of it is in the buffer,
\* though the index it goes by is read in two halves.
THEOREM AckIsTrue ==
  ASSUME GoodHost
  PROVE  Spec => AckMeansComplete
<1>1. Inv /\ [Next]_vars => [AckStep]_vars
  <2> SUFFICES ASSUME Inv, Next, acked' # acked PROVE Holds(nextMotionBuf, Last)
    BY DEF AckStep, vars
  <2>1. pc = "ack"
    BY DEF Next, Loading, Playing, Line, LoadRequest, Prepare, SetHandler, SendReady, TestLow,
           TestHigh, TestTime, ResetHandler, SendAck, StartMotion, DoSerialIdle,
           NothingToContinue, ContinueScene, MotionDone, NextLow, NextHigh, BeginScene, ReadLow,
           DelimiterArrives, ByteArrives, ByteLost, TimePasses, SceneEnds, told, notes
  <2>2. /\ nextBytesExpected = motion[Last].size /\ sent = motion[Last].size /\ nextRxIndex = sent
        /\ nextRxIndex = sent => \A k \in 1 .. sent : motionBuf[nextMotionBuf][k - 1] = <<Last, k>>
    BY <2>1, Types DEF Inv, NextInv, LoadOn, Complete
  <2>3. QED BY <2>2 DEF Holds
<1>2. QED BY <1>1, Invariance, PTL DEF AckMeansComplete, Spec

-----------------------------------------------------------------------------
(***************************************************************************)
(* Every step is a step of PlayQueue or changes nothing the host is told.  *)
(***************************************************************************)
Asked == [m \in 1 .. Last |-> motion[m].scenes]

LEMMA HostStutters ==
  ASSUME UNCHANGED <<motion, acked, failed, begun, note, inMotion>>
  PROVE  UNCHANGED Host!vars
BY DEF Host!vars, Last

LEMMA HostInit == Init => Host!Init
<1> SUFFICES ASSUME Init PROVE Host!Init
  OBVIOUS
<1>1. Last = 0 /\ Asked = << >>
  BY DEF Init, Last, Asked
<1>2. QED BY <1>1 DEF Init, Host!Init, None, Asked

LEMMA AskedIs ==
  ASSUME Inv
  PROVE  /\ Asked \in Seq(1 .. MaxScenes) /\ Len(Asked) = Last /\ Host!Asked = 1 .. Last
         /\ \A m \in 1 .. Last : Asked[m] = motion[m].scenes
<1>1. \A m \in 1 .. Last : motion[m].scenes \in 1 .. MaxScenes
  BY Types DEF Inv
<1>2. Last \in Nat
  BY Types DEF Inv
<1>3. Asked \in [1 .. Last -> 1 .. MaxScenes]
  BY <1>1 DEF Asked
<1>4. Asked \in Seq(1 .. MaxScenes)
  BY <1>2, <1>3, SeqDef
<1>5. Len(Asked) = Last
  BY <1>2, <1>3, <1>4, LenProperties
<1>6. QED BY <1>4, <1>5 DEF Host!Asked, Asked

LEMMA HostAsks == GoodHost /\ Inv /\ LoadRequest => Host!Ask
<1> SUFFICES ASSUME GoodHost, Inv, LoadRequest PROVE Host!Ask
  OBVIOUS
<1>1. PICK n \in Sizes, s \in 1 .. MaxScenes : motion' = Append(motion, [size |-> n, scenes |-> s])
  BY DEF LoadRequest
<1>2. /\ Last \in Nat /\ Last' = Last + 1 /\ motion'[Last + 1].scenes = s
      /\ \A m \in 1 .. Last : motion'[m] = motion[m]
  BY <1>1, AppendProperties, Types DEF Inv, TypeOK, Last
<1>3. Asked \in Seq(1 .. MaxScenes) /\ Len(Asked) = Last
  BY AskedIs
<1>4. Asked' = Append(Asked, s)
  <2>1. /\ Asked' \in Seq(1 .. MaxScenes) /\ Len(Asked') = Last + 1
        /\ \A m \in 1 .. Last + 1 : Asked'[m] = motion'[m].scenes
    <3>1. \A m \in 1 .. Last + 1 : motion'[m].scenes \in 1 .. MaxScenes
      BY <1>2, Types DEF Inv
    <3>2. QED BY <1>2, <3>1 DEF Asked
  <2>2. /\ Append(Asked, s) \in Seq(1 .. MaxScenes) /\ Len(Append(Asked, s)) = Last + 1
        /\ \A m \in 1 .. Last : Append(Asked, s)[m] = Asked[m]
        /\ Append(Asked, s)[Last + 1] = s
    BY <1>3, AppendProperties
  <2>3. \A m \in 1 .. Last + 1 : Asked'[m] = Append(Asked, s)[m]
    BY <1>2, <2>1, <2>2 DEF Asked
  <2>4. QED BY <2>1, <2>2, <2>3, SeqEqual
<1>5. QED
  BY <1>3, <1>4 DEF LoadRequest, Host!Ask, Asked, told, notes, scene

LEMMA HostTold ==
  ASSUME Inv, SendAck \/ TestTime
  PROVE  (\E m \in Host!Asked : Host!Acknowledge(m) \/ Host!GiveUp(m)) \/ UNCHANGED Host!vars
<1> USE DEF bufs, rx, scene, fg, load, told, notes
<1>1. LoadOn /\ Last \in Host!Asked /\ Last \notin acked \cup failed
  BY AskedIs, Types DEF SendAck, TestTime, Inv, HistoryInv, NextInv, LoadOn, InLoop
<1>2. CASE SendAck
  BY <1>1, <1>2 DEF SendAck, Host!Acknowledge, Host!Told, Last
<1>3. CASE TestTime /\ late
  <2>1. Last \notin begun
    BY <1>1, <1>3 DEF TestTime, Inv, HistoryInv, RxInv, InLoop
  <2>2. QED BY <1>1, <1>3, <2>1 DEF TestTime, TimedOut, Host!GiveUp, Host!Told, Last
<1>4. CASE TestTime /\ ~late
  BY <1>4, HostStutters DEF TestTime, TimedOut
<1>5. QED BY <1>2, <1>3, <1>4

LEMMA HostMoves ==
  ASSUME GoodHost, Inv, StartMotion \/ NextHigh
  PROVE  Host!SetOut \/ Host!Rest \/ UNCHANGED Host!vars
<1> USE DEF bufs, rx, scene, fg, load, told, notes
<1>1. CASE StartMotion
  BY <1>1, HostStutters DEF StartMotion, Host!SetOut, Last, Inv, TypeOK
<1>2. CASE NextHigh /\ NothingNext(IndexRead)
  <2>1. pc = "next2" /\ inMotion /\ note.type = "d"
    BY <1>2 DEF NextHigh, Inv, PlayInv
  <2>2. acked \subseteq begun
    <3>1. Last \in acked \ begun => ~LoadOn /\ Loaded /\ Complete /\ ~rxHandler
      BY <2>1 DEF Inv, HistoryInv, RxInv, LoadOn, InLoop, Continue, Starting
    <3>2. Last \notin acked \ begun
      BY <1>2, <2>1, <3>1, ReadsTheIndex, Types DEF NothingNext, Loaded, Complete, Inv
    <3>3. QED BY <3>2 DEF Inv, HistoryInv
  <2>3. QED BY <1>2, <2>1, <2>2 DEF NextHigh, Host!Rest, Last, Inv, TypeOK
<1>3. CASE NextHigh /\ ~NothingNext(IndexRead)
  BY <1>3, HostStutters DEF NextHigh
<1>4. QED BY <1>1, <1>2, <1>3

\* Scene by scene: what plays is all there, and told in order.
LEMMA HostPlays ==
  ASSUME Inv, BeginScene
  PROVE  (\E m \in Host!Asked : Host!Begin(m)) \/ Host!GoOn
<1> USE DEF bufs, rx, scene, fg, load, told, notes
<1>1. /\ pc = "begin" /\ inMotion /\ UNCHANGED <<motion, acked, failed, inMotion>>
      /\ gSceneIndex \in Int /\ gSceneIndex >= -1
  BY Types DEF BeginScene, Inv, PlayInv, TypeOK
<1>2. CASE Starting
  <2>1. /\ Last \in 1 .. Last /\ curMotionBuf \in Bufs /\ curMotionBuf = nextMotionBuf
        /\ nextRxIndex = motion[Last].size /\ sent = nextRxIndex
        /\ nextRxIndex = sent => \A k \in 1 .. sent : motionBuf[nextMotionBuf][k - 1] = <<Last, k>>
    BY <1>1, <1>2, Types DEF Inv, NextInv, PlayInv, Complete
  <2>2. FirstByte(curMotionBuf)[1] = Last
    BY <2>1, ScenesOf DEF Holds, Inv
  <2>3. /\ note' = [type |-> "b", motion |-> Last, scene |-> 0] /\ begun' = begun \cup {Last}
    BY <1>2, <2>2 DEF BeginScene, NextScene, Starting
  <2>4. /\ Last \notin begun \cup failed /\ note.type # "b" /\ acked \subseteq begun \cup {Last}
        /\ begun \subseteq 1 .. Last
    BY <1>1, <1>2 DEF Inv, HistoryInv, PlayInv, Starting
  <2>5. Host!Begin(Last)
    BY <1>1, <2>3, <2>4, Types DEF Host!Begin, Host!Says, Last, Inv
  <2>6. QED BY <2>1, <2>5, AskedIs
<1>3. CASE ~Starting
  <2>1. /\ note.type = "b" /\ note.motion = playing /\ note.scene = gSceneIndex
        /\ playing \in begun /\ playing \in 1 .. Last /\ gSceneIndex + 1 < motion[playing].scenes
        /\ gSceneIndex # -1
    BY <1>1, <1>3 DEF Inv, PlayInv, HistoryInv, Starting
  <2>2. /\ note' = [type |-> "b", motion |-> playing, scene |-> gSceneIndex + 1]
        /\ begun' = begun
    BY <2>1 DEF BeginScene, NextScene
  <2>3. QED BY <1>1, <2>1, <2>2, AskedIs DEF Host!GoOn, Host!Scenes, Host!Says, Asked, Last
<1>4. QED BY <1>2, <1>3

LEMMA HostEnds ==
  ASSUME Inv, MotionDone
  PROVE  Host!End
<1>1. /\ pc = "cont" /\ inMotion /\ ~MoreScenes
      /\ note' = [type |-> "d", motion |-> playing, scene |-> 0]
      /\ UNCHANGED <<motion, acked, failed, begun, inMotion>>
  BY DEF MotionDone, load, told, rx, bufs
<1>2. /\ note.type = "b" /\ note.motion = playing /\ note.scene = gSceneIndex
      /\ playing \in 1 .. Last /\ gSceneIndex < motion[playing].scenes
      /\ curMotionBuf \in Bufs /\ Holds(curMotionBuf, playing)
  BY <1>1, Types DEF Inv, PlayInv, HistoryInv, TypeOK
<1>3. gSceneIndex + 1 = motion[playing].scenes
  BY <1>1, <1>2, ScenesOf, Types DEF MoreScenes, Inv
<1>4. QED BY <1>1, <1>2, <1>3, AskedIs DEF Host!End, Host!Scenes, Host!Says, Asked, Last

LEMMA HostNext == GoodHost /\ Inv /\ [Next]_vars => [Host!Next]_(Host!vars)
<1> SUFFICES ASSUME GoodHost, Inv, [Next]_vars PROVE Host!Next \/ UNCHANGED Host!vars
  OBVIOUS
<1>1. CASE LoadRequest
  BY <1>1, HostAsks DEF Host!Next
<1>2. CASE SendAck \/ TestTime
  BY <1>2, HostTold DEF Host!Next
<1>3. CASE StartMotion \/ NextHigh
  BY <1>3, HostMoves DEF Host!Next
<1>4. CASE BeginScene
  BY <1>4, HostPlays DEF Host!Next
<1>5. CASE MotionDone
  BY <1>5, HostEnds DEF Host!Next
<1>6. CASE \/ Prepare \/ SetHandler \/ SendReady \/ TestLow \/ TestHigh \/ ResetHandler
           \/ DoSerialIdle \/ NothingToContinue \/ ContinueScene \/ NextLow
           \/ Line \/ TimePasses \/ SceneEnds \/ UNCHANGED vars
  <2>1. UNCHANGED <<motion, acked, failed, begun, note, inMotion>>
    BY <1>6 DEF Prepare, SetHandler, SendReady, TestLow, TestHigh, ResetHandler, DoSerialIdle,
                NothingToContinue, ContinueScene, NextLow, ReadLow, Line, DelimiterArrives,
                ByteArrives, ByteLost, TimePasses, SceneEnds,
                vars, scene, load, told, notes
  <2>2. QED BY <2>1, HostStutters
<1>7. QED BY <1>1, <1>2, <1>3, <1>4, <1>5, <1>6 DEF Next, Loading, Playing

\* ImplementsPlayQueue: each motion asked for is acknowledged or given up at most once, what
\* is given up is not played, motions are played once each in the order of the requests and
\* scene by scene, and the robot rests only when all it acknowledged has been played.
THEOREM FollowsPlayQueue ==
  ASSUME GoodHost
  PROVE  Spec => ImplementsPlayQueue
<1>1. Inv /\ [Next]_vars => [Host!Next]_(Host!vars)
  BY HostNext
<1>2. QED BY <1>1, HostInit, Invariance, PTL DEF Spec, ImplementsPlayQueue, Host!Spec
=============================================================================
