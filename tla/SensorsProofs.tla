--------------------------- MODULE SensorsProofs ---------------------------
(***************************************************************************)
(* The sensors, for messages and recordings of every length, every bound   *)
(* and every program that uses them: the hand-over of infra-red messages,  *)
(* the channel of a reading, the types, whole recordings of the microphone *)
(* and whole messages of the remote control.                               *)
(***************************************************************************)
EXTENDS Sensors, TLAPS, SequenceTheorems

(***************************************************************************)
(* The hand-over (ir.c): whatever the program does between the interrupt   *)
(* and irGetByte, a message received is not lost.                          *)
(***************************************************************************)
\* A step that has nothing to do with the hand-over, of the program or not.
Aside ==
  /\ UNCHANGED <<gIRReady, unread>>
  /\ pc # "irRead" \/ UNCHANGED pc

LEMMA AsideKeeps == NewestKept /\ Aside => NewestKept'
BY DEF NewestKept, Aside

-----------------------------------------------------------------------------
LEMMA InterruptsKeep ==
  ASSUME NewestKept,
         \/ Remote \/ ServeEdge \/ IrTimeout \/ Converter \/ ServeAdc
         \/ \E sampling, minute \in BOOLEAN : Tick(sampling, minute)
  PROVE  NewestKept'
<1>1. CASE Remote
  BY <1>1, AsideKeeps DEF Remote, Pressed, RemotePressed, Edge, Aside
<1>2. CASE ServeEdge
  <2>1. UNCHANGED pc /\ INT6
    BY <1>2 DEF ServeEdge
  <2>2. CASE EdgeIdle \/ EdgeStart
    BY <2>1, <2>2, AsideKeeps DEF EdgeIdle, EdgeStart, Aside
  <2>3. CASE EdgeReceive
    BY <2>1, <2>3 DEF EdgeReceive, NewestKept
  <2>4. QED BY <2>1, <2>2, <2>3 DEF INT6
<1>3. CASE IrTimeout
  BY <1>3, AsideKeeps DEF IrTimeout, TIMER2_OVF, Aside
<1>4. CASE Converter
  BY <1>4, AsideKeeps DEF Converter, ir, Aside
<1>5. CASE ServeAdc
  BY <1>5, AsideKeeps DEF ServeAdc, ir, Aside
<1>6. CASE \E sampling, minute \in BOOLEAN : Tick(sampling, minute)
  BY <1>6, AsideKeeps DEF Tick, ir, Aside
<1>7. QED BY <1>1, <1>2, <1>3, <1>4, <1>5, <1>6

\* irGetByte clears the flag before it reads the message, never after.
LEMMA irGetByteKeeps == NewestKept /\ (IrTest \/ IrClear \/ IrRead) => NewestKept'
<1> SUFFICES ASSUME NewestKept, IrTest \/ IrClear \/ IrRead PROVE NewestKept'
  OBVIOUS
<1>1. CASE IrTest
  BY <1>1, AsideKeeps DEF IrTest, Runs, ir, Aside
<1>2. CASE IrClear
  BY <1>2 DEF IrClear, NewestKept
<1>3. CASE IrRead
  BY <1>3 DEF IrRead, TakeMessage, NewestKept
<1>4. QED BY <1>1, <1>2, <1>3

\* The other readers keep off gIRReady, also while they mask the receiver.
LEMMA ReadersKeep == NewestKept /\ (Psd \/ Volt \/ Sample) => NewestKept'
<1> SUFFICES ASSUME NewestKept, Psd \/ Volt \/ Sample PROVE NewestKept'
  OBVIOUS
<1>1. CASE Psd
  BY <1>1, AsideKeeps
     DEF Psd, PsdWait, PsdMask, PsdOn, SetChannel, PsdFlag, StartConversion, PsdConvert,
         PsdUnmask, MaskIR, UnmaskIR, Runs, ir, Aside
<1>2. CASE Volt
  BY <1>2, AsideKeeps
     DEF Volt, VoltSave, VoltOff, SetChannel, StartConversion, VoltWait, VoltRestore,
         Runs, ir, Aside
<1>3. CASE Sample
  BY <1>3, AsideKeeps
     DEF Sample, ResetCount, ClearData, TimskRead, TimskWrite, SoundIr, UnmaskIR, SoundOn,
         SampleStop, SampleDly, SampleWait, MicOn, Runs, ir, Aside
<1>4. QED BY <1>1, <1>2, <1>3

LEMMA ChargingKeeps == NewestKept /\ (CheckPlug \/ Pulses \/ FullCharge) => NewestKept'
<1> SUFFICES ASSUME NewestKept, CheckPlug \/ Pulses \/ FullCharge PROVE NewestKept'
  OBVIOUS
<1> USE AsideKeeps DEF GetVoltage, Call, Detect, Go, SetCharge, SetMinutes, MinutesLeft,
                       Runs, ir, Aside
<1>1. CASE CheckPlug
  BY <1>1 DEF CheckPlug, Checked
<1>2. CASE Pulses
  BY <1>2 DEF Pulses
<1>3. CASE FullCharge
  BY <1>3 DEF FullCharge
<1>4. QED BY <1>1, <1>2, <1>3

LEMMA CommandsKeep == NewestKept /\ Command => NewestKept'
<1> SUFFICES ASSUME NewestKept, Command PROVE NewestKept'
  OBVIOUS
<1>1. QED
  BY AsideKeeps
     DEF Command, ReadIr, ReadPsd, ReadVolt, ReadMic, StartSample, SoundMeter, Lights,
         ChargeMode, GetVoltage, Call, Go, Runs, ir, Aside

-----------------------------------------------------------------------------
\* NewestKept: between the interrupt that receives a message and the return of it by
\* irGetByte, the flag says so or the reader is about to read it; no reader of another
\* sensor, no masking of the receiver and no charging of the battery loses it.
THEOREM MessageKept == Spec => []NewestKept
<1>1. Init => NewestKept
  BY DEF Init, IrInit, NewestKept
<1>2. NewestKept /\ [Next]_vars => NewestKept'
  <2> SUFFICES ASSUME NewestKept, [Next]_vars PROVE NewestKept'
    OBVIOUS
  <2>1. CASE UNCHANGED vars
    BY <2>1 DEF vars, ir, NewestKept
  <2>2. CASE Next
    BY <2>2, InterruptsKeep, irGetByteKeeps, ReadersKeep, ChargingKeeps, CommandsKeep
       DEF Next, Routine
  <2>3. QED BY <2>1, <2>2
<1>3. QED BY <1>1, <1>2, PTL DEF Spec

-----------------------------------------------------------------------------
(***************************************************************************)
(* A reading is measured at its own channel.  The converter belongs to the *)
(* call that found it free from the choice of the channel to the return:   *)
(* the tick may start another conversion only while MIC_SAMPLING is set,   *)
(* and nobody sets it meanwhile.                                           *)
(***************************************************************************)
\* Where a routine that several others call may return to.
Resumes == {"ready", "sampleStop", "checked", "pulsePower", "full", "chargeOn", "chargeEnd",
            "pulsePlug", "pulsed", "charged"}

\* The labels of the two routines while the converter is theirs.
Measuring == {"psdFlag", "psdStart", "psdConvert", "psdUnmask", "voltChannel", "voltStart",
              "voltWait", "voltRestore"}

\* Nothing but channel c can be in the converter; not started: nothing at all is.
Holds(c, started) ==
  /\ gAD_Ch_Index = c /\ ~MIC_SAMPLING
  /\ conv \in {None, c}
  /\ ADIF => ADCH.from = c
  /\ ~started => conv = None /\ ~ADIF

OwnInv ==
  /\ ret \in Resumes /\ retKey \in Resumes
  /\ pc = "voltChannel" => ~MIC_SAMPLING
  /\ alone =>
     /\ pc \in {"psdFlag", "psdStart"} => Holds("PSD", FALSE)
     /\ pc = "psdStart" => F_AD_CONVERTING
     /\ pc = "psdConvert" => Holds("PSD", TRUE) /\ (F_AD_CONVERTING \/ own)
     /\ pc = "psdUnmask" => Holds("PSD", TRUE) /\ own
     /\ pc = "voltStart" => Holds("VOLTAGE", FALSE)
     /\ pc = "voltWait" => Holds("VOLTAGE", TRUE) /\ (conv = None /\ ~ADIF => own)
     /\ pc = "voltRestore" => Holds("VOLTAGE", TRUE) /\ own

converter == <<gAD_Ch_Index, F_AD_CONVERTING, conv, ADIF, ADCH, own, MIC_SAMPLING, alone>>

\* A step of the program outside the two routines.
Outside == pc' \notin Measuring /\ ret' \in Resumes /\ retKey' \in Resumes

LEMMA OutsideOwn == Outside => OwnInv'
BY DEF Outside, Measuring, OwnInv

\* A step of something else, which leaves the converter alone.
LEMMA ElsewhereOwn == OwnInv /\ UNCHANGED <<converter, pc, ret, retKey>> => OwnInv'
BY DEF OwnInv, Holds, converter

LEMMA InterruptsOwn ==
  ASSUME OwnInv,
         \/ Remote \/ ServeEdge \/ IrTimeout \/ Converter \/ ServeAdc
         \/ \E sampling, minute \in BOOLEAN : Tick(sampling, minute)
  PROVE  OwnInv'
<1>1. CASE Remote \/ ServeEdge \/ IrTimeout
  BY <1>1, ElsewhereOwn
     DEF Remote, ServeEdge, IrTimeout, converter, adc, adreg, mic, regs
<1>2. CASE Converter
  BY <1>2 DEF Converter, ConversionDone, OwnInv, Holds, mic, regs, None
<1>3. CASE ServeAdc
  <2>1. /\ UNCHANGED <<gAD_Ch_Index, conv, pc, ret, retKey, alone>>
        /\ ADIF /\ ~ADIF' /\ (~MIC_SAMPLING => ~MIC_SAMPLING')
        /\ gAD_Ch_Index # "MIC" => own' = (ADCH.from = gAD_Ch_Index)
    BY <1>3 DEF ServeAdc, ADC_ISR, WaitForTrigger, TakeSample, mic, regs
  <2>2. QED BY <2>1 DEF OwnInv, Holds
<1>4. CASE \E sampling, minute \in BOOLEAN : Tick(sampling, minute)
  <2>1. /\ UNCHANGED <<F_AD_CONVERTING, own, MIC_SAMPLING, pc, ret, retKey, alone>>
        /\ ~MIC_SAMPLING => UNCHANGED <<gAD_Ch_Index, conv, ADIF, ADCH>>
    BY <1>4 DEF Tick, TIMER0_OVF, mic, regs
  <2>2. QED BY <2>1 DEF OwnInv, Holds
<1>5. QED BY <1>1, <1>2, <1>3, <1>4

LEMMA PsdOwn == OwnInv /\ Psd => OwnInv'
<1> SUFFICES ASSUME OwnInv, Psd PROVE OwnInv'
  OBVIOUS
<1>1. CASE PsdWait \/ PsdMask \/ PsdOn \/ PsdUnmask
  BY <1>1, OutsideOwn
     DEF PsdWait, PsdMask, PsdOn, PsdUnmask, regs, Outside, Measuring, OwnInv
<1>2. CASE SetChannel("psdChannel", "PSD", "psdFlag")
  BY <1>2 DEF SetChannel, Runs, OwnInv, Holds, mic, regs
<1>3. CASE PsdFlag
  BY <1>3 DEF PsdFlag, Runs, OwnInv, Holds, mic, regs
<1>4. CASE StartConversion("psdStart", "psdConvert")
  BY <1>4 DEF StartConversion, ADC_set, Runs, OwnInv, Holds, mic, regs
<1>5. CASE PsdConvert
  BY <1>5 DEF PsdConvert, Runs, OwnInv, Holds, adc, adreg, mic, regs
<1>6. QED BY <1>1, <1>2, <1>3, <1>4, <1>5 DEF Psd

LEMMA VoltOwn == OwnInv /\ Volt => OwnInv'
<1> SUFFICES ASSUME OwnInv, Volt PROVE OwnInv'
  OBVIOUS
<1>1. CASE VoltSave \/ VoltRestore
  BY <1>1, OutsideOwn DEF VoltSave, VoltRestore, Return, Outside, Measuring, Resumes, OwnInv
<1>2. CASE VoltOff
  BY <1>2 DEF VoltOff, SetSampling, NoSampling, OwnInv, regs
<1>3. CASE SetChannel("voltChannel", "VOLTAGE", "voltStart")
  BY <1>3 DEF SetChannel, Runs, OwnInv, Holds, mic, regs
<1>4. CASE StartConversion("voltStart", "voltWait")
  BY <1>4 DEF StartConversion, ADC_set, Runs, OwnInv, Holds, mic, regs, None
<1>5. CASE VoltWait
  BY <1>5 DEF VoltWait, Runs, OwnInv, Holds, adc, adreg, mic, regs
<1>6. QED BY <1>1, <1>2, <1>3, <1>4, <1>5 DEF Volt

LEMMA OthersOwn ==
  ASSUME OwnInv,
         Command \/ IrTest \/ IrClear \/ IrRead \/ Sample \/ CheckPlug \/ Pulses \/ FullCharge
  PROVE  OwnInv'
<1> USE DEF Outside, Measuring, Resumes, OwnInv, regs
<1>1. CASE Command
  BY <1>1, OutsideOwn
     DEF Command, ReadIr, ReadPsd, ReadVolt, ReadMic, StartSample, SoundMeter, Lights,
         ChargeMode, GetVoltage, Call, Go
<1>2. CASE IrTest \/ IrClear \/ IrRead
  BY <1>2, OutsideOwn DEF IrTest, IrClear, IrRead, Return
<1>3. CASE Sample
  BY <1>3, OutsideOwn
     DEF Sample, ResetCount, ClearData, TimskRead, TimskWrite, SoundIr, SoundOn, Return,
         SampleStop, SampleDly, SampleWait, MicOn
<1>4. CASE CheckPlug \/ Pulses \/ FullCharge
  BY <1>4, OutsideOwn
     DEF CheckPlug, Checked, Pulses, FullCharge, GetVoltage, Call, Detect, Go, SetCharge,
         SetMinutes, MinutesLeft
<1>5. QED BY <1>1, <1>2, <1>3, <1>4

\* ReadingIsOwn: a reading that found the converter free is the conversion of its own
\* channel, whatever the ticks, the other readers and the microphone did before.
THEOREM OwnChannel == Spec => []ReadingIsOwn
<1>1. Init => OwnInv
  BY DEF Init, OwnInv, Resumes
<1>2. OwnInv /\ [Next]_vars => OwnInv'
  <2> SUFFICES ASSUME OwnInv, [Next]_vars PROVE OwnInv'
    OBVIOUS
  <2>1. CASE UNCHANGED vars
    BY <2>1, ElsewhereOwn DEF vars, converter, adc, adreg, mic, regs
  <2>2. CASE Next
    BY <2>2, InterruptsOwn, PsdOwn, VoltOwn, OthersOwn DEF Next, Routine
  <2>3. QED BY <2>1, <2>2
<1>3. OwnInv => ReadingIsOwn
  BY DEF OwnInv, ReadingIsOwn
<1>4. QED BY <1>1, <1>2, <1>3, PTL DEF Spec

-----------------------------------------------------------------------------
(***************************************************************************)
(* Where the routines that several others call return to, and what the     *)
(* types and the recordings of the microphone rest on.                     *)
(***************************************************************************)
VoltLabels == {"volt", "voltOff", "voltChannel", "voltStart", "voltWait", "voltRestore"}
IrLabels == {"irTest", "irClear", "irRead"}
SoundLabels == {"sample", "sampleClear", "sound", "timskRead", "timskWrite", "soundIr",
                "soundOn"}

AfterVolt == {"ready", "checked", "pulsePlug", "pulsed", "charged"}
AfterIr == {"ready", "pulsePower", "full", "chargeOn", "chargeEnd"}
AfterSound == {"ready", "sampleStop"}

\* A check of the plug that has begun is one of the ten.
CallInv ==
  /\ pc \in VoltLabels => ret \in AfterVolt
  /\ pc \in IrLabels => ret \in AfterIr /\ retKey \in AfterIr
  /\ pc \in SoundLabels => ret \in AfterSound
  /\ pc \notin VoltLabels \cup IrLabels \cup SoundLabels => ret = "ready"
  /\ pc = "checked" \/ ret = "checked" => cnt < Checks

\* From the reset of sDcnt in sample_sound on, the slots before it are filled.
Filling == {"timskRead", "timskWrite", "soundIr", "soundOn", "sampleStop", "sampleDly",
            "sampleWait"}
FilledInv == pc \in Filling => \A i \in Slots : i < sDcnt => sData[i]

\* The receiver has room for the bit it waits for.
RoomInv == air \in Seq(GapWidths) /\ (IRState = "receive" => Len(IRTemp) < Bits)

\* The types of the program's own state.
Rest ==
  /\ {saved, F_PS_PLUGGED, CHARGE, alone} \subseteq BOOLEAN
  /\ gPSplugCount \in 0 .. PlugCount /\ gPSunplugCount \in 0 .. UnplugCount
  /\ cnt \in 0 .. Checks

WellFormed == IrTypeOK /\ AdcTypeOK /\ Rest /\ RoomInv /\ CallInv /\ FilledInv

-----------------------------------------------------------------------------
LEMMA IrUnchangedTypes == IrTypeOK /\ RoomInv /\ UNCHANGED ir => IrTypeOK' /\ RoomInv'
BY DEF IrTypeOK, RoomInv, ir

LEMMA AdcUnchangedTypes == AdcTypeOK /\ UNCHANGED adc => AdcTypeOK'
BY DEF AdcTypeOK, adc, adreg, mic

\* A gap is at most the silence, which is just too long for Timer2.
LEMMA GapsAreBytes == GapWidths \subseteq 0 .. 256 /\ \A b : BitGap(b) \in GapWidths
BY DEF GapWidths, Silence, StartGap, BitGap, Wrap

-----------------------------------------------------------------------------
LEMMA RemoteTypes ==
  ASSUME IrTypeOK, RoomInv, RemotePressed \/ Edge
  PROVE  IrTypeOK' /\ RoomInv'
<1>1. CASE RemotePressed
  <2>1. /\ message' \in [1 .. Bits -> {0, 1}] /\ air' = Gaps(message')
        /\ undisturbed' \in BOOLEAN
        /\ UNCHANGED <<IRState, IRTemp, gIRReady, gIRData, TCNT2, TOIE2, EIMSK6, INTF6, late,
                       unread>>
    BY <1>1, IrAssumption DEF RemotePressed
  <2>2. <<Silence, StartGap>> \in Seq(GapWidths) /\ Len(<<Silence, StartGap>>) = 2
    BY DEF GapWidths
  <2>3. LET s == [i \in 1 .. Bits |-> BitGap(message'[i])]
        IN  s \in Seq(GapWidths) /\ Len(s) = Bits
    BY IrAssumption, GapsAreBytes, SeqDef, LenProperties
  <2>4. air' \in Seq(GapWidths) /\ Len(air') = Bits + 2
    BY <2>1, <2>2, <2>3, ConcatProperties, IrAssumption DEF Gaps
  <2>5. QED BY <2>1, <2>4, IrAssumption DEF IrTypeOK, RoomInv
<1>2. CASE Edge
  <2>1. /\ air # << >> /\ air' = Tail(air) /\ INTF6' \in BOOLEAN /\ late' \in BOOLEAN
        /\ undisturbed' \in BOOLEAN /\ TCNT2' \in 0 .. Wrap - 1
        /\ UNCHANGED <<IRState, IRTemp, gIRReady, gIRData, TOIE2, EIMSK6, message, unread>>
    <3>1. PICK w \in Measured : TCNT2' = IF IRState = "idle" THEN 0 ELSE (TCNT2 + w) % Wrap
      BY <1>2 DEF Edge
    <3>2. air # << >> /\ Head(air) \in GapWidths
      BY <1>2, HeadTailProperties DEF Edge, RoomInv
    <3>3. w \in 0 .. 256
      BY <3>2, GapsAreBytes DEF Measured
    <3>4. TCNT2' \in 0 .. Wrap - 1
      BY <3>1, <3>3 DEF Wrap, IrTypeOK
    <3>5. QED BY <1>2, <3>4 DEF Edge, IrTypeOK
  <2>2. air' \in Seq(GapWidths) /\ Len(air') = Len(air) - 1 /\ Len(air) \in Nat
    BY <2>1, HeadTailProperties, LenProperties DEF RoomInv
  <2>3. QED BY <2>1, <2>2, IrAssumption DEF IrTypeOK, RoomInv
<1>3. QED BY <1>1, <1>2

LEMMA BitOfType == \A w : BitOf(w) \in {0, 1}
BY DEF BitOf

\* A bit is stored only where there is room for it, and the last one ends the message.
LEMMA INT6Types == ASSUME IrTypeOK, RoomInv, INT6 PROVE IrTypeOK' /\ RoomInv'
<1>1. /\ TCNT2' \in 0 .. Wrap - 1
      /\ UNCHANGED <<EIMSK6, late, air, message, undisturbed>>
      /\ EdgeIdle \/ EdgeStart \/ EdgeReceive
  BY DEF INT6, Wrap
<1>2. INTF6' \in BOOLEAN /\ TOIE2' \in BOOLEAN
  BY DEF INT6, EdgeIdle, EdgeStart, EdgeReceive, TimeoutOn, IrTypeOK
<1>3. CASE EdgeIdle
  BY <1>1, <1>2, <1>3 DEF EdgeIdle, IrTypeOK, RoomInv
<1>4. CASE EdgeStart
  <2>1. Len(NoBits) = 0 /\ NoBits \in Seq({0, 1})
    BY DEF NoBits
  <2>2. /\ IRState' \in {"idle", "start", "receive"}
        /\ UNCHANGED <<gIRReady, gIRData, unread>>
        /\ \/ UNCHANGED IRTemp /\ IRState' # "receive"
           \/ IRTemp' = NoBits
    BY <1>4 DEF EdgeStart
  <2>3. IRTemp' \in Seq({0, 1}) /\ Len(IRTemp') <= Bits
    <3>1. IRTemp \in Seq({0, 1}) /\ Len(IRTemp) <= Bits
      BY DEF IrTypeOK
    <3>2. CASE UNCHANGED IRTemp
      BY <3>1, <3>2
    <3>3. CASE IRTemp' = NoBits
      BY <2>1, <3>3, IrAssumption
    <3>4. QED BY <2>2, <3>2, <3>3
  <2>4. IrTypeOK'
    BY <1>1, <1>2, <2>2, <2>3 DEF IrTypeOK
  <2>5. RoomInv'
    BY <1>1, <2>1, <2>2, IrAssumption DEF RoomInv
  <2>6. QED BY <2>4, <2>5
<1>5. CASE EdgeReceive
  <2>1. CASE TCNT2 < IR_BIT_SHORT \/ TCNT2 > IR_BIT_LONG
    BY <1>1, <1>2, <1>5, <2>1 DEF EdgeReceive, IrTypeOK, RoomInv
  <2>2. CASE ~(TCNT2 < IR_BIT_SHORT \/ TCNT2 > IR_BIT_LONG)
    <3>1. /\ IRState = "receive" /\ IRTemp' = Append(IRTemp, BitOf(TCNT2))
          /\ gIRReady' \in BOOLEAN /\ unread' \in BOOLEAN
          /\ \/ Len(IRTemp') = Bits /\ gIRData' = IRTemp' /\ IRState' = "idle"
             \/ Len(IRTemp') # Bits /\ UNCHANGED <<IRState, gIRData>>
      BY <1>5, <2>2 DEF EdgeReceive, IrTypeOK
    <3>2. IRTemp' \in Seq({0, 1}) /\ Len(IRTemp') = Len(IRTemp) + 1 /\ Len(IRTemp) \in Nat
      BY <3>1, BitOfType, AppendProperties, LenProperties DEF IrTypeOK
    <3>3. Len(IRTemp') = Bits => IRTemp' \in [1 .. Bits -> {0, 1}]
      BY <3>2, LenProperties
    <3>4. Len(IRTemp') <= Bits /\ (IRState' = "receive" => Len(IRTemp') < Bits)
      BY <3>1, <3>2, IrAssumption DEF RoomInv
    <3>5. gIRData' \in [1 .. Bits -> {0, 1}] /\ IRState' \in {"idle", "start", "receive"}
      BY <3>1, <3>3 DEF IrTypeOK
    <3>6. QED BY <1>1, <1>2, <3>1, <3>2, <3>4, <3>5 DEF IrTypeOK, RoomInv
  <2>3. QED BY <2>1, <2>2
<1>6. QED BY <1>1, <1>3, <1>4, <1>5

LEMMA MaskTypes ==
  IrTypeOK /\ RoomInv /\ (MaskIR \/ UnmaskIR \/ TIMER2_OVF) => IrTypeOK' /\ RoomInv'
<1> SUFFICES ASSUME IrTypeOK, RoomInv, MaskIR \/ UnmaskIR \/ TIMER2_OVF
             PROVE  IrTypeOK' /\ RoomInv'
  OBVIOUS
<1>1. TimerReads \subseteq 0 .. Wrap - 1
  BY GapsAreBytes DEF TimerReads, Wrap
<1>2. CASE MaskIR
  BY <1>2 DEF MaskIR, IrTypeOK, RoomInv
<1>3. CASE UnmaskIR
  BY <1>1, <1>3 DEF UnmaskIR, IrTypeOK, RoomInv
<1>4. CASE TIMER2_OVF
  <2>1. TOIE2' \in BOOLEAN
    BY <1>4 DEF TIMER2_OVF
  <2>2. TCNT2' \in 0 .. Wrap - 1
    BY <1>4 DEF TIMER2_OVF, Wrap
  <2>3. QED BY <1>4, <2>1, <2>2 DEF TIMER2_OVF, IrTypeOK, RoomInv
<1>5. QED BY <1>2, <1>3, <1>4

LEMMA AdcSteps ==
  ASSUME AdcTypeOK, ConversionDone \/ ADC_ISR \/ \E s, m \in BOOLEAN : TIMER0_OVF(s, m)
  PROVE  AdcTypeOK'
<1>1. CASE ConversionDone
  BY <1>1 DEF ConversionDone, AdcTypeOK, mic, Channels, None, Results
<1>2. CASE ADC_ISR
  <2>1. NoResult \in Results
    BY DEF NoResult, Results, Channels
  <2>2. /\ ADIF' = FALSE /\ F_AD_CONVERTING' = FALSE /\ ADCH' = NoResult
        /\ gVOLTAGE' \in BOOLEAN /\ own' \in BOOLEAN
        /\ UNCHANGED <<gAD_Ch_Index, conv, gMIN_DCOUNT>>
    BY <1>2 DEF ADC_ISR, AdcTypeOK, Results, StillConverting
  <2>3. UNCHANGED mic \/ WaitForTrigger \/ TakeSample
    BY <1>2 DEF ADC_ISR
  <2>4. CASE UNCHANGED mic
    BY <2>1, <2>2, <2>4 DEF AdcTypeOK, mic
  <2>5. CASE WaitForTrigger
    <3>1. {MIC_STOP', MIC_SAMPLING'} \subseteq BOOLEAN
      BY <2>5 DEF AdcTypeOK, WaitForTrigger
    <3>2. MIC_DLY' \in 0 .. DlyWrap - 1
      BY <2>5, AdcAssumption DEF AdcTypeOK, WaitForTrigger
    <3>3. QED BY <2>1, <2>2, <2>5, <3>1, <3>2 DEF AdcTypeOK, WaitForTrigger
  <2>6. CASE TakeSample
    <3>1. (sDcnt + 1) % Nos \in Slots
      BY AdcAssumption DEF AdcTypeOK, Slots
    <3>2. QED BY <2>1, <2>2, <2>6, <3>1, AdcAssumption DEF AdcTypeOK, TakeSample, NextSlot
  <2>7. QED BY <2>3, <2>4, <2>5, <2>6
<1>3. CASE \E s, m \in BOOLEAN : TIMER0_OVF(s, m)
  <2>1. /\ ADIF' \in BOOLEAN /\ conv' \in Channels \cup {None} /\ gAD_Ch_Index' \in Channels
        /\ UNCHANGED <<ADCH, F_AD_CONVERTING, gVOLTAGE, own, mic>>
    BY <1>3 DEF TIMER0_OVF, ADC_set, AdcTypeOK, Channels
  <2>2. gMIN_DCOUNT' \in Nat
    BY <1>3 DEF TIMER0_OVF, AdcTypeOK
  <2>3. QED BY <2>1, <2>2 DEF AdcTypeOK, mic
<1>4. QED BY <1>1, <1>2, <1>3

-----------------------------------------------------------------------------
\* A step of the program outside the routines that others call.
LEMMA ElsewhereCalls ==
  ASSUME CallInv, ret' = "ready",
         pc' \notin VoltLabels \cup IrLabels \cup SoundLabels \cup Filling \cup {"checked"}
  PROVE  CallInv' /\ FilledInv'
BY DEF CallInv, FilledInv

LEMMA PsdTypes == ASSUME WellFormed, Psd PROVE WellFormed'
<1> USE DEF Psd, PsdWait, PsdMask, PsdOn, SetChannel, PsdFlag, StartConversion, PsdConvert,
            PsdUnmask, WellFormed, regs
<1>1. IrTypeOK' /\ RoomInv'
  BY MaskTypes, IrUnchangedTypes
<1>2. AdcTypeOK'
  <2>1. CASE UNCHANGED adc
    BY <2>1, AdcUnchangedTypes
  <2>2. CASE SetChannel("psdChannel", "PSD", "psdFlag")
    BY <2>2 DEF AdcTypeOK, mic, Channels
  <2>3. CASE PsdFlag
    BY <2>3 DEF AdcTypeOK, mic
  <2>4. CASE StartConversion("psdStart", "psdConvert")
    BY <2>4 DEF AdcTypeOK, ADC_set, mic
  <2>5. QED BY <2>1, <2>2, <2>3, <2>4
<1>3. Rest'
  BY DEF Rest, power
<1>4. ret = "ready" /\ UNCHANGED ret
  BY DEF CallInv, Runs, VoltLabels, IrLabels, SoundLabels
<1>5. pc' \notin VoltLabels \cup IrLabels \cup SoundLabels \cup Filling \cup {"checked"}
  BY DEF VoltLabels, IrLabels, SoundLabels, Filling
<1>6. QED BY <1>1, <1>2, <1>3, <1>4, <1>5, ElsewhereCalls

LEMMA VoltTypes == ASSUME WellFormed, Volt PROVE WellFormed'
<1> USE DEF Volt, VoltSave, VoltOff, SetChannel, StartConversion, VoltWait, VoltRestore,
            WellFormed, regs
<1>1. IrTypeOK' /\ RoomInv'
  BY IrUnchangedTypes
<1>2. AdcTypeOK'
  <2>1. CASE UNCHANGED adc
    BY <2>1, AdcUnchangedTypes
  <2>2. CASE SetChannel("voltChannel", "VOLTAGE", "voltStart")
    BY <2>2 DEF AdcTypeOK, mic, Channels
  <2>3. CASE VoltOff \/ VoltRestore
    BY <2>3 DEF AdcTypeOK, SetSampling, NoSampling, adreg, Rest
  <2>4. CASE StartConversion("voltStart", "voltWait")
    BY <2>4 DEF AdcTypeOK, ADC_set, mic
  <2>5. QED BY <2>1, <2>2, <2>3, <2>4
<1>3. Rest'
  BY DEF Rest, power, AdcTypeOK
<1>4. CallInv'
  BY DEF CallInv, Runs, Return, power, VoltLabels, IrLabels, SoundLabels, AfterVolt
<1>5. FilledInv'
  BY DEF FilledInv, Filling, CallInv, Runs, Return, VoltLabels, AfterVolt
<1>6. QED BY <1>1, <1>2, <1>3, <1>4, <1>5

LEMMA IrTypes == ASSUME WellFormed, IrTest \/ IrClear \/ IrRead PROVE WellFormed'
<1> USE DEF IrTest, IrClear, IrRead, WellFormed, regs
<1>1. IrTypeOK' /\ RoomInv'
  <2>1. CASE UNCHANGED ir
    BY <2>1, IrUnchangedTypes
  <2>2. CASE IrClear \/ IrRead
    BY <2>2 DEF TakeMessage, OtherIr, IrTypeOK, RoomInv
  <2>3. QED BY <2>1, <2>2
<1>2. AdcTypeOK'
  BY AdcUnchangedTypes
<1>3. Rest'
  BY DEF Rest, power
<1>4. CallInv'
  BY DEF CallInv, Runs, Return, power, VoltLabels, IrLabels, SoundLabels, AfterIr
<1>5. FilledInv'
  BY DEF FilledInv, Filling, CallInv, Runs, Return, IrLabels, AfterIr
<1>6. QED BY <1>1, <1>2, <1>3, <1>4, <1>5

LEMMA SampleTypes == ASSUME WellFormed, Sample PROVE WellFormed'
<1> USE DEF Sample, ResetCount, ClearData, TimskRead, TimskWrite, SoundIr, SoundOn,
            SampleStop, SampleDly, SampleWait, MicOn, WellFormed, regs
<1>1. IrTypeOK' /\ RoomInv'
  <2>1. CASE TimskWrite
    BY <2>1 DEF IrTypeOK, RoomInv, Rest
  <2>2. CASE ~TimskWrite
    BY <2>2, IrUnchangedTypes, MaskTypes
  <2>3. QED BY <2>1, <2>2
<1>2. AdcTypeOK'
  <2>1. CASE UNCHANGED adc
    BY <2>1, AdcUnchangedTypes
  <2>2. CASE ResetCount("sample", "sampleClear") \/ ResetCount("sound", "timskRead")
    BY <2>2, AdcAssumption DEF AdcTypeOK, OtherMic, adreg, Slots
  <2>3. CASE ClearData("sampleClear", "sound") \/ ClearData("mic", "micOn")
    BY <2>3 DEF AdcTypeOK, OtherMic, adreg
  <2>4. CASE SoundOn \/ MicOn
    BY <2>4 DEF AdcTypeOK, SetSampling, adreg
  <2>5. CASE SampleStop
    BY <2>5 DEF AdcTypeOK, OtherMic, adreg
  <2>6. CASE SampleDly
    BY <2>6, SensorsAssumption DEF AdcTypeOK, OtherMic, adreg
  <2>7. QED BY <2>1, <2>2, <2>3, <2>4, <2>5, <2>6
<1>3. Rest'
  BY DEF Rest, power, IrTypeOK
<1>4. CallInv'
  BY DEF CallInv, Runs, Return, power, VoltLabels, IrLabels, SoundLabels, AfterSound
<1>5. FilledInv'
  BY AdcAssumption DEF FilledInv, Filling, CallInv, Runs, Return, SoundLabels,
                       AfterSound, Slots, adc, mic, SetSampling
<1>6. QED BY <1>1, <1>2, <1>3, <1>4, <1>5

LEMMA ChargeTypes == ASSUME WellFormed, CheckPlug \/ Pulses \/ FullCharge PROVE WellFormed'
<1> USE DEF CheckPlug, Checked, Pulses, FullCharge, GetVoltage, Call, Detect, Go, SetCharge,
            SetMinutes, MinutesLeft, WellFormed, regs
<1>1. IrTypeOK' /\ RoomInv'
  BY IrUnchangedTypes
<1>2. AdcTypeOK'
  <2>1. CASE UNCHANGED adc
    BY <2>1, AdcUnchangedTypes
  <2>2. CASE \/ SetMinutes("pulses", PulseMinutes, "pulse")
             \/ SetMinutes("full", FullMinutes, "charge")
    BY <2>2, SensorsAssumption DEF AdcTypeOK, adreg, mic
  <2>3. QED BY <2>1, <2>2
<1>3. Rest'
  <2>1. CASE UNCHANGED power
    BY <2>1 DEF Rest, power
  <2>2. CASE \/ SetCharge("pulseOn", TRUE, "pulseOff")
             \/ SetCharge("pulseOff", FALSE, "pulseVolt")
             \/ SetCharge("chargeOn", TRUE, "chargeOff")
             \/ SetCharge("chargeOff", FALSE, "chargeVolt")
             \/ SetCharge("chargeEnd", FALSE, "ready")
             \/ Checked
    <3>1. cnt' \in 0 .. Checks
      BY <2>2, SensorsAssumption DEF Rest
    <3>2. CHARGE' \in BOOLEAN
      BY <2>2 DEF Rest
    <3>3. QED BY <2>2, <3>1, <3>2 DEF Rest
  <2>3. CASE Detect("checked", "check", "check") \/ Detect("pulsePlug", "pulseOn", "full")
             \/ Detect("pulsed", "pulse", "full") \/ Detect("charged", "charge", "chargeEnd")
    <3>1. UNCHANGED <<saved, CHARGE, alone>> /\ DetectPower
      BY <2>3
    <3>2. cnt' \in 0 .. Checks
      BY <2>3, SensorsAssumption DEF Rest, CallInv, Runs
    <3>3. F_PS_PLUGGED' \in BOOLEAN
      <4>1. \A m, n \in Int : (m <= n) \in BOOLEAN /\ (m > n) \in BOOLEAN
        OBVIOUS
      <4>2. PlugCount \in Int /\ UnplugCount \in Int
        BY SensorsAssumption
      <4>3. gPSplugCount + 1 \in Int /\ gPSunplugCount + 1 \in Int /\ 0 \in Int
        BY DEF Rest
      <4>4. QED BY <3>1, <4>1, <4>2, <4>3 DEF DetectPower
    <3>4. gPSplugCount' \in 0 .. PlugCount /\ gPSunplugCount' \in 0 .. UnplugCount
      BY <3>1, SensorsAssumption DEF DetectPower, Rest
    <3>5. QED BY <3>1, <3>2, <3>3, <3>4 DEF Rest
  <2>4. QED BY <2>1, <2>2, <2>3
<1>4. CallInv'
  BY SensorsAssumption DEF CallInv, Runs, power, Rest, VoltLabels, IrLabels, SoundLabels,
                           AfterVolt, AfterIr
<1>5. FilledInv'
  BY DEF FilledInv, Filling
<1>6. QED BY <1>1, <1>2, <1>3, <1>4, <1>5

LEMMA CommandTypes == ASSUME WellFormed, Command PROVE WellFormed'
<1> USE DEF Command, ReadIr, ReadPsd, ReadVolt, ReadMic, StartSample, SoundMeter, Lights,
            ChargeMode, GetVoltage, Call, Go, WellFormed, regs
<1>1. IrTypeOK' /\ RoomInv'
  BY IrUnchangedTypes
<1>2. AdcTypeOK'
  <2>1. CASE UNCHANGED adc
    BY <2>1, AdcUnchangedTypes
  <2>2. CASE StartSample
    BY <2>2 DEF AdcTypeOK, OtherMic, adreg
  <2>3. CASE Lights
    BY <2>3 DEF AdcTypeOK, SetSampling, adreg
  <2>4. QED BY <2>1, <2>2, <2>3
<1>3. Rest'
  <2>1. UNCHANGED <<saved, F_PS_PLUGGED, CHARGE, alone, gPSplugCount, gPSunplugCount>>
    BY DEF power
  <2>2. cnt' = cnt \/ cnt' = 0
    BY DEF power
  <2>3. QED BY <2>1, <2>2, SensorsAssumption DEF Rest
<1>4. CallInv'
  BY SensorsAssumption DEF CallInv, Runs, power, Rest, VoltLabels, IrLabels, SoundLabels,
                           AfterVolt, AfterIr, AfterSound
<1>5. FilledInv'
  BY DEF FilledInv, Filling
<1>6. QED BY <1>1, <1>2, <1>3, <1>4, <1>5

\* A sample goes to slot sDcnt, and sDcnt to the next one or back to the first.
LEMMA SampleFills ==
  ASSUME AdcTypeOK, FilledInv, UNCHANGED pc, ADC_ISR
  PROVE  FilledInv'
<1>1. CASE UNCHANGED <<sDcnt, sData>>
  BY <1>1 DEF FilledInv, Slots
<1>2. CASE TakeSample
  BY <1>2, AdcAssumption DEF TakeSample, NextSlot, FilledInv, Slots, AdcTypeOK
<1>3. QED BY <1>1, <1>2 DEF ADC_ISR, WaitForTrigger, mic

LEMMA InterruptTypes ==
  ASSUME WellFormed,
         \/ Remote \/ ServeEdge \/ IrTimeout \/ Converter \/ ServeAdc
         \/ \E sampling, minute \in BOOLEAN : Tick(sampling, minute)
  PROVE  WellFormed'
<1>1. CallInv' /\ Rest'
  <2>1. UNCHANGED <<pc, regs, power, alone>>
    BY DEF Remote, ServeEdge, IrTimeout, Converter, ServeAdc, Tick
  <2>2. QED BY <2>1 DEF WellFormed, CallInv, Rest, regs, power
<1>2. CASE Remote \/ ServeEdge \/ IrTimeout
  <2>1. IrTypeOK' /\ RoomInv'
    BY <1>2, RemoteTypes, INT6Types, MaskTypes
       DEF WellFormed, Remote, Pressed, ServeEdge, IrTimeout
  <2>2. UNCHANGED adc /\ UNCHANGED pc
    BY <1>2 DEF Remote, ServeEdge, IrTimeout
  <2>3. QED BY <1>1, <2>1, <2>2, AdcUnchangedTypes DEF WellFormed, FilledInv, adc, mic, Slots
<1>3. CASE \/ Converter \/ ServeAdc
           \/ \E sampling, minute \in BOOLEAN : Tick(sampling, minute)
  <2>1. UNCHANGED ir /\ UNCHANGED pc
    BY <1>3 DEF Converter, ServeAdc, Tick
  <2>2. AdcTypeOK'
    BY <1>3, AdcSteps DEF WellFormed, Converter, ServeAdc, Tick
  <2>3. FilledInv'
    BY <1>3, <2>1, SampleFills
       DEF WellFormed, Converter, ServeAdc, Tick, ConversionDone, TIMER0_OVF, mic,
           FilledInv, Slots
  <2>4. QED BY <1>1, <2>1, <2>2, <2>3, IrUnchangedTypes DEF WellFormed
<1>4. QED BY <1>2, <1>3

LEMMA WellFormedInit == Init => WellFormed
<1> SUFFICES ASSUME Init PROVE WellFormed
  OBVIOUS
<1>1. IrTypeOK /\ RoomInv
  <2>1. NoMessage \in [1 .. Bits -> {0, 1}]
    BY DEF NoMessage
  <2>2. << >> \in Seq({0, 1}) /\ << >> \in Seq(GapWidths) /\ Len(<< >>) = 0
    OBVIOUS
  <2>3. {gIRReady, TOIE2, EIMSK6, INTF6, late, undisturbed, unread} \subseteq BOOLEAN
    BY DEF Init, IrInit
  <2>4. TCNT2 \in 0 .. Wrap - 1 /\ 0 <= Bits /\ Bits \in Nat
    BY IrAssumption DEF Init, IrInit, Wrap
  <2>5. /\ IRState = "idle" /\ IRTemp = << >> /\ air = << >>
        /\ gIRData = NoMessage /\ message = NoMessage
    BY DEF Init, IrInit
  <2>6. QED BY <2>1, <2>2, <2>3, <2>4, <2>5 DEF IrTypeOK, RoomInv
<1>2. AdcTypeOK
  <2>1. NoResult \in Results
    BY DEF NoResult, Results, Channels
  <2>2. {F_AD_CONVERTING, ADIF, gVOLTAGE, own, MIC_SAMPLING, MIC_STOP} \subseteq BOOLEAN
    BY DEF Init, AdcInit
  <2>3. 0 \in Slots /\ 0 \in 0 .. DlyWrap - 1
    BY AdcAssumption DEF Slots
  <2>4. sData \in [Slots -> BOOLEAN]
    BY DEF Init, AdcInit
  <2>5. QED BY <2>1, <2>2, <2>3, <2>4 DEF Init, AdcInit, AdcTypeOK, Channels
<1>3. Rest
  <2>1. {saved, F_PS_PLUGGED, CHARGE, alone} \subseteq BOOLEAN
    BY DEF Init
  <2>2. QED BY <2>1, SensorsAssumption DEF Init, Rest
<1>4. CallInv /\ FilledInv
  BY DEF Init, CallInv, FilledInv, Filling, VoltLabels, IrLabels, SoundLabels
<1>5. QED BY <1>1, <1>2, <1>3, <1>4 DEF WellFormed

LEMMA WellFormedNext == WellFormed /\ [Next]_vars => WellFormed'
<1> SUFFICES ASSUME WellFormed, [Next]_vars PROVE WellFormed'
  OBVIOUS
<1>1. CASE UNCHANGED vars
  BY <1>1, IrUnchangedTypes, AdcUnchangedTypes
     DEF vars, WellFormed, Rest, CallInv, FilledInv, Slots, adc, mic, regs, power
<1>2. CASE Next
  BY <1>2, CommandTypes, IrTypes, PsdTypes, VoltTypes, SampleTypes, ChargeTypes,
         InterruptTypes
     DEF Next, Routine
<1>3. QED BY <1>1, <1>2

\* TypeOK: the index of a recording stays inside sData, a message inside its four
\* bytes and the counts of the plug and of the checks at most at their limits, in
\* every interleaving of the program, the remote control, the converter and the ticks.
THEOREM TypeCorrect == Spec => []TypeOK
<1>1. WellFormed => TypeOK
  BY DEF WellFormed, TypeOK, Rest
<1>2. QED BY <1>1, WellFormedInit, WellFormedNext, PTL DEF Spec

\* SampleWhole: SAMPLE goes on when its trigger has timed out or every slot holds a
\* sample of this recording, however the microphone was sampled before.
THEOREM WholeRecordings == Spec => SampleWhole
<1>1. WellFormed /\ [Next]_vars => [SampleStep]_vars
  <2> SUFFICES ASSUME WellFormed, Next, pc = "sampleWait", MIC_STOP, ~MIC_STOP'
               PROVE  MIC_DLY' = 0 \/ \A i \in Slots : sData'[i]
    BY DEF SampleStep
  <2>1. ServeAdc
    <3>1. CASE Command \/ Routine
      BY <3>1
         DEF Command, ReadIr, ReadPsd, ReadVolt, ReadMic, StartSample, SoundMeter, Lights,
             ChargeMode, GetVoltage, Call, Go, Routine, IrTest, IrClear, IrRead,
             Psd, PsdWait, PsdMask, PsdOn, SetChannel, PsdFlag, StartConversion, PsdConvert,
             PsdUnmask, Volt, VoltSave, VoltOff, VoltWait, VoltRestore,
             Sample, ResetCount, ClearData, TimskRead, TimskWrite, SoundIr, SoundOn,
             SampleStop, SampleDly, SampleWait, MicOn,
             CheckPlug, Checked, Pulses, FullCharge, Detect, SetCharge, SetMinutes,
             MinutesLeft, Runs, adc, mic
    <3>2. CASE \/ Remote \/ ServeEdge \/ IrTimeout \/ Converter
               \/ \E sampling, minute \in BOOLEAN : Tick(sampling, minute)
      BY <3>2 DEF Remote, ServeEdge, IrTimeout, Converter, ConversionDone, Tick,
                  TIMER0_OVF, adc, mic
    <3>3. QED BY <3>1, <3>2 DEF Next
  <2>2. CASE WaitForTrigger
    BY <2>2 DEF WaitForTrigger
  <2>3. CASE TakeSample
    <3>1. sDcnt = Nos - 1 /\ sData' = [sData EXCEPT ![sDcnt] = TRUE]
      BY <2>3 DEF TakeSample, ReachedEnd
    <3>2. \A i \in Slots : i < sDcnt => sData[i]
      BY DEF WellFormed, FilledInv, Filling
    <3>3. QED BY <3>1, <3>2, AdcAssumption DEF Slots, WellFormed, AdcTypeOK
  <2>4. QED BY <2>1, <2>2, <2>3 DEF ServeAdc, ADC_ISR, mic
<1>2. QED BY <1>1, WellFormedInit, WellFormedNext, PTL DEF Spec, SampleWhole

-----------------------------------------------------------------------------
(***************************************************************************)
(* Why a message is whole.  Bits are counted, not marked: four bytes are a *)
(* message.  So the bits stored must be in step with the edges of the one  *)
(* in the air.  They are, because while the receiver waits for an edge     *)
(* every edge is served before the next one: the program masks the         *)
(* interrupt only when a message that began meanwhile has timed out.  An   *)
(* edge that was noted while masked begins a message of its own, which     *)
(* can be early: the silence before the first edge is taken for a start.   *)
(* The real start is then no bit.                                          *)
(***************************************************************************)
\* The edges the remote control has sent of its message, and the gap before each.
EdgeNo == Bits + 2 - Len(air)
GapOf(m, j) == IF j = 1 THEN Silence ELSE IF j = 2 THEN StartGap ELSE BitGap(m[j - 2])

AirInv == \A i \in 1 .. Len(air) : air[i] = GapOf(message, EdgeNo + i)

Masked == {"psdOn", "psdChannel", "psdFlag", "psdStart", "psdConvert", "psdUnmask"}

\* What begins between PsdWait and PsdMask will time out, and nothing has begun late.
MaskInv ==
  /\ EIMSK6 <=> pc \notin Masked
  /\ pc \in {"psdMask", "psdOn"} =>
       /\ IRState # "idle" => TOIE2
       /\ late => IRState = "idle" /\ ~INTF6
  /\ pc \in Masked \ {"psdOn"} => IRState = "idle"

\* The bits so far are those of the message in the air, all but the last e edges.
Synced(e) ==
  /\ EdgeNo = Len(IRTemp) + 2 + e
  /\ \A i \in 1 .. Len(IRTemp) : IRTemp[i] = message[i]
Early == EdgeNo = 1 /\ IRTemp = << >> /\ pc # "psdMask"

\* What the interrupt knows of the edges, and what it will make of the one it is to
\* serve.
EdgeInv ==
  EIMSK6 =>
    /\ IRState # "idle" /\ ~INTF6 => TCNT2 = 0
    /\ IRState = "start" /\ INTF6 /\ TCNT2 \in IR_START_SHORT .. IR_START_LONG =>
         EdgeNo = 2 \/ (EdgeNo = 1 /\ pc # "psdMask")
    /\ IRState = "receive" \/ (IRState = "start" /\ INTF6) => ~late
    /\ IRState = "receive" /\ ~INTF6 => Synced(0) \/ Early
    /\ IRState = "receive" /\ INTF6 /\ TCNT2 \in IR_BIT_SHORT .. IR_BIT_LONG =>
         Synced(1) /\ TCNT2 = BitGap(message[EdgeNo - 2])

\* The receiver follows a message that found it idle, edge by edge.
HeardInv ==
  undisturbed =>
    /\ EIMSK6 /\ ~late /\ EdgeNo >= 1
    /\ EdgeNo = 1 => IRState = IF INTF6 THEN "idle" ELSE "start"
    /\ INTF6 /\ EdgeNo = 2 => IRState = "start" /\ TCNT2 = StartGap
    /\ INTF6 /\ EdgeNo > 2 =>
         IRState = "receive" /\ Synced(1) /\ TCNT2 = BitGap(message[EdgeNo - 2])
    /\ ~INTF6 /\ EdgeNo \in 2 .. Bits + 1 => IRState = "receive" /\ Synced(0)

LinkInv == AirInv /\ MaskInv /\ EdgeInv /\ HeardInv

link == <<IRState, IRTemp, TCNT2, EIMSK6, INTF6, late, air, message, undisturbed>>

\* A step of the program that leaves the receiver alone, elsewhere or between two
\* labels at which the receiver is masked.
LEMMA ProgramLinks ==
  ASSUME LinkInv, UNCHANGED link, pc' \notin {"psdMask", "psdOn"}, pc # "psdMask",
         pc \in Masked <=> pc' \in Masked, pc = "psdOn" => IRState = "idle"
  PROVE  LinkInv'
<1>1. AirInv'
  BY DEF LinkInv, AirInv, link, EdgeNo
<1>2. MaskInv'
  BY DEF LinkInv, MaskInv, link, Masked
<1>3. EdgeInv'
  BY DEF LinkInv, EdgeInv, link, EdgeNo, Synced, Early
<1>4. HeardInv'
  BY DEF LinkInv, HeardInv, link, EdgeNo, Synced
<1>5. QED BY <1>1, <1>2, <1>3, <1>4 DEF LinkInv

LEMMA AsideLinks == ASSUME LinkInv, UNCHANGED <<link, TOIE2, pc>> PROVE LinkInv'
BY DEF LinkInv, AirInv, MaskInv, EdgeInv, HeardInv, link, EdgeNo, Synced, Early

\* Get_AD_PSD masks the receiver, and unmasks it when it is idle.
LEMMA PsdLinks == ASSUME LinkInv, WellFormed, Psd PROVE LinkInv'
<1> USE DEF Psd, Runs
<1>1. CASE PsdWait
  <2>1. /\ UNCHANGED <<link, TOIE2>> /\ pc = "psdWait" /\ pc' = "psdMask" /\ IRState = "idle"
        /\ ~(INTF6 /\ EIMSK6)
    BY <1>1 DEF PsdWait, ir, link
  <2>2. QED BY <2>1 DEF LinkInv, AirInv, MaskInv, EdgeInv, HeardInv, link, EdgeNo,
                        Synced, Early, Masked
<1>2. CASE PsdMask
  <2>1. /\ UNCHANGED <<IRState, TOIE2, INTF6, late, air, message>> /\ ~EIMSK6'
        /\ ~undisturbed'
        /\ pc = "psdMask" /\ pc' = "psdOn"
    BY <1>2 DEF PsdMask, MaskIR
  <2>2. QED BY <2>1 DEF LinkInv, AirInv, MaskInv, EdgeInv, HeardInv, EdgeNo, Masked
<1>3. CASE PsdUnmask
  <2>1. /\ UNCHANGED <<IRState, IRTemp, TOIE2, INTF6, air, message, undisturbed>> /\ EIMSK6'
        /\ pc = "psdUnmask" /\ pc' = "ready"
    BY <1>3 DEF PsdUnmask, UnmaskIR
  <2>2. IRState = "idle" /\ ~undisturbed
    BY <2>1 DEF LinkInv, MaskInv, HeardInv, Masked
  <2>3. QED BY <2>1, <2>2 DEF LinkInv, AirInv, MaskInv, EdgeInv, HeardInv, EdgeNo, Masked
<1>4. CASE PsdOn
  BY <1>4, ProgramLinks DEF PsdOn, ir, link, Masked, LinkInv, MaskInv
<1>5. CASE \/ SetChannel("psdChannel", "PSD", "psdFlag") \/ PsdFlag
           \/ StartConversion("psdStart", "psdConvert") \/ PsdConvert
  BY <1>5, ProgramLinks DEF SetChannel, PsdFlag, StartConversion, PsdConvert, ir, link, Masked
<1>6. QED BY <1>1, <1>2, <1>3, <1>4, <1>5

LEMMA OtherLinks ==
  ASSUME LinkInv, WellFormed,
         \/ Command \/ IrTest \/ IrClear \/ IrRead \/ Volt \/ Sample
         \/ CheckPlug \/ Pulses \/ FullCharge
  PROVE  LinkInv'
<1> USE DEF Runs, Return, Masked
<1>1. /\ pc \in VoltLabels => ret \in AfterVolt
      /\ pc \in IrLabels => ret \in AfterIr /\ retKey \in AfterIr
      /\ pc \in SoundLabels => ret \in AfterSound
  BY DEF WellFormed, CallInv
<1>2. CASE Command
  BY <1>2, ProgramLinks
     DEF Command, ReadIr, ReadPsd, ReadVolt, ReadMic, StartSample, SoundMeter, Lights,
         ChargeMode, GetVoltage, Call, Go, ir, link
<1>3. CASE IrTest \/ IrClear \/ IrRead
  BY <1>3, <1>1, ProgramLinks DEF IrTest, IrClear, IrRead, IrLabels, AfterIr, OtherIr,
                                  ir, link
<1>4. CASE Volt
  BY <1>4, <1>1, ProgramLinks
     DEF Volt, VoltSave, VoltOff, SetChannel, StartConversion, VoltWait, VoltRestore,
         VoltLabels, AfterVolt, ir, link
<1>5. CASE Sample
  <2>1. CASE SoundIr
    <3>1. EIMSK6
      BY <2>1 DEF SoundIr, LinkInv, MaskInv
    <3>2. UNCHANGED link
      BY <2>1, <3>1 DEF SoundIr, UnmaskIR, link, WellFormed, IrTypeOK
    <3>3. QED BY <2>1, <3>2, ProgramLinks DEF SoundIr
  <2>2. CASE ~SoundIr
    BY <1>5, <2>2, <1>1, ProgramLinks
       DEF Sample, ResetCount, ClearData, TimskRead, TimskWrite, SoundOn, SampleStop,
           SampleDly, SampleWait, MicOn, SoundLabels, AfterSound, ir, link
  <2>3. QED BY <2>1, <2>2
<1>6. CASE CheckPlug \/ Pulses \/ FullCharge
  BY <1>6, ProgramLinks
     DEF CheckPlug, Checked, Pulses, FullCharge, GetVoltage, Call, Detect, Go, SetCharge,
         SetMinutes, MinutesLeft, ir, link
<1>7. QED BY <1>2, <1>3, <1>4, <1>5, <1>6

LEMMA Gap == \A m : \A j \in Nat \ {0} :
               GapOf(m, j) = IF j = 1 THEN 256 ELSE IF j = 2 THEN 70 ELSE BitGap(m[j - 2])
BY DEF GapOf, Silence, StartGap, Wrap

\* Nobody is receiving when a message begins: the last one came to its end.
LEMMA PressedLinks ==
  ASSUME LinkInv, WellFormed, Remote, RemotePressed
  PROVE  LinkInv'
<1>1. /\ air = << >> /\ ~(INTF6 /\ EIMSK6) /\ message' \in [1 .. Bits -> {0, 1}]
      /\ ~undisturbed'
      /\ air' = Gaps(message')
      /\ UNCHANGED <<IRState, IRTemp, TCNT2, TOIE2, EIMSK6, INTF6, late, pc>>
  BY IrAssumption DEF Remote, RemotePressed
<1>2. Len(air') = Bits + 2 /\ \A i \in 1 .. Bits + 2 : air'[i] = GapOf(message', i)
  <2>1. DEFINE s == [i \in 1 .. Bits |-> BitGap(message'[i])]
  <2>2. s \in Seq(GapWidths) /\ Len(s) = Bits
    BY IrAssumption, GapsAreBytes, SeqDef, LenProperties
  <2>3. <<Silence, StartGap>> \in Seq(GapWidths) /\ Len(<<Silence, StartGap>>) = 2
    BY DEF GapWidths
  <2>4. air' = <<Silence, StartGap>> \o s
    BY <1>1 DEF Gaps
  <2> HIDE DEF s
  <2>5. Len(air') = Bits + 2
    BY <2>2, <2>3, <2>4, ConcatProperties, IrAssumption
  <2>6. \A i \in 1 .. Bits + 2 :
          air'[i] = IF i <= 2 THEN <<Silence, StartGap>>[i] ELSE s[i - 2]
    BY <2>2, <2>3, <2>4, ConcatProperties, IrAssumption
  <2>7. \A i \in 1 .. Bits + 2 : i > 2 => s[i - 2] = BitGap(message'[i - 2])
    BY IrAssumption DEF s
  <2>8. \A i \in 1 .. Bits + 2 : air'[i] = GapOf(message', i)
    BY <2>6, <2>7, IrAssumption DEF GapOf
  <2>9. QED BY <2>5, <2>8
<1>3. EdgeNo = Bits + 2 /\ EdgeNo' = 0
  BY <1>1, <1>2, IrAssumption DEF EdgeNo
<1>4. AirInv'
  BY <1>2, <1>3, IrAssumption DEF AirInv
<1>5. MaskInv'
  BY <1>1 DEF LinkInv, MaskInv
<1>6. EIMSK6 => IRState # "receive"
  <2>1. IRState = "receive" => Len(IRTemp) < Bits /\ Len(IRTemp) \in Nat
    BY DEF WellFormed, RoomInv, IrTypeOK
  <2>2. QED BY <2>1, <1>1, <1>3, IrAssumption DEF LinkInv, EdgeInv, Synced, Early
<1>7. EdgeInv'
  BY <1>1, <1>6 DEF LinkInv, EdgeInv
<1>8. HeardInv'
  BY <1>1 DEF HeardInv
<1>9. QED BY <1>4, <1>5, <1>7, <1>8 DEF LinkInv

LEMMA EdgeLinks ==
  ASSUME LinkInv, WellFormed, Remote, Edge
  PROVE  LinkInv'
<1>1. /\ air # << >> /\ ~(INTF6 /\ EIMSK6) /\ air' = Tail(air) /\ INTF6' /\ ~late'
      /\ undisturbed' = IF Len(air) = Bits + 2 THEN IRState = "idle" /\ EIMSK6
                                                ELSE undisturbed
      /\ UNCHANGED <<IRState, IRTemp, TOIE2, EIMSK6, message, pc>>
  BY DEF Remote, Edge
<1>2. /\ Len(air) \in 1 .. Bits + 2 /\ Len(air') = Len(air) - 1 /\ Head(air) = air[1]
      /\ Head(air) \in GapWidths
      /\ \A i \in 1 .. Len(air') : air'[i] = air[i + 1]
  BY <1>1, HeadTailProperties, LenProperties DEF WellFormed, RoomInv, IrTypeOK
<1>3. EdgeNo \in 0 .. Bits + 1 /\ EdgeNo' = EdgeNo + 1
  BY <1>2, IrAssumption DEF EdgeNo
<1>4. Head(air) = GapOf(message, EdgeNo')
  BY <1>2, <1>3 DEF LinkInv, AirInv
<1>5. AirInv'
  <2>1. ASSUME NEW i \in 1 .. Len(air')
        PROVE  air'[i] = GapOf(message', EdgeNo' + i)
    <3>1. i + 1 \in 1 .. Len(air) /\ EdgeNo + (i + 1) = EdgeNo' + i
      BY <1>2, <1>3
    <3>2. QED BY <1>1, <1>2, <2>1, <3>1 DEF LinkInv, AirInv
  <2>2. QED BY <2>1 DEF AirInv
<1>6. MaskInv'
  BY <1>1 DEF LinkInv, MaskInv
<1>7. PICK w \in Measured : TCNT2' = IF IRState = "idle" THEN 0 ELSE (TCNT2 + w) % 256
  BY DEF Edge, Wrap
<1>8. /\ ~late => w = Head(air)
      /\ w \in GapWidths /\ w <= Head(air)
  BY <1>2, <1>4, <1>7, GapsAreBytes DEF Measured, WellFormed, RoomInv
<1>9. ASSUME EIMSK6, IRState # "idle"
      PROVE  TCNT2' = w % 256
  <2>1. TCNT2 = 0 /\ w \in 0 .. 256
    BY <1>1, <1>8, <1>9, GapsAreBytes DEF LinkInv, EdgeInv
  <2>2. QED BY <1>7, <1>9, <2>1
<1>10. EdgeInv'
  <2> SUFFICES ASSUME EIMSK6 PROVE EdgeInv'
    BY <1>1 DEF EdgeInv
  <2>1. ASSUME IRState = "start", TCNT2' \in 58 .. 82
        PROVE  EdgeNo' = 2 \/ (EdgeNo' = 1 /\ pc' # "psdMask")
    <3>1. w = 70
      BY <1>8, <1>9, <2>1 DEF GapWidths, BitGap, Silence, StartGap, Wrap
    <3>2. EdgeNo' \in {1, 2}
      BY <1>3, <1>4, <1>8, <3>1, Gap DEF BitGap
    <3>3. EdgeNo' = 1 => late
      BY <1>3, <1>4, <1>8, <3>1, Gap
    <3>4. QED BY <1>1, <2>1, <3>2, <3>3 DEF LinkInv, MaskInv
  <2>2. ASSUME IRState = "receive"
        PROVE  TCNT2' \in 13 .. 26 => Synced(1)' /\ TCNT2' = BitGap(message'[EdgeNo' - 2])
    <3>1. ~late /\ ~INTF6 /\ (Synced(0) \/ Early)
      BY <1>1, <2>2 DEF LinkInv, EdgeInv
    <3>2. TCNT2' = GapOf(message, EdgeNo') % 256
      BY <1>4, <1>8, <1>9, <2>2, <3>1
    <3>3. CASE Synced(0)
      <4>1. EdgeNo = Len(IRTemp) + 2 /\ Len(IRTemp) \in Nat
        BY <3>3 DEF Synced, WellFormed, IrTypeOK
      <4>2. TCNT2' = BitGap(message[EdgeNo' - 2])
        BY <1>3, <3>2, <4>1, Gap DEF BitGap
      <4>3. Synced(1)'
        BY <1>1, <1>3, <3>3, <4>1 DEF Synced
      <4>4. QED BY <1>1, <4>2, <4>3
    <3>4. CASE Early
      BY <1>3, <3>2, <3>4, Gap DEF Early
    <3>5. QED BY <3>1, <3>3, <3>4
  <2>3. QED BY <1>1, <2>1, <2>2 DEF EdgeInv, IR_START_SHORT, IR_START_LONG, IR_BIT_SHORT,
                                    IR_BIT_LONG
<1>11. HeardInv'
  <2> SUFFICES ASSUME undisturbed' PROVE HeardInv'
    BY DEF HeardInv
  <2>1. CASE EdgeNo = 0
    <3>1. Len(air) = Bits + 2
      BY <1>2, <2>1, IrAssumption DEF EdgeNo
    <3>2. IRState = "idle" /\ EIMSK6
      BY <1>1, <3>1
    <3>3. QED BY <1>1, <1>3, <2>1, <3>2 DEF HeardInv
  <2>2. CASE EdgeNo # 0
    <3>1. undisturbed /\ EIMSK6 /\ ~late /\ ~INTF6 /\ w = Head(air)
      <4>1. Len(air) # Bits + 2
        BY <1>2, <2>2, IrAssumption DEF EdgeNo
      <4>2. QED BY <1>1, <1>8, <4>1 DEF LinkInv, HeardInv
    <3>2. CASE EdgeNo = 1
      <4>1. IRState = "start"
        BY <3>1, <3>2 DEF LinkInv, HeardInv
      <4>2. TCNT2' = 70
        BY <1>3, <1>4, <1>9, <3>1, <3>2, <4>1, Gap
      <4>3. QED BY <1>1, <1>3, <3>1, <3>2, <4>1, <4>2 DEF HeardInv, StartGap
    <3>3. CASE EdgeNo > 1
      <4>1. IRState = "receive" /\ Synced(0)
        BY <1>3, <3>1, <3>3 DEF LinkInv, HeardInv
      <4>2. TCNT2' = BitGap(message[EdgeNo' - 2])
        BY <1>3, <1>4, <1>9, <3>1, <3>3, <4>1, Gap DEF BitGap
      <4>3. Synced(1)'
        BY <1>1, <1>3, <4>1 DEF Synced, WellFormed, IrTypeOK
      <4>4. QED BY <1>1, <1>3, <3>1, <3>3, <4>1, <4>2, <4>3 DEF HeardInv
    <3>4. QED BY <1>3, <2>2, <3>2, <3>3
  <2>3. QED BY <2>1, <2>2
<1>12. QED BY <1>5, <1>6, <1>10, <1>11 DEF LinkInv

\* No time-out comes within a message that is followed.
LEMMA TimeoutLinks ==
  ASSUME LinkInv, WellFormed, IrTimeout
  PROVE  LinkInv'
<1>1. /\ TOIE2 /\ ~(INTF6 /\ EIMSK6)
      /\ air # << >> => \E w \in Measured : TCNT2 + w >= 256
      /\ IRState' = "idle" /\ TCNT2' = 0 /\ ~TOIE2'
      /\ UNCHANGED <<IRTemp, EIMSK6, INTF6, late, air, message, undisturbed, pc>>
  BY DEF IrTimeout, TIMER2_OVF, Wrap
<1>2. AirInv' /\ EdgeNo' = EdgeNo
  BY <1>1 DEF LinkInv, AirInv, EdgeNo
<1>3. MaskInv'
  BY <1>1 DEF LinkInv, MaskInv
<1>4. EdgeInv'
  BY <1>1 DEF EdgeInv
<1>5. undisturbed => EdgeNo = Bits + 2
  <2> SUFFICES ASSUME undisturbed, EdgeNo # Bits + 2 PROVE FALSE
    OBVIOUS
  <2>1. Len(air) \in 1 .. Bits + 2 /\ air # << >> /\ Head(air) = air[1]
    BY LenProperties, IrAssumption DEF EdgeNo, WellFormed, RoomInv, IrTypeOK
  <2>2. EIMSK6 /\ ~late /\ EdgeNo >= 1 /\ ~INTF6
    BY <1>1 DEF LinkInv, HeardInv
  <2>3. EdgeNo \in 1 .. Bits + 1
    BY <2>1, <2>2, IrAssumption DEF EdgeNo
  <2>4. TCNT2 = 0
    BY <2>2, <2>3 DEF LinkInv, HeardInv, EdgeInv
  <2>5. Head(air) \in 0 .. 70
    <3>1. Head(air) = GapOf(message, EdgeNo + 1)
      BY <2>1, <2>3 DEF LinkInv, AirInv
    <3>2. Head(air) \in {70, 23, 16}
      BY <2>3, <3>1, Gap DEF BitGap
    <3>3. QED BY <3>2
  <2>6. Measured = {Head(air)}
    BY <2>2 DEF Measured
  <2>7. PICK w \in Measured : TCNT2 + w >= 256
    BY <1>1, <2>1
  <2>8. w = Head(air)
    BY <2>6
  <2>9. QED BY <2>4, <2>5, <2>7, <2>8
<1>6. HeardInv'
  BY <1>1, <1>2, <1>5, IrAssumption DEF LinkInv, HeardInv
<1>7. QED BY <1>2, <1>3, <1>4, <1>6 DEF LinkInv

\* A gap as wide as a bit is the next bit of the message; the last one completes it.
LEMMA ReceiveBit ==
  ASSUME LinkInv, WellFormed, INT6, IRState = "receive"
  PROVE  \/ IRState' = "idle" /\ UNCHANGED gIRData /\ ~undisturbed
         \/ /\ Synced(0)' /\ EdgeNo > 2
            /\ \/ EdgeNo = Bits + 2 /\ IRState' = "idle" /\ gIRReady' /\ gIRData' = message
               \/ EdgeNo < Bits + 2 /\ IRState' = "receive" /\ TOIE2' /\ UNCHANGED gIRData
<1>1. /\ INTF6 /\ EIMSK6 /\ UNCHANGED <<air, message>> /\ EdgeReceive
  BY DEF INT6, EdgeIdle, EdgeStart
<1>2. undisturbed => TCNT2 \in 13 .. 26
  <2>1. undisturbed => EdgeNo > 2 /\ TCNT2 = BitGap(message[EdgeNo - 2])
    BY <1>1, LenProperties, IrAssumption DEF LinkInv, HeardInv, WellFormed, RoomInv, EdgeNo
  <2>2. QED BY <2>1 DEF BitGap
<1>3. CASE TCNT2 < 13 \/ TCNT2 > 26
  <2>1. ~undisturbed
    BY <1>2, <1>3 DEF WellFormed, IrTypeOK, Wrap
  <2>2. QED BY <1>1, <1>3, <2>1 DEF EdgeReceive, IR_BIT_SHORT, IR_BIT_LONG
<1>4. CASE ~(TCNT2 < 13 \/ TCNT2 > 26)
  <2>1. Synced(1) /\ TCNT2 = BitGap(message[EdgeNo - 2])
    BY <1>1, <1>4 DEF LinkInv, EdgeInv, WellFormed, IrTypeOK, Wrap, IR_BIT_SHORT, IR_BIT_LONG
  <2>2. /\ Len(IRTemp) \in Nat /\ Len(IRTemp) < Bits /\ EdgeNo = Len(IRTemp) + 3
        /\ IRTemp \in Seq({0, 1}) /\ message \in [1 .. Bits -> {0, 1}]
        /\ \A i \in 1 .. Len(IRTemp) : IRTemp[i] = message[i]
    BY <2>1 DEF Synced, WellFormed, RoomInv, IrTypeOK
  <2>3. BitOf(TCNT2) = message[Len(IRTemp) + 1]
    <3>1. message[Len(IRTemp) + 1] \in {0, 1}
      BY <2>2, IrAssumption
    <3>2. QED BY <2>1, <2>2, <3>1 DEF BitOf, BitGap, IR_ZERO_ONE
  <2>4. /\ IRTemp' = Append(IRTemp, BitOf(TCNT2))
        /\ \/ /\ Len(IRTemp') = Bits /\ gIRData' = IRTemp' /\ gIRReady' /\ IRState' = "idle"
           \/ /\ Len(IRTemp') # Bits /\ TOIE2' /\ IRState' = "receive" /\ UNCHANGED gIRData
    BY <1>1, <1>4 DEF EdgeReceive, TimeoutOn, IR_BIT_SHORT, IR_BIT_LONG
  <2>5. /\ IRTemp' \in Seq({0, 1}) /\ Len(IRTemp') = Len(IRTemp) + 1
        /\ \A i \in 1 .. Len(IRTemp') : IRTemp'[i] = message[i]
    BY <2>2, <2>3, <2>4, BitOfType, AppendProperties
  <2>6. EdgeNo' = EdgeNo
    BY <1>1 DEF EdgeNo
  <2>7. Synced(0)'
    BY <1>1, <2>2, <2>5, <2>6 DEF Synced
  <2>8. Len(IRTemp') = Bits => IRTemp' = message
    <3>1. Len(IRTemp') = Bits => IRTemp' \in [1 .. Bits -> {0, 1}]
      BY <2>5, LenProperties
    <3>2. QED BY <2>2, <2>5, <3>1
  <2>9. QED BY <2>2, <2>4, <2>5, <2>7, <2>8, IrAssumption
<1>5. QED BY <1>3, <1>4

LEMMA INT6Links ==
  ASSUME LinkInv, WellFormed, ServeEdge
  PROVE  LinkInv'
<1>1. /\ INTF6 /\ EIMSK6 /\ TCNT2' = 0 /\ ~INTF6' /\ EIMSK6' /\ INT6
      /\ UNCHANGED <<late, air, message, undisturbed, pc>>
      /\ EdgeIdle \/ EdgeStart \/ EdgeReceive
  BY DEF ServeEdge, INT6
<1>2. AirInv' /\ EdgeNo' = EdgeNo
  BY <1>1 DEF LinkInv, AirInv, EdgeNo
<1>3. CASE EdgeIdle
  <2>1. IRState = "idle" /\ IRState' = "start" /\ TOIE2'
    BY <1>3 DEF EdgeIdle, TimeoutOn
  <2>2. MaskInv'
    BY <1>1, <2>1 DEF LinkInv, MaskInv, Masked
  <2>3. EdgeInv'
    BY <1>1, <2>1 DEF EdgeInv
  <2>4. HeardInv'
    BY <1>1, <1>2, <2>1 DEF LinkInv, HeardInv
  <2>5. QED BY <1>2, <2>2, <2>3, <2>4 DEF LinkInv
<1>4. CASE EdgeStart
  <2>1. IRState = "start"
    BY <1>4 DEF EdgeStart
  <2>2. CASE TCNT2 \in 58 .. 82
    <3>1. IRState' = "receive" /\ IRTemp' = << >> /\ TOIE2'
      BY <1>4, <2>2 DEF EdgeStart, TimeoutOn, NoBits, IR_START_SHORT, IR_START_LONG
    <3>2. EdgeNo = 2 \/ (EdgeNo = 1 /\ pc # "psdMask")
      BY <1>1, <2>1, <2>2 DEF LinkInv, EdgeInv, IR_START_SHORT, IR_START_LONG
    <3>3. (EdgeNo = 2 => Synced(0)') /\ (EdgeNo = 1 /\ pc # "psdMask" => Early')
      BY <1>1, <1>2, <3>1 DEF Synced, Early
    <3>4. ~late
      BY <1>1, <2>1 DEF LinkInv, EdgeInv
    <3>5. EdgeInv'
      BY <1>1, <1>2, <3>1, <3>2, <3>3, <3>4 DEF EdgeInv
    <3>6. MaskInv'
      BY <1>1, <3>1, <3>4 DEF LinkInv, MaskInv, Masked
    <3>7. HeardInv'
      BY <1>1, <1>2, <2>1, <3>1, <3>2, <3>3 DEF LinkInv, HeardInv
    <3>8. QED BY <1>2, <3>5, <3>6, <3>7 DEF LinkInv
  <2>3. CASE TCNT2 \notin 58 .. 82
    <3>1. IRState' = "idle"
      <4>1. TCNT2 < 58 \/ TCNT2 > 82
        BY <2>3 DEF WellFormed, IrTypeOK, Wrap
      <4>2. QED BY <1>4, <4>1 DEF EdgeStart, IR_START_SHORT, IR_START_LONG
    <3>2. ~undisturbed
      <4>1. EdgeNo \in Int
        BY LenProperties, IrAssumption DEF EdgeNo, WellFormed, RoomInv
      <4>2. QED BY <1>1, <2>1, <2>3, <4>1 DEF LinkInv, HeardInv, StartGap
    <3>3. QED BY <1>1, <1>2, <3>1, <3>2 DEF LinkInv, MaskInv, EdgeInv, HeardInv
  <2>4. QED BY <2>2, <2>3
<1>5. CASE EdgeReceive
  <2>1. IRState = "receive" /\ ~late
    BY <1>1, <1>5 DEF EdgeReceive, LinkInv, EdgeInv
  <2>2. CASE IRState' = "idle" /\ ~undisturbed
    BY <1>1, <1>2, <2>2 DEF LinkInv, MaskInv, EdgeInv, HeardInv
  <2>3. CASE EdgeNo = Bits + 2 /\ IRState' = "idle"
    BY <1>1, <1>2, <2>3, IrAssumption DEF LinkInv, MaskInv, EdgeInv, HeardInv
  <2>4. CASE EdgeNo < Bits + 2 /\ IRState' = "receive" /\ TOIE2' /\ Synced(0)' /\ EdgeNo > 2
    BY <1>1, <1>2, <2>1, <2>4 DEF LinkInv, MaskInv, EdgeInv, HeardInv, Masked
  <2>5. QED BY <1>1, <2>1, <2>2, <2>3, <2>4, ReceiveBit
<1>6. QED BY <1>1, <1>3, <1>4, <1>5

LEMMA LinkInit == Init => LinkInv
<1> SUFFICES ASSUME Init PROVE LinkInv
  OBVIOUS
<1>1. /\ IRState = "idle" /\ EIMSK6 /\ ~INTF6 /\ ~late /\ ~undisturbed
      /\ air = << >> /\ pc = "ready"
  BY DEF Init, IrInit
<1>2. QED BY <1>1 DEF LinkInv, AirInv, MaskInv, EdgeInv, HeardInv, Masked

LEMMA LinkNext == LinkInv /\ WellFormed /\ [Next]_vars => LinkInv'
<1> SUFFICES ASSUME LinkInv, WellFormed, [Next]_vars PROVE LinkInv'
  OBVIOUS
<1>1. CASE UNCHANGED vars
  BY <1>1, AsideLinks DEF vars, link, ir
<1>2. CASE \/ Converter \/ ServeAdc
           \/ \E sampling, minute \in BOOLEAN : Tick(sampling, minute)
  BY <1>2, AsideLinks DEF Converter, ServeAdc, Tick, link, ir
<1>3. CASE Remote
  BY <1>3, PressedLinks, EdgeLinks DEF Remote, Pressed
<1>4. QED
  BY <1>1, <1>2, <1>3, INT6Links, TimeoutLinks, PsdLinks, OtherLinks DEF Next, Routine

\* WholeMessages: whatever edges are missed while the receiver is masked, a message
\* handed over is the one in the air, whole and at its last edge; and one that finds
\* the receiver idle and unmasked is handed over.
THEOREM MessagesAreWhole == Spec => WholeMessages
<1>1. LinkInv /\ WellFormed /\ [Next]_vars => [WholeStep /\ HeardStep]_vars
  <2> SUFFICES ASSUME LinkInv, WellFormed, Next PROVE WholeStep /\ HeardStep
    OBVIOUS
  <2>1. CASE INT6
    <3>1. CASE IRState = "receive"
      <4>1. EdgeNo = Bits + 2 => air = << >>
        BY LenProperties, IrAssumption DEF EdgeNo, WellFormed, RoomInv
      <4>2. EdgeNo < Bits + 2 => air # << >>
        BY IrAssumption DEF EdgeNo
      <4>3. QED BY <2>1, <3>1, <4>1, <4>2, ReceiveBit DEF WholeStep, HeardStep
    <3>2. CASE IRState # "receive"
      <4>1. UNCHANGED gIRData
        BY <2>1, <3>2 DEF INT6, EdgeIdle, EdgeStart, EdgeReceive
      <4>2. ~(undisturbed /\ air = << >>)
        BY <2>1, <3>2, IrAssumption DEF INT6, LinkInv, HeardInv, EdgeNo
      <4>3. QED BY <4>1, <4>2 DEF WholeStep, HeardStep
    <3>3. QED BY <3>1, <3>2
  <2>2. CASE ~INT6
    <3>1. ASSUME Command \/ Routine PROVE UNCHANGED gIRData
      BY <3>1
         DEF Command, ReadIr, ReadPsd, ReadVolt, ReadMic, StartSample, SoundMeter, Lights,
             ChargeMode, GetVoltage, Call, Go, Routine, IrTest, IrClear, IrRead, OtherIr,
             Psd, PsdWait, PsdMask, MaskIR, PsdOn, SetChannel, PsdFlag, StartConversion,
             PsdConvert, PsdUnmask, UnmaskIR, Volt, VoltSave, VoltOff, VoltWait, VoltRestore,
             Sample, ResetCount, ClearData, TimskRead, TimskWrite, SoundIr, SoundOn,
             SampleStop, SampleDly, SampleWait, MicOn, CheckPlug, Checked, Pulses, FullCharge,
             Detect, SetCharge, SetMinutes, MinutesLeft, ir
    <3>2. ASSUME \/ Remote \/ IrTimeout \/ Converter \/ ServeAdc
                 \/ \E sampling, minute \in BOOLEAN : Tick(sampling, minute)
          PROVE  UNCHANGED gIRData
      BY <3>2
         DEF Remote, Pressed, RemotePressed, Edge, IrTimeout, TIMER2_OVF, Converter, ServeAdc,
             Tick, ir
    <3>3. UNCHANGED gIRData
      BY <2>2, <3>1, <3>2 DEF Next, ServeEdge
    <3>4. QED BY <2>2, <3>3 DEF WholeStep, HeardStep
  <2>3. QED BY <2>1, <2>2
<1>2. QED BY <1>1, WellFormedInit, WellFormedNext, LinkInit, LinkNext, PTL
             DEF Spec, WholeMessages
=============================================================================
