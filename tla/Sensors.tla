------------------------------ MODULE Sensors ------------------------------
(***************************************************************************)
(* The program of the BASIC firmware that reads the sensors, over the      *)
(* interrupts of IrReceiver and Adc: irGetByte (basic ir.c), Get_AD_PSD    *)
(* and Get_VOLTAGE (adc.c), SAMPLE and LIGHTS (commands.c), $MIC           *)
(* (functions.c), and the charging of the battery (main.c).                *)
(*                                                                         *)
(* One step of the program is one access to what an interrupt changes, too.*)
(* Delays are steps like any other: anything may come between.             *)
(***************************************************************************)
EXTENDS IrReceiver, Adc

CONSTANTS
  PlugCount, UnplugCount,    \* 2 and 6: DetectPower believes the reading after that
  Checks,                    \* 10: the readings of chargemode before it decides
  PulseMinutes, FullMinutes, \* 5 and 85
  Delay,                     \* d / MIC_RATE of the program's SAMPLE commands
  Uses                       \* what a program does, and whether the remote is used, too

ASSUME SensorsAssumption ==
  /\ {PlugCount, UnplugCount, Checks, PulseMinutes, FullMinutes} \subseteq Nat \ {0}
  /\ Delay \in 1 .. DlyWrap - 1
  /\ Uses \subseteq SUBSET {"remote", "ir", "psd", "volt", "mic", "sample", "meter", "lights",
                           "charge"}

VARIABLES
  use,                       \* which of Uses it is
  pc,                        \* the program
  ret, retKey,               \* where a routine returns to; irGetByte with a key
  saved,                     \* Get_VOLTAGE's t; sample_sound's copy of TIMSK
  F_PS_PLUGGED, gPSplugCount, gPSunplugCount, CHARGE, cnt,
  alone                      \* history: nothing else was using the converter

regs  == <<ret, retKey, saved, use>>
power == <<F_PS_PLUGGED, gPSplugCount, gPSunplugCount, CHARGE, cnt>>
vars  == <<ir, adc, pc, regs, power, alone>>

Init ==
  /\ IrInit /\ AdcInit
  /\ use \in Uses
  /\ pc = "ready" /\ ret = "ready" /\ retKey = "ready" /\ saved = FALSE
  /\ F_PS_PLUGGED = FALSE /\ gPSplugCount = 0 /\ gPSunplugCount = 0
  /\ CHARGE = FALSE /\ cnt = 0
  /\ alone = FALSE

\* The program goes on only when no interrupt is due.
Runs(label) == pc = label /\ ~ADIF /\ ~(INTF6 /\ EIMSK6)

Call(sub, from, to, toKey) == Runs(from) /\ pc' = sub /\ ret' = to /\ retKey' = toKey
Return(label) == pc' = label /\ ret' = "ready" /\ retKey' = "ready"

-----------------------------------------------------------------------------
\* Mutants of the definitions below: irGetByte reads the data before it clears the
\* flag; Get_VOLTAGE samples on.
TakeSwapped(step) ==
  IF step = 2 THEN gIRReady' = FALSE /\ UNCHANGED unread
              ELSE unread' = FALSE /\ UNCHANGED gIRReady
SamplesOn == MIC_SAMPLING

(***************************************************************************)
(* irGetByte: it clears gIRReady, then reads gIRData.                      *)
(***************************************************************************)
OtherIr == <<IRState, IRTemp, gIRData, TCNT2, TOIE2, EIMSK6, INTF6, late, air, message,
             undisturbed>>

IrTest ==
  /\ Runs("irTest")
  /\ IF gIRReady THEN pc' = "irClear" /\ UNCHANGED <<ret, retKey>> ELSE Return(ret)
  /\ UNCHANGED <<ir, adc, saved, use, power, alone>>

TakeMessage(step) ==
  IF step = 1 THEN gIRReady' = FALSE /\ UNCHANGED unread
              ELSE unread' = FALSE /\ UNCHANGED gIRReady

IrClear ==
  /\ Runs("irClear") /\ pc' = "irRead"
  /\ TakeMessage(1)
  /\ UNCHANGED <<OtherIr, adc, regs, power, alone>>

IrRead ==
  /\ Runs("irRead") /\ Return(retKey)
  /\ TakeMessage(2)
  /\ UNCHANGED <<OtherIr, adc, saved, use, power, alone>>

(***************************************************************************)
(* Get_AD_PSD: no infra-red while the distance sensor is on.               *)
(***************************************************************************)
PsdWait ==
  /\ Runs("psdWait") /\ IRState = "idle"
  /\ pc' = "psdMask"
  /\ UNCHANGED <<ir, adc, regs, power, alone>>

PsdMask ==
  /\ Runs("psdMask") /\ pc' = "psdOn"
  /\ MaskIR
  /\ UNCHANGED <<adc, regs, power, alone>>

\* The sensor is given 50 ms, in which a message that had begun times out.
PsdOn ==
  /\ Runs("psdOn") /\ ~TOIE2
  /\ pc' = "psdChannel"
  /\ UNCHANGED <<ir, adc, regs, power, alone>>

SetChannel(from, c, to) ==
  /\ Runs(from) /\ pc' = to
  /\ gAD_Ch_Index' = c
  /\ alone' = (conv = None /\ (c = "PSD" => ~MIC_SAMPLING)) /\ own' = FALSE
  /\ UNCHANGED <<ir, F_AD_CONVERTING, conv, ADIF, ADCH, gVOLTAGE, mic,
                 gMIN_DCOUNT, regs, power>>

PsdFlag ==
  /\ Runs("psdFlag") /\ pc' = "psdStart"
  /\ F_AD_CONVERTING' = TRUE
  /\ UNCHANGED <<ir, gAD_Ch_Index, conv, ADIF, ADCH, gVOLTAGE, own, mic,
                 gMIN_DCOUNT, regs, power, alone>>

\* ADC_set reads the channel again.
StartConversion(from, to) ==
  /\ Runs(from) /\ pc' = to
  /\ ADC_set(gAD_Ch_Index)
  /\ UNCHANGED <<ir, gAD_Ch_Index, F_AD_CONVERTING, gVOLTAGE, own, mic, gMIN_DCOUNT,
                 regs, power, alone>>

PsdConvert ==
  /\ Runs("psdConvert") /\ ~F_AD_CONVERTING
  /\ pc' = "psdUnmask"
  /\ UNCHANGED <<ir, adc, regs, power, alone>>

PsdUnmask ==
  /\ Runs("psdUnmask") /\ pc' = "ready"
  /\ UnmaskIR
  /\ alone' = FALSE
  /\ UNCHANGED <<adc, regs, power>>

Psd == \/ PsdWait \/ PsdMask \/ PsdOn \/ SetChannel("psdChannel", "PSD", "psdFlag") \/ PsdFlag
       \/ StartConversion("psdStart", "psdConvert") \/ PsdConvert \/ PsdUnmask

(***************************************************************************)
(* Get_VOLTAGE: no sampling of the microphone meanwhile; it waits for ADSC.*)
(***************************************************************************)
SetSampling(on) ==
  /\ MIC_SAMPLING' = on
  /\ UNCHANGED <<adreg, gVOLTAGE, own, MIC_LEVEL, MIC_DLY, MIC_STOP, sDcnt, sData,
                 gMIN_DCOUNT>>

VoltSave ==
  /\ Runs("volt") /\ pc' = "voltOff"
  /\ saved' = MIC_SAMPLING
  /\ UNCHANGED <<ir, adc, ret, retKey, use, power, alone>>

NoSampling == FALSE
VoltOff ==
  /\ Runs("voltOff") /\ pc' = "voltChannel"
  /\ SetSampling(NoSampling)
  /\ UNCHANGED <<ir, regs, power, alone>>

VoltWait ==
  /\ Runs("voltWait") /\ conv = None
  /\ pc' = "voltRestore"
  /\ UNCHANGED <<ir, adc, regs, power, alone>>

VoltRestore ==
  /\ Runs("voltRestore") /\ Return(ret)
  /\ SetSampling(saved)
  /\ saved' = FALSE /\ alone' = FALSE
  /\ UNCHANGED <<ir, use, power>>

Volt == \/ VoltSave \/ VoltOff \/ SetChannel("voltChannel", "VOLTAGE", "voltStart")
        \/ StartConversion("voltStart", "voltWait") \/ VoltWait \/ VoltRestore

(***************************************************************************)
(* sample_sound(1), and the commands that sample the microphone.           *)
(***************************************************************************)
OtherMic == <<adreg, gVOLTAGE, own, gMIN_DCOUNT>>

ResetCount(from, to) ==
  /\ Runs(from) /\ pc' = to
  /\ sDcnt' = 0
  /\ UNCHANGED <<ir, OtherMic, MIC_SAMPLING, MIC_LEVEL, MIC_DLY, MIC_STOP, sData,
                 regs, power, alone>>

\* TIMSK |= 0x01 reads the register and writes it back.
TimskRead ==
  /\ Runs("timskRead") /\ pc' = "timskWrite"
  /\ saved' = TOIE2
  /\ UNCHANGED <<ir, adc, ret, retKey, use, power, alone>>

TimskWrite ==
  /\ Runs("timskWrite") /\ pc' = "soundIr"
  /\ TOIE2' = saved /\ saved' = FALSE
  /\ UNCHANGED <<IRState, IRTemp, gIRReady, gIRData, TCNT2, EIMSK6, INTF6, late, air,
                 message, undisturbed, unread, adc, ret, retKey, use, power, alone>>

SoundIr ==
  /\ Runs("soundIr") /\ pc' = "soundOn"
  /\ UnmaskIR
  /\ UNCHANGED <<adc, regs, power, alone>>

SoundOn ==
  /\ Runs("soundOn") /\ Return(ret)
  /\ SetSampling(TRUE)
  /\ UNCHANGED <<ir, saved, use, power, alone>>

\* SAMPLE n, d: its trigger level was set, then the rest.
ClearData(from, to) ==
  /\ Runs(from) /\ pc' = to
  /\ sData' = [i \in Slots |-> FALSE]
  /\ UNCHANGED <<ir, OtherMic, MIC_SAMPLING, MIC_LEVEL, MIC_DLY, MIC_STOP, sDcnt,
                 regs, power, alone>>

SampleStop ==
  /\ Runs("sampleStop") /\ pc' = "sampleDly"
  /\ MIC_STOP' = TRUE
  /\ UNCHANGED <<ir, OtherMic, MIC_SAMPLING, MIC_LEVEL, MIC_DLY, sDcnt, sData,
                 regs, power, alone>>

SampleDly ==
  /\ Runs("sampleDly") /\ pc' = "sampleWait"
  /\ MIC_DLY' = Delay
  /\ UNCHANGED <<ir, OtherMic, MIC_SAMPLING, MIC_LEVEL, MIC_STOP, sDcnt, sData,
                 regs, power, alone>>

SampleWait ==
  /\ Runs("sampleWait") /\ ~MIC_STOP
  /\ pc' = "ready"
  /\ UNCHANGED <<ir, adc, regs, power, alone>>

MicOn ==
  /\ Runs("micOn") /\ pc' = "ready"
  /\ SetSampling(TRUE)
  /\ UNCHANGED <<ir, regs, power, alone>>

Sample == \/ ResetCount("sample", "sampleClear") \/ ClearData("sampleClear", "sound")
          \/ ResetCount("sound", "timskRead") \/ TimskRead \/ TimskWrite \/ SoundIr \/ SoundOn
          \/ SampleStop \/ SampleDly \/ SampleWait
          \/ ClearData("mic", "micOn") \/ MicOn
-----------------------------------------------------------------------------
(***************************************************************************)
(* chargemode and ChargeNiMH.                                              *)
(***************************************************************************)
Go(from, to) ==
  /\ Runs(from) /\ pc' = to
  /\ UNCHANGED <<ir, adc, regs, power, alone>>

GetVoltage(from, to) ==
  /\ Call("volt", from, to, to)
  /\ UNCHANGED <<ir, adc, saved, use, power, alone>>

\* The plug is believed to be in, or out, after some equal readings in a row.
DetectPower ==
  IF F_PS_PLUGGED
  THEN LET n == IF gVOLTAGE THEN 0 ELSE gPSunplugCount + 1
       IN  /\ F_PS_PLUGGED' = (n <= UnplugCount)
           /\ gPSunplugCount' = IF n > UnplugCount THEN 0 ELSE n
           /\ UNCHANGED gPSplugCount
  ELSE LET n == IF gVOLTAGE THEN gPSplugCount + 1 ELSE 0
       IN  /\ F_PS_PLUGGED' = (n > PlugCount)
           /\ gPSplugCount' = IF n > PlugCount THEN 0 ELSE n
           /\ gPSunplugCount' = IF gVOLTAGE THEN 0 ELSE gPSunplugCount

\* DetectPower, and on with the plug in or out.
Detect(from, plugged, unplugged) ==
  /\ Runs(from)
  /\ DetectPower
  /\ pc' = IF F_PS_PLUGGED' THEN plugged ELSE unplugged
  /\ cnt' = IF from = "checked" THEN cnt + 1 ELSE cnt
  /\ UNCHANGED <<ir, adc, regs, CHARGE, alone>>

SetCharge(from, on, to) ==
  /\ Runs(from) /\ pc' = to
  /\ CHARGE' = on
  /\ UNCHANGED <<ir, adc, regs, F_PS_PLUGGED, gPSplugCount, gPSunplugCount, cnt, alone>>

SetMinutes(from, n, to) ==
  /\ Runs(from) /\ pc' = to
  /\ gMIN_DCOUNT' = n
  /\ UNCHANGED <<ir, adreg, gVOLTAGE, own, mic, regs, power, alone>>

\* while (gMIN_DCOUNT) { if (uartGetByte()>=0 || irGetByte()>=0) break;
MinutesLeft(from, go, over) ==
  \/ gMIN_DCOUNT = 0 /\ Go(from, over)
  \/ gMIN_DCOUNT > 0 /\ Go(from, over)                   \* a key of the terminal
  \/ /\ gMIN_DCOUNT > 0 /\ Call("irTest", from, go, over)
     /\ UNCHANGED <<ir, adc, saved, use, power, alone>>

Checked ==
  /\ cnt = Checks /\ Runs("check")
  /\ pc' = IF F_PS_PLUGGED THEN "pulses" ELSE "ready"
  /\ cnt' = 0
  /\ UNCHANGED <<ir, adc, regs, F_PS_PLUGGED, gPSplugCount, gPSunplugCount, CHARGE, alone>>

CheckPlug ==
  \/ cnt < Checks /\ GetVoltage("check", "checked")
  \/ Detect("checked", "check", "check")
  \/ Checked

\* Pulses of 40 ms.  The plug out or a key ends them, not the charge.
Pulses ==
  \/ SetMinutes("pulses", PulseMinutes, "pulse")
  \/ MinutesLeft("pulse", "pulsePower", "full")
  \/ GetVoltage("pulsePower", "pulsePlug")
  \/ Detect("pulsePlug", "pulseOn", "full")
  \/ SetCharge("pulseOn", TRUE, "pulseOff")
  \/ SetCharge("pulseOff", FALSE, "pulseVolt")
  \/ GetVoltage("pulseVolt", "pulsed")
  \/ Detect("pulsed", "pulse", "full")

FullCharge ==
  \/ SetMinutes("full", FullMinutes, "charge")
  \/ MinutesLeft("charge", "chargeOn", "chargeEnd")
  \/ SetCharge("chargeOn", TRUE, "chargeOff")
  \/ SetCharge("chargeOff", FALSE, "chargeVolt")
  \/ GetVoltage("chargeVolt", "charged")
  \/ Detect("charged", "charge", "chargeEnd")
  \/ SetCharge("chargeEnd", FALSE, "ready")

-----------------------------------------------------------------------------
(***************************************************************************)
(* What the BASIC program, or its user, does next.                         *)
(***************************************************************************)
ReadIr == Call("irTest", "ready", "ready", "ready") /\ UNCHANGED <<ir, adc, saved, use, power, alone>>
ReadPsd == Go("ready", "psdWait")
ReadVolt == GetVoltage("ready", "ready")
ReadMic == Go("ready", "mic")

StartSample ==
  /\ Call("sample", "ready", "sampleStop", "ready")
  /\ MIC_LEVEL' \in {0, 1}
  /\ UNCHANGED <<ir, OtherMic, MIC_SAMPLING, MIC_DLY, MIC_STOP, sDcnt, sData, saved, use,
                 power, alone>>

SoundMeter == Call("sound", "ready", "ready", "ready") /\ UNCHANGED <<ir, adc, saved, use, power, alone>>

Lights ==
  /\ Runs("ready") /\ pc' = "ready"
  /\ SetSampling(FALSE)
  /\ UNCHANGED <<ir, regs, power, alone>>

ChargeMode ==
  /\ Runs("ready") /\ pc' = "check"
  /\ cnt' = 0
  /\ UNCHANGED <<ir, adc, regs, F_PS_PLUGGED, gPSplugCount, gPSunplugCount, CHARGE, alone>>

Command ==
  \/ "ir" \in use /\ ReadIr
  \/ "psd" \in use /\ ReadPsd
  \/ "volt" \in use /\ ReadVolt
  \/ "mic" \in use /\ ReadMic
  \/ "sample" \in use /\ StartSample
  \/ "meter" \in use /\ SoundMeter
  \/ "lights" \in use /\ Lights
  \/ "charge" \in use /\ ChargeMode

Routine == \/ IrTest \/ IrClear \/ IrRead \/ Psd \/ Volt \/ Sample
           \/ CheckPlug \/ Pulses \/ FullCharge

-----------------------------------------------------------------------------
Pressed == "remote" \in use /\ RemotePressed
Remote == (Pressed \/ Edge) /\ UNCHANGED <<adc, pc, regs, power, alone>>
ServeEdge == INT6 /\ UNCHANGED <<adc, pc, regs, power, alone>>
IrTimeout == TIMER2_OVF /\ UNCHANGED <<adc, pc, regs, power, alone>>
Converter == ConversionDone /\ UNCHANGED <<ir, pc, regs, power, alone>>

ServeAdc ==
  /\ ADC_ISR
  /\ UNCHANGED <<ir, pc, regs, power, alone>>

Tick(sampling, minute) ==
  TIMER0_OVF(sampling, minute) /\ UNCHANGED <<ir, pc, regs, power, alone>>

Next ==
  \/ Command \/ Routine
  \/ Remote \/ ServeEdge \/ IrTimeout \/ Converter \/ ServeAdc
  \/ \E sampling, minute \in BOOLEAN : Tick(sampling, minute)

(***************************************************************************)
(* The program runs: it looks every few microseconds at what lasts for     *)
(* milliseconds.  A conversion takes 14 us, a tick comes every millisecond *)
(* and the overflow of Timer2 17.7 ms after the last edge.  Nobody has to  *)
(* use the remote control, and a message ends.                             *)
(***************************************************************************)
Fairness ==
  /\ SF_vars(Routine)
  /\ WF_vars(Converter) /\ SF_vars(ServeAdc) /\ WF_vars(ServeEdge) /\ WF_vars(IrTimeout)
  /\ WF_vars(Edge /\ UNCHANGED <<adc, pc, regs, power, alone>>)
  /\ WF_vars(\E minute \in BOOLEAN : Tick(TRUE, minute))
  /\ WF_vars(\E sampling \in BOOLEAN : Tick(sampling, TRUE))

Spec == Init /\ [][Next]_vars /\ Fairness

-----------------------------------------------------------------------------
TypeOK ==
  /\ IrTypeOK /\ AdcTypeOK
  /\ {saved, F_PS_PLUGGED, CHARGE, alone} \subseteq BOOLEAN
  /\ gPSplugCount \in 0 .. PlugCount /\ gPSunplugCount \in 0 .. UnplugCount
  /\ cnt \in 0 .. Checks

\* Only whole messages are handed over, and a message that meets an idle receiver
\* is (ir.c 40-110).
WholeMessages == [][WholeStep /\ HeardStep]_vars

\* A message is never lost between the interrupt and the reader: until the last one
\* received was returned, the flag says so or the reader is about to (ir.c 102-106).
NewestKept == unread => gIRReady \/ pc = "irRead"

\* What is returned was measured at the channel that was asked for, in this call,
\* if nothing else was using the converter when it began; for a voltage it does not
\* matter that the microphone is sampled before and after (adc.c 172-183, 226-235).
ReadingIsOwn ==
  alone /\ pc \in {"voltRestore", "psdUnmask"} => own

\* SAMPLE is woken by its time-out or when every sample of the recording is there,
\* whatever the microphone was doing before (commands.c 1427-1453).
SampleStep ==
  pc = "sampleWait" /\ MIC_STOP /\ ~MIC_STOP' =>
    MIC_DLY' = 0 \/ \A i \in Slots : sData'[i]
SampleWhole == [][SampleStep]_vars

\* The waits in the program end: for the remote to be silent (unless sample_sound has
\* switched off the time-out), for a conversion, for a recording that is going on,
\* for the end of the charge, which leaves the charger off.
PsdEnds    == (pc = "psdWait" /\ (IRState = "idle" \/ TOIE2)) ~> (pc = "ready")
SampleEnds == (pc = "sampleWait" /\ MIC_SAMPLING) ~> (pc = "ready")
ChargeEnds == (pc \in {"volt", "pulse", "charge"}) ~> (pc = "ready" /\ ~CHARGE)
WaitsEnd == PsdEnds /\ SampleEnds /\ ChargeEnds
=============================================================================
