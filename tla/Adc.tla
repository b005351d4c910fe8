-------------------------------- MODULE Adc --------------------------------
(***************************************************************************)
(* The analog inputs (basic adc.c, the tick of main.c): one converter, the *)
(* channel it is set to, and the interrupt that stores its result by the   *)
(* channel asked for last.  While the microphone is sampled, the timer     *)
(* interrupt starts conversions, too.                                      *)
(*                                                                         *)
(* A result is the channel it was measured at and whether it is high:      *)
(* above the trigger level of the microphone, or a voltage that only the   *)
(* power supply gives.                                                     *)
(***************************************************************************)
EXTENDS Integers

CONSTANTS
  Nos,          \* MIC_NOS, the samples of one recording
  DlyWrap       \* MIC_DLY is a WORD: 65536

ASSUME AdcAssumption == Nos \in Nat \ {0} /\ DlyWrap \in Nat \ {0}

Channels == {"PSD", "VOLTAGE", "MIC"}
None == "none"

VARIABLES
  gAD_Ch_Index, F_AD_CONVERTING,
  conv,                  \* the converter: the channel it is converting, or none (ADSC)
  ADIF, ADCH,            \* a result waits for the interrupt
  gVOLTAGE,              \* is high
  own,                   \* history: gPSD_val, or gVOLTAGE, was measured at its channel
  MIC_SAMPLING, MIC_LEVEL, MIC_DLY, MIC_STOP,
  sDcnt, sData,          \* sData[i]: slot i holds a sample since it was cleared
  gMIN_DCOUNT

mic   == <<MIC_SAMPLING, MIC_LEVEL, MIC_DLY, MIC_STOP, sDcnt, sData>>
adreg == <<gAD_Ch_Index, F_AD_CONVERTING, conv, ADIF, ADCH>>
adc   == <<adreg, gVOLTAGE, own, mic, gMIN_DCOUNT>>

Slots == 0 .. Nos - 1
Results == [from : Channels, high : BOOLEAN]
NoResult == [from |-> "PSD", high |-> FALSE]

AdcInit ==
  /\ gAD_Ch_Index = "PSD" /\ F_AD_CONVERTING = FALSE
  /\ conv = None /\ ADIF = FALSE /\ ADCH = NoResult
  /\ gVOLTAGE = FALSE /\ own = FALSE
  /\ MIC_SAMPLING = FALSE /\ MIC_LEVEL = 0 /\ MIC_DLY = 0 /\ MIC_STOP = FALSE
  /\ sDcnt = 0 /\ sData = [i \in Slots |-> FALSE]
  /\ gMIN_DCOUNT = 0

-----------------------------------------------------------------------------
\* Mutants of the definitions below: the recording ends one sample early; the
\* index of the samples does not wrap; the flag stays set when another channel's
\* result came.
EndsEarly == sDcnt = Nos - 2
SlotRunsOn == sDcnt + 1
OnlyPsdClears == F_AD_CONVERTING /\ gAD_Ch_Index # "PSD"

\* ADC_set(ADC_MODE_SINGLE) for channel c: the start does nothing while a
\* conversion is on, whose channel is locked; a result that waits is dropped.
ADC_set(c) ==
  /\ conv' = IF conv = None THEN c ELSE conv
  /\ ADIF' = FALSE
  /\ UNCHANGED ADCH

ConversionDone ==
  /\ conv # None
  /\ \E v \in BOOLEAN : ADCH' = [from |-> conv, high |-> v]
  /\ conv' = None /\ ADIF' = TRUE
  /\ UNCHANGED <<gAD_Ch_Index, F_AD_CONVERTING, gVOLTAGE, own, mic, gMIN_DCOUNT>>

\* The microphone's part of the interrupt.
NotTriggered == sDcnt = 0 /\ MIC_LEVEL > 0 /\ ~ADCH.high
ReachedEnd == sDcnt = Nos - 1
NextSlot == (sDcnt + 1) % Nos

WaitForTrigger ==
  /\ MIC_DLY' = (MIC_DLY - 1) % DlyWrap
  /\ IF MIC_DLY' = 0 THEN MIC_STOP' = FALSE /\ MIC_SAMPLING' = FALSE
                     ELSE UNCHANGED <<MIC_STOP, MIC_SAMPLING>>
  /\ UNCHANGED <<MIC_LEVEL, sDcnt, sData>>

TakeSample ==
  /\ sData' = [sData EXCEPT ![sDcnt] = TRUE]
  /\ IF ReachedEnd /\ MIC_STOP THEN MIC_STOP' = FALSE /\ MIC_SAMPLING' = FALSE
                               ELSE UNCHANGED <<MIC_STOP, MIC_SAMPLING>>
  /\ sDcnt' = NextSlot
  /\ UNCHANGED <<MIC_LEVEL, MIC_DLY>>

StillConverting == FALSE

ADC_ISR ==
  /\ ADIF
  /\ ADIF' = FALSE
  /\ ADCH' = NoResult                  \* nobody reads the register again
  /\ gVOLTAGE' = IF gAD_Ch_Index = "VOLTAGE" THEN ADCH.high ELSE gVOLTAGE
  /\ own' = IF gAD_Ch_Index = "MIC" THEN own ELSE ADCH.from = gAD_Ch_Index
  /\ CASE gAD_Ch_Index # "MIC" -> UNCHANGED mic
       [] gAD_Ch_Index = "MIC" /\ NotTriggered -> WaitForTrigger
       [] gAD_Ch_Index = "MIC" /\ ~NotTriggered -> TakeSample
  /\ F_AD_CONVERTING' = StillConverting
  /\ UNCHANGED <<gAD_Ch_Index, conv, gMIN_DCOUNT>>

\* The tick: every MIC_RATE-th starts a conversion of the microphone, some are
\* the last of a minute.
TIMER0_OVF(sampling, minute) ==
  /\ IF MIC_SAMPLING /\ sampling
     THEN gAD_Ch_Index' = "MIC" /\ ADC_set("MIC")
     ELSE UNCHANGED <<gAD_Ch_Index, conv, ADIF, ADCH>>
  /\ gMIN_DCOUNT' = IF minute /\ gMIN_DCOUNT > 0 THEN gMIN_DCOUNT - 1 ELSE gMIN_DCOUNT
  /\ UNCHANGED <<F_AD_CONVERTING, gVOLTAGE, own, mic>>

AdcTypeOK ==
  /\ gAD_Ch_Index \in Channels /\ conv \in Channels \cup {None}
  /\ {F_AD_CONVERTING, ADIF, gVOLTAGE, own, MIC_SAMPLING, MIC_STOP} \subseteq BOOLEAN
  /\ ADCH \in Results
  /\ MIC_LEVEL \in {0, 1} /\ MIC_DLY \in 0 .. DlyWrap - 1
  /\ sDcnt \in Slots /\ sData \in [Slots -> BOOLEAN] /\ gMIN_DCOUNT \in Nat
=============================================================================
