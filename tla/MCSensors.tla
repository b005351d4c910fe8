----------------------------- MODULE MCSensors -----------------------------
\* Messages of two bits, recordings of two samples; the remote control is used
\* where the infra-red receiver is, and the microphone where it can disturb.
EXTENDS Sensors

MCMessages == {<<0, 1>>, <<1, 0>>}
MCUses == {{"remote", "ir", "psd"}, {"remote", "meter"}, {"remote", "charge"},
           {"volt", "mic", "sample"}, {"psd", "mic", "lights"}, {"mic", "charge"}}
=============================================================================
