----------------------------- MODULE MCBinLink -----------------------------
(***************************************************************************)
(* Two servo packets: make servo 1 passive, read the position of servo 2;  *)
(* and a position for servo 0 in the packet that all of them read.         *)
(***************************************************************************)
EXTENDS BinLink

MCPackets == {<<255, 193, 16, 81>>, <<255, 162, 0, 34>>}
MCSync == <<255, 95, 1, 100, 100>>
=============================================================================
