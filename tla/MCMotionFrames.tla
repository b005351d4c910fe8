--------------------------- MODULE MCMotionFrames ---------------------------
\* Two servos; motions of up to two scenes of up to three frames, timed or too
\* fast to be timed, chosen when the motion starts.
EXTENDS MotionFrames
=============================================================================
