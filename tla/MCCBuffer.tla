------------------------------ MODULE MCCBuffer ------------------------------
\* One buffer of three slots over two byte values and a zero, with an unsigned
\* short that is just wide enough, so that the index wraps after three calls.
EXTENDS CBufferSpec

MCByte == 0 .. 2
=============================================================================
