------------------------------ MODULE MCUartRx ------------------------------
\* A buffer of two bytes and seven arrivals: the ring wraps, fills and
\* overflows, and the overflow counter itself wraps at Word.
EXTENDS UartRx

MCByte == {0, 1}
=============================================================================
