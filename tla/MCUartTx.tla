------------------------------ MODULE MCUartTx ------------------------------
\* A transmit buffer of two bytes, three of them passed through it, two single
\* bytes and two starts of the buffer, in every order.
EXTENDS UartTx

MCNul  == <<"nul", 0>>
MCByte == ({"s", "b"} \X (1 .. 3)) \cup {MCNul}
=============================================================================
