--------------------------- MODULE MCSerialSlave ---------------------------
\* Three motions through the two buffers: the third goes into the buffer of the
\* first.  Blocks of one and two bytes, and a size one byte too large.
EXTENDS SerialSlave

MCSizes == {1, 2, 4}
=============================================================================
