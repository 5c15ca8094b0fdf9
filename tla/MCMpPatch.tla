------------------------------ MODULE MCMpPatch ------------------------------
EXTENDS MpPatch

\* Counts on both sides of each boundary: 16 (fixmap), 2^8 (the uint8_t cast),
\* 2^16 (the 16-bit forms); 94 is the count that turns a fixmap tag into 0xde.
MCCounts == {0, 1, 15, 16, 17, 94, 255, 256, 257, 65535, 65536, 65537}

MCPayload == <<0, 0, 0, 0>>

=============================================================================
