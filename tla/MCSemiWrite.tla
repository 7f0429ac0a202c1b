----------------------------- MODULE MCSemiWrite -----------------------------
\* Two flushes in a row, of nothing, of one byte, and of lengths around the
\* rounding of the copy to 16 bytes; one buffer has a NUL inside.
EXTENDS SemiWrite

CONSTANTS a, b

Fill(n, c) == [p \in 1 .. n |-> c]

MCBuffers == {Fill(n, a) : n \in {0, 1, 14, 15, 16, 17}} \cup {Fill(3, b), <<b, Nul, b>>}
=============================================================================
