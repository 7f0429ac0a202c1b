SPECIFICATION WriteSpec
CONSTANT Buffers <- MCBuffers
CONSTANT MaxCalls = 2
CONSTANT TOP = 112
CONSTANT Nul = Nul
CONSTANT a = a
CONSTANT b = b
INVARIANT ReturnsCount
\* No call after the last.
CHECK_DEADLOCK FALSE
