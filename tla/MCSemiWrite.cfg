SPECIFICATION WriteSpec
CONSTANT Buffers <- MCBuffers
CONSTANT MaxCalls = 2
CONSTANT TOP = 112
CONSTANT Nul = Nul
CONSTANT a = a
CONSTANT b = b
INVARIANTS CalleeSaved Printed
\* No call after the last.
CHECK_DEADLOCK FALSE
