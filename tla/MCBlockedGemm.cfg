SPECIFICATION Spec
CONSTANT Shapes <- MCShapes
CONSTANT VLMAX = 2
CONSTANT BLOCK = 3
INVARIANTS IndInv Correct LoadedOnce HourglassDrawn SharedLoadDrawn
PROPERTY ImplementsContract
\* The kernel returns and takes no further step.
CHECK_DEADLOCK FALSE
