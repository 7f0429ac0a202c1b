SPECIFICATION Spec
CONSTANT Shapes <- MCShapes
INVARIANTS IndInv Correct
PROPERTY ImplementsContract
\* The kernel returns and takes no further step.
CHECK_DEADLOCK FALSE
