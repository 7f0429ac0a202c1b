SPECIFICATION Spec
CONSTANT Shapes <- MCShapes
CONSTANT VLMAX = 3
CONSTANT CHAINS = 8
CONSTANT UNROLL = 8
INVARIANTS IndInv Traffic AccessDrawn FlowDrawn
PROPERTIES ImplementsContract Termination
\* The kernel returns and takes no further step.
CHECK_DEADLOCK FALSE
