SPECIFICATION Spec
CONSTANT Layouts <- MCLayouts
CONSTANT Statuses = {0, 1}
CONSTANT Causes = {2, 7}
CONSTANT Increments <- MCIncrements
CONSTANT ADDRESSES = 24
INVARIANTS IndInv Image HeapInv TrapVisible
PROPERTY Progress
\* The simulation ends.
CHECK_DEADLOCK FALSE
