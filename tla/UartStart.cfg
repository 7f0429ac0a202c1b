SPECIFICATION Spec
CONSTANT Statuses = {0, 1}
PROPERTY FallsThroughToExit
\* A program that has ended does nothing.
CHECK_DEADLOCK FALSE
