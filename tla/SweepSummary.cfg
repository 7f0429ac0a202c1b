SPECIFICATION Spec
CONSTANT Configs <- MCConfigs
CONSTANT LineCuts = {4, 9}
CONSTANT None = None
PROPERTY SummaryWritten
\* The script ends.
CHECK_DEADLOCK FALSE
