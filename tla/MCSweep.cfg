SPECIFICATION Spec
CONSTANT Configs <- MCConfigs
CONSTANT LineCuts <- MCLineCuts
CONSTANT None = None
INVARIANTS RowsFaithful NAOnlyIfMissing SummaryComplete
\* The script ends.
CHECK_DEADLOCK FALSE
