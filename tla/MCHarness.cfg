SPECIFICATION Spec
CONSTANT BENCHES <- MCBenches
CONSTANT Toggles <- MCToggles
CONSTANT Commands <- MCCommands
CONSTANT Kinds <- MCKinds
CONSTANT Cuts <- MCCuts
CONSTANT Sessions = 2
CONSTANT None = None
INVARIANTS Fresh SectionsComplete RaisesOnlyIfDisabled NothingOlderThanClean
\* The sitting ends.
CHECK_DEADLOCK FALSE
