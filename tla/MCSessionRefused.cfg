SPECIFICATION SessionSpec
CONSTANTS
  gdwBigCallAddress <- MCBig
  gvStructSysDllInfo <- MCSysDlls
  UninitialisedDword <- MCUninitialised
  Labelled <- MCLabelled
  Images <- MCImages
  Selections <- TinySelections
  gdwMaxCallNumber = 1
  MaxTries = 1
  CreateMayFail = FALSE
  MaxLines = 9
  MaxPatches = 0
  MaxTick = 1
  ReadMayFail = FALSE
INVARIANTS RefusedWritesNothing
