SPECIFICATION SessionSpec
CONSTANTS
  gdwBigCallAddress <- MCBig
  gvStructSysDllInfo <- MCSysDlls
  UninitialisedDword <- MCUninitialised
  Labelled <- MCLabelled
  Images <- MCImages
  Selections <- TinySelections
  gdwMaxCallNumber = 1
  MaxTries = 1
  CreateMayFail = TRUE
  MaxLines = 9
  MaxPatches = 0
  MaxTick = 2
  ReadMayFail = TRUE
INVARIANTS SourceFitsHeader AcceptedMergeIsOwn
