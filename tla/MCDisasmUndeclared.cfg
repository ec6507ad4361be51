SPECIFICATION Spec
CONSTANTS
  gdwBigCallAddress <- MCBig
  gvStructSysDllInfo <- MCSysDlls
  UninitialisedDword <- MCUninitialised
  Labelled <- MCLabelled
  Images <- MCSmallImages
  Selections <- SmallSelection
  gdwMaxCallNumber = 2
  MaxTries = 1
  CreateMayFail = TRUE
  MaxLines = 9
  MaxPatches = 0
  CodeAddress <- MCCodeAddress
INVARIANTS CallsDeclared
