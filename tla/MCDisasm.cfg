SPECIFICATION Spec
CONSTANTS
  gdwBigCallAddress <- MCBig
  gvStructSysDllInfo <- MCSysDlls
  UninitialisedDword <- MCUninitialised
  Labelled <- MCLabelled
  Images <- MCImages
  Selections <- GameSelection
  gdwMaxCallNumber = 2
  MaxTries = 2
  CreateMayFail = FALSE
  MaxLines = 9
  MaxPatches = 0
  CodeAddress <- MCCodeAddress
INVARIANTS ReturnCodeHonest CallsDeclared JumpsLand SweepComplete
PROPERTIES EndsUnlessGone
