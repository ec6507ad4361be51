SPECIFICATION Spec
CONSTANTS
  gdwBigCallAddress <- MCBig
  gvStructSysDllInfo <- MCSysDlls
  UninitialisedDword <- MCUninitialised
  Labelled <- MCLabelled
  Images <- MCImages
  Selections <- GameSelection
  gdwMaxCallNumber = 2
  MaxTries = 2
  CreateMayFail = TRUE
  MaxPatches = 1
INVARIANTS CalleesAccounted PostOrder WalkedIsClosed
PROPERTIES EndsUnlessGone
