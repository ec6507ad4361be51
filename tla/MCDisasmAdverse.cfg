SPECIFICATION Spec
CONSTANTS
  gdwBigCallAddress <- MCBig
  gvStructSysDllInfo <- MCSysDlls
  UninitialisedDword <- MCUninitialised
  Labelled <- MCLabelled
  Images <- MCAdverseImages
  Selections <- SmallSelection
  gdwMaxCallNumber = 2
  MaxTries = 2
  CreateMayFail = TRUE
  MaxLines = 5
  MaxPatches = 1
  CodeAddress <- MCCodeAddress
INVARIANTS DistinctFunctions OneWriterPerFile CallsAnchored GdwDefinedOnce ClosedInOrder
PROPERTIES ImplementsExtraction EndsUnlessGone
CHECK_DEADLOCK FALSE
