------------------------------ MODULE MCDisasm ------------------------------
(* The extraction, and its refinement of Extraction, on the programs of    *)
(* DebuggerPrograms.                                                       *)
EXTENDS DisasmRefinement, DebuggerPrograms

MCImages == {GameImage}
MCAdverseImages == {SmallImage, SmallPatchedImage, GoneImage}
MCSmallImages == {SmallImage}
MCCodeAddress == 10 .. 66
=============================================================================
