---------------------------- MODULE MCCallStack -----------------------------
(* The call-stack listing on the programs of DebuggerPrograms.             *)
EXTENDS CallStack, DebuggerPrograms

MCImages == {GameImage, GamePatchedImage, GoneImage}

ASSUME ImagesApart == \A m \in MCImages : InstructionsApart(m)
=============================================================================
