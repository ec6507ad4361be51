------------------------------ MODULE MCSession -----------------------------
(* Menu sessions on a program of DebuggerPrograms.                         *)
EXTENDS Session, DebuggerPrograms

MCImages == {TinyImage}
=============================================================================
