----------------------------- MODULE RollingLog -----------------------------
(***************************************************************************)
(* What a rolling log promises, whatever files it is kept in: records are  *)
(* added at one end and disappear, if at all, from the other.              *)
(***************************************************************************)
EXTENDS Naturals, Sequences

CONSTANT Record

VARIABLE kept   \* the records on disk, the oldest first

Init == kept = <<>>

Add == \E r \in Record : kept' = Append(kept, r)

DropOldest == \E n \in 1 .. Len(kept) : kept' = SubSeq(kept, n + 1, Len(kept))

Spec == Init /\ [][Add \/ DropOldest]_kept
=============================================================================
