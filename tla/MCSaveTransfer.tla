--------------------------- MODULE MCSaveTransfer ----------------------------
(* Small instances of SaveTransfer. *)
EXTENDS SaveTransfer, TLC

CONSTANTS u1, u2, d1, l1, long, short, i1, i2, i3, i4, i5
SizeOf == (long :> 2) @@ (short :> 1)
Symmetry == Permutations(Uploads)
=============================================================================
