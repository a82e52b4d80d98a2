---------------------------- MODULE MCFdTable ----------------------------
(* Instance of FdTable for TLC: a file of size 2, an empty one             *)
EXTENDS FdTable, TLC

CONSTANTS f1, f2

MCFileSize == (f1 :> 2) @@ (f2 :> 0)

\* Buffer addresses and byte values are only compared.
DataSymmetry == Permutations(Buffers) \cup Permutations(Values)
==========================================================================
