----------------------------- MODULE MCBufCache -----------------------------
(* BufCache for TLC: processes are interchangeable, and so are values.     *)
EXTENDS BufCache, TLC

Symmetry == Permutations(Proc) \cup Permutations(Val)

=============================================================================
