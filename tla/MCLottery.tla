----------------------------- MODULE MCLottery ------------------------------
(* Lottery for TLC: CPUs are interchangeable.                              *)
EXTENDS Lottery, TLC

Symmetry == Permutations(CPU)

=============================================================================
