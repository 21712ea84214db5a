------------------------------ MODULE MCPerCpu ------------------------------
(* PerCpu for TLC.  Threads are interchangeable; harts are not, because    *)
(* hart 0 runs clockintr.                                                  *)
EXTENDS PerCpu, TLC

Symmetry == Permutations(Thread)

=============================================================================
