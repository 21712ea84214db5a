---------------------------- MODULE MCProcTable ----------------------------
(* Model values for the instances of module ProcTable.                     *)
EXTENDS ProcTable, TLC

CONSTANTS c1, c2

CpuSymmetry == Permutations({c1, c2})
=============================================================================
