------------------------------- MODULE MCPipe -------------------------------
(* Model values for the instances of module Pipe.                          *)
EXTENDS Pipe

CONSTANTS r1, r2, w1, w2, a, b
=============================================================================
