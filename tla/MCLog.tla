------------------------------- MODULE MCLog -------------------------------
(* Model values for the instances of module Log.                           *)
EXTENDS Log

CONSTANTS p1, p2, p3, b1, b2, b3, v1, v2
=============================================================================
