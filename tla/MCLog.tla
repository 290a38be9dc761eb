------------------------------- MODULE MCLog -------------------------------
(* Small instances of Log for TLC. *)
EXTENDS LogRefines

CONSTANTS p1, p2, p3, b1, b2, b3

MCProc2 == {p1, p2}
MCProc3 == {p1, p2, p3}
MCBlock2 == {b1, b2}
MCBlock3 == {b1, b2, b3}
MCVal1 == {0}
MCVal2 == {0, 1}
=============================================================================
