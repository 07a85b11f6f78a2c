--------------------------------- MODULE Bounds ---------------------------------
(***************************************************************************)
(* The smaller and the larger of two numbers.                              *)
(***************************************************************************)
EXTENDS Integers

Least(a, b) == IF a <= b THEN a ELSE b
Most(a, b) == IF a >= b THEN a ELSE b
=============================================================================
