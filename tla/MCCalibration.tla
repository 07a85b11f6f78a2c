----------------------------- MODULE MCCalibration -----------------------------
(* Steady clocks from launch-bound to compute-bound, among them one (16 loops of 5) on
   which no batch fits and one (2 loops of 39) that overshoots, and an erratic one. *)
EXTENDS Calibration

MCClocks ==
  {[steady |-> TRUE, launch |-> l, body |-> b] :
     l \in {0, 1, 5, 60}, b \in {1, 3, 5, 10, 39, 200}}
  \cup {[steady |-> FALSE, launch |-> 0, body |-> 1]}
=============================================================================
