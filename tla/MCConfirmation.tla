---------------------------- MODULE MCConfirmation ----------------------------
(* Two candidates of one roof and one of another, so that a pass has three places.
   The two tie in the sweep, or one is gated, and their true rates are equal, differ
   by less than a pass drifts (at most 6), or by more; the plans are "quick" and
   "fast" (top 1 or 2, 3 repeats). *)
EXTENDS Confirmation, TLC

CONSTANTS a, b, c, k1, k2

MCRoofs == <<k1, k2>>
MCConfigs == {a, b, c}
MCRoofOf == (a :> k1) @@ (b :> k1) @@ (c :> k2)
MCPlans == {[top |-> 1, reps |-> 3], [top |-> 2, reps |-> 3]}
MCBases == {(a :> x) @@ (b :> 1000) @@ (c :> 1000) : x \in {1000, 1005, 1007}}
MCSweeps == {(a :> 1100) @@ (b :> x) @@ (c :> 1100) : x \in {0, 1100}}
MCDrifts == {-2, 2}
=============================================================================
