---------------------------- MODULE MCOwnership ----------------------------
(* Three controllers: c1 measures a GPU into d1, c2 only probes the shapes of that
   GPU, c3 measures another GPU into d1 as well.  So every pair of them conflicts
   in a different way: on the device, on the directory, or not at all. *)
EXTENDS Ownership, TLC

CONSTANTS c1, c2, c3, g1, g2, d1

MCControllers == {c1, c2, c3}
MCGpuOf == (c1 :> g1) @@ (c2 :> g1) @@ (c3 :> g2)
ShapesDirOf == (c1 :> d1) @@ (c2 :> None) @@ (c3 :> d1)
=============================================================================
