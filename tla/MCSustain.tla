------------------------------- MODULE MCSustain -------------------------------
(* Two roofs, the first confirmed in one or two configurations. *)
EXTENDS Sustain, TLC

CONSTANTS a, b, e

MCRoofs == <<"alu_fp32", "memory_fp32_0">>
MCRefs == {a, b, e}
MCRoofOf == (a :> Roofs[1]) @@ (b :> Roofs[1]) @@ (e :> Roofs[2])
MCConfigOf == (a :> "a") @@ (b :> "b") @@ (e :> "e")
MCRank == (a :> 1) @@ (b :> 2) @@ (e :> 1)
MCRoofChoices == {{}, {Roofs[1]}}
=============================================================================
