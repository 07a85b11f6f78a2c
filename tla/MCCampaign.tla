----------------------------- MODULE MCCampaign -----------------------------
(* Two stages, the second with nothing to measure (a confirmation without a quality-
   gated candidate), so that an end probe is reused by the next start, a periodic check
   falls inside a stage (every 2), and a restart finds some rows finished.  Rates are
   percent of the middle of the fast state: 94 and 106 are its scatter, 80 is the device
   that sags, 68 the slow state (at most 69).  94, 80, 80, 68 are accepted in turn. *)
EXTENDS Campaign

CONSTANTS k1, k2

MCKeys == {k1, k2}
Stage(keys) == <<Check("start")>> \o [i \in DOMAIN keys |-> Run(keys[i])] \o <<Check("end")>>
MCProgram == Stage(<<k1, k2>>) \o Stage(<<>>)

SmallProgram == Stage(<<k1, k2>>)
=============================================================================
