-------------------------------- MODULE Selection --------------------------------
(***************************************************************************)
(* The selection of a run: configurations() collects the rows of each      *)
(* stage and filters them; export_best() keeps the winner of each roof;    *)
(* replay_configurations() plans exactly that configuration again, maybe   *)
(* on another day's driver, with the shader metadata of the current build. *)
(***************************************************************************)
EXTENDS Roofs

VARIABLES
  pc,        \* idle, collect, planned, refused, replayed
  device,    \* the capabilities of the session
  level,     \* of its plan
  selector,  \* what the command line asks for
  at,        \* the next of ShortStages
  selected,  \* <<[stage, rows], ...>>
  replay     \* the row replayed and the row planned for it

selectionVars == <<pc, device, level, selector, at, selected, replay>>

NoReplay == [old |-> None, new |-> None]

Selects(values, x) == values = {} \/ x \in values

Known(s) == s.families \subseteq Families /\ s.variants \subseteq Manifest

Planned == UNION {selected[i].rows : i \in DOMAIN selected}

Full == selector.families = {} /\ selector.variants = {} /\ selector.stages = {}

-----------------------------------------------------------------------------
(* Replay. *)

\* A roof defined by a confirmation of row, whose configuration says that it is of the cache.
Exported(row) ==
  [row.c EXCEPT !.role = IF row.tag = "sweep-cache" THEN "cache" ELSE "none"]

Exportable(dev) ==
  {r \in Planned : /\ r.tag \in {"sweep-cache", "sweep-memory", "sweep-compute",
                                 "sweep-matrix-feed", "sweep-texture", "sweep-shared"}
                   /\ RoofKey(r.tag, r.c) # None
                   /\ RunnerAccepts(dev, r.c)}

\* Mutant of Parameters: the role is not one of them.
WithoutRole(dev, m, old) ==
  [Base(dev, m) EXCEPT
     !.wg = old.wg, !.groups = old.groups, !.n = old.n, !.loops = old.loops,
     !.stride = old.stride, !.replicas = old.replicas, !.memory_mode = old.memory_mode,
     !.node = old.node, !.order = old.order, !.shared_count = old.shared_count]

\* The launch and data parameters of old, REPLAY_PARAMETERS, with the metadata of m.
Parameters(dev, m, old) ==
  [Base(dev, m) EXCEPT
     !.wg = old.wg, !.groups = old.groups, !.n = old.n, !.loops = old.loops,
     !.stride = old.stride, !.replicas = old.replicas, !.memory_mode = old.memory_mode,
     !.node = old.node, !.order = old.order, !.role = old.role,
     !.shared_count =
        IF m.family = "shared" /\ m.kind = "bw"
          THEN Most(old.shared_count, old.wg * m.accumulators) ELSE old.shared_count]

ReplayTag(c) ==
  CASE c.role = "cache" -> "sweep-cache"
    [] c.m.family = "matrix" /\ c.role # "cache" ->
         IF c.m.feed = "none" THEN "sweep-compute" ELSE "sweep-matrix-feed"
    [] c.m.family \in {"alu", "dot"} -> "sweep-compute"
    [] c.m.family = "memory" /\ c.role # "cache" -> "sweep-memory"
    [] c.m.family = "shared" -> "sweep-shared"
    [] c.m.family = "texture" -> "sweep-texture"

\* The GPU, the shape and the limits of the device that replay_configurations checks.
Replayable(dev, old) ==
  LET m == old.m
      c == Parameters(dev, m, old)
  IN /\ dev.gpu = device.gpu
     /\ Eligible(dev, m)
     /\ c.wg <= dev.max_workgroup
     /\ m.family = "matrix" => c.wg % dev.subgroup = 0
     /\ m.family = "shared" =>
          /\ m.kind = "bw" /\ m.op = 2 => c.stride = 1
          /\ c.shared_count * m.width * Scalar(m.dtype) <= dev.max_shared

-----------------------------------------------------------------------------
SelectionInit ==
  /\ pc = "idle"
  /\ device \in Devices
  /\ level \in Levels
  /\ selector \in Selectors
  /\ at = 1
  /\ selected = <<>>
  /\ replay = NoReplay

\* An unknown family or variant ends the run.
Request ==
  /\ pc = "idle"
  /\ pc' = IF Known(selector) THEN "collect" ELSE "refused"
  /\ UNCHANGED <<device, level, selector, at, selected, replay>>

\* One stage, collected without a measurement; a stage without rows is not run.
Collect ==
  /\ pc = "collect"
  /\ at <= Len(ShortStages)
  /\ LET stage == ShortStages[at]
         rows == {r \in Rows(stage, device, level) :
                    Selects(selector.families, r.c.m.family) /\ Selects(selector.variants, r.c.m)}
     IN selected' = IF Selects(selector.stages, stage) /\ rows # {}
                      THEN Append(selected, [stage |-> stage, rows |-> rows]) ELSE selected
  /\ at' = at + 1
  /\ UNCHANGED <<pc, device, level, selector, replay>>

\* Mutant of Finish: an empty selection is not refused.
FinishAnyway ==
  /\ pc = "collect"
  /\ at > Len(ShortStages)
  /\ pc' = "planned"
  /\ UNCHANGED <<device, level, selector, at, selected, replay>>

Finish ==
  /\ pc = "collect"
  /\ at > Len(ShortStages)
  /\ pc' = IF selected = <<>> THEN "refused" ELSE "planned"
  /\ UNCHANGED <<device, level, selector, at, selected, replay>>

\* A later run, on the device dev, of a configuration this one exported.
Replay ==
  /\ pc = "planned"
  /\ \E dev \in Devices, r \in Exportable(device) :
       LET old == Exported(r)
           c == Parameters(dev, r.c.m, old)
       IN IF Replayable(dev, old)
            THEN /\ pc' = "replayed"
                 /\ device' = dev
                 /\ replay' = [old |-> r, new |-> Row(ReplayTag(c), c)]
            ELSE pc' = "refused" /\ UNCHANGED <<device, replay>>
  /\ selected' = <<>>
  /\ UNCHANGED <<level, selector, at>>

SelectionNext == Request \/ Collect \/ Finish \/ Replay

SelectionSpec == SelectionInit /\ [][SelectionNext]_selectionVars

-----------------------------------------------------------------------------
(* Properties. *)

SelectionTypeOK ==
  /\ pc \in {"idle", "collect", "planned", "refused", "replayed"}
  /\ device \in Devices /\ level \in Levels /\ selector \in Selectors
  /\ at \in 1..(Len(ShortStages) + 1)
  /\ \A i \in DOMAIN selected :
       /\ selected[i].stage \in {ShortStages[j] : j \in 1..(at - 1)}
       /\ \A r \in selected[i].rows : r.c.m \in Manifest /\ {r.c.wg, r.c.groups, r.c.loops} \subseteq Nat \ {0}
  /\ (pc = "planned") => selected # <<>>
  /\ (pc = "replayed") <=> replay # NoReplay

\* The limits that every roof needs.  A workgroup holds a subgroup, and a buffer what shared
\* memory starts with, at 4 bytes a value: twice the memory where values are fp16.
Capable(dev) ==
  /\ dev.max_workgroup >= Most(256, dev.subgroup) /\ dev.max_range >= 256 * MiB
  /\ dev.max_shared >= 16384 /\ 2 * dev.max_shared <= dev.max_range
  /\ dev.image2d >= 13 /\ dev.image3d >= 9

\* Below them the widest arithmetic of the largest grids is refused by the runner for its output.
Roomy(dev) == Capable(dev) /\ dev.max_range >= 512 * MiB

\* The runner accepts every launch that is planned for a device with room: the stages repeat
\* its conditions, of which a test of the plans sees those of shared memory on one device.
LaunchesFit == pc = "planned" /\ Roomy(device) => \A r \in Planned : RunnerAccepts(device, r.c)

Promised(dev, lv) ==
  {<<"alu", t>> : t \in Floats} \cup {<<"dot", "int8">>, <<"cache_read_effective">>}
  \cup {<<"memory", "fp32", op>> :
          op \in IF lv = "fast" THEN {Read, Write, Copy, Triad} ELSE Read..DotOp}
  \cup {<<"shared", t, op>> : t \in Floats, op \in {0, 2}}
  \cup {<<"texture", f, d, l>> : f \in {"rgba16f", "rgba32f"}, d \in {0, 2, 3}, l \in {"cache", "dram"}}
  \cup UNION {{<<"matrix", m.shape.dtype>>}
              \cup {<<"matrix", m.shape.dtype, l>> : l \in {"shared", "cache", "dram"}} :
                m \in {x \in Matrix : Eligible(dev, x)}}

\* Whatever the level, a whole plan has a launch that the runner accepts for every roof: with
\* three arrays 256 MiB are rounded to less than a DRAM-sized working set, on a device with
\* buffers of 256 MiB the largest sets are left out, and what is left must still reach it.
\* Likewise for every subgroup shape the device reports, registers and both feeds, unless it is
\* listed as not compiled ("never skipped silently", matrix_coverage): the largest output of
\* the fast level, 256 MiB, is just what the grid and the runner admit.
EveryRoofIsReachable ==
  pc = "planned" /\ Full /\ Capable(device) =>
    LET accepted == {r \in Planned : RunnerAccepts(device, r.c)}
    IN /\ Promised(device, level) \subseteq {RoofKey(r.tag, r.c) : r \in accepted}
       /\ \A x \in {y \in device.shapes : y.scope = SubgroupScope} :
            x \in NotCompiled(device) \/
            \A feed \in {"none", "shared", "global"} :
              \E r \in accepted :
                /\ r.tag \in {"sweep-compute", "sweep-matrix-feed"}
                /\ r.c.m.family = "matrix" /\ r.c.m.feed = feed /\ IsShape(x, r.c.m.shape)

Swept == {r \in Planned : r.tag \in {"sweep-cache", "sweep-memory", "sweep-compute",
                                     "sweep-matrix-feed", "sweep-texture", "sweep-shared"}}

\* The choice of roofs and the report, which name the roof of a result independently, agree:
\* which results define one, which of them the same one, and by which work it is rated.
KeysAgree ==
  pc = "planned" =>
    LET names == {<<RoofKey(r.tag, r.c), RatedBy(r.c), Reported(r.tag, r.c)>> : r \in Swept}
    IN \A a, b \in names :
         /\ (a[1] = None) <=> (a[3].key = None \/ a[3].control)
         /\ a[1] # None => a[2] = a[3].work
         /\ a[1] # None /\ b[1] # None => ((a[1] = b[1]) <=> (a[3].key = b[3].key))

\* The accounting never counts work that no shader does, for any launch of any plan, and
\* counts for each element what the build checks of the instructions: a rate is conservative.
RatesAreConservative ==
  pc = "planned" =>
    \A r \in Planned : /\ Counted(r.c)[1] <= Executed(device, r.c)[1]
                       /\ Counted(r.c)[2] = Executed(device, r.c)[2]

\* ert.comp: "each element is loaded once, receives FLOPS dependent FMAs per component, and is
\* stored once".
ElementsOnce ==
  pc = "planned" =>
    \A r \in Planned : r.c.m.family = "ert" => Executed(device, r.c) = Counted(r.c)

MaxLoads == 2 ^ 20

\* A dispatch of dependent loads is short enough for the watchdog of the driver, and where a
\* chain has at most half as many nodes, half of the loops walk all of it: the difference
\* between the two is warm.
WalksAreWarm ==
  pc = "planned" =>
    \A r \in {x \in Planned : x.tag \in {"latency-capacity", "latency-tlb", "latency-stride"}} :
      LET nodes == (r.c.n * 4) \div r.c.node
      IN /\ LoadsPerLoop * r.c.loops <= MaxLoads
         /\ 2 * nodes <= MaxLoads => LoadsPerLoop * (r.c.loops \div 2) >= nodes

\* A replay measures the configuration that won: the same stage, launch and data, hence the
\* same roof, although its parameters cross a file and the rest comes from the new build.
ReplayIsFaithful ==
  pc = "replayed" =>
    LET old == replay.old
        new == replay.new
    IN /\ new.tag = old.tag
       /\ [new.c EXCEPT !.role = "none", !.subgroup = old.c.subgroup] = old.c
       /\ RoofKey(new.tag, new.c) = RoofKey(old.tag, old.c)
=============================================================================
