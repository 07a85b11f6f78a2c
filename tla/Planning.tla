-------------------------------- MODULE Planning --------------------------------
(***************************************************************************)
(* Which configurations a plan measures (the short stages of stages.py,    *)
(* collected by planning.configurations), what the native runner accepts   *)
(* of them, which roof each result defines, and the replay of a confirmed  *)
(* configuration on the current build.                                     *)
(*                                                                         *)
(* A row is what a stage asks for: a tag, which is the directory of the    *)
(* result, and a configuration.  The rows of a stage form a set; that they *)
(* are all different is checked by counting them (MCSelection).  Left out   *)
(* are the number of samples, the warm-up and the hash of the runner.      *)
(***************************************************************************)
EXTENDS Catalogue, Bounds, FiniteSets

CONSTANTS
  Devices,    \* [gpu, subgroup, max_workgroup, max_range, max_shared, page_size,
              \*  image2d, image3d (binary logarithms), shapes]
  Levels,     \* of the plan: quick, fast, full
  Selectors   \* [families, variants, stages]; an empty set selects everything

ASSUME PlanningAssumption ==
  /\ \A dev \in Devices :
       /\ {dev.subgroup, dev.page_size} \subseteq Nat \ {0}
       /\ {dev.max_workgroup, dev.max_range, dev.max_shared, dev.image2d, dev.image3d} \subseteq Nat
  /\ Levels \subseteq {"quick", "fast", "full"}

MiB == 1048576
UpTo(b, s) == {x \in s : x <= b}

-----------------------------------------------------------------------------
(* Devices and configurations. *)

\* VkComponentTypeKHR of the operands and of the accumulator.
Component(dtype) ==
  CASE dtype = "int8" -> [ab |-> 3, acc |-> 5]
    [] dtype = "fp16" -> [ab |-> 0, acc |-> 0]
    [] OTHER          -> [ab |-> 0, acc |-> 1]

SubgroupScope == 3

\* Whether x, a shape of a device, is the compiled shape s.
IsShape(x, s) ==
  LET t == Component(s.dtype) IN
    /\ <<x.m, x.n, x.k>> = <<s.m, s.n, s.k>>
    /\ <<x.a, x.b, x.c, x.result>> = <<t.ab, t.ab, t.acc, t.acc>>
    /\ x.scope = SubgroupScope

Eligible(dev, m) == m.family = "matrix" => \E x \in dev.shapes : IsShape(x, m.shape)

\* not_compiled of matrix-coverage.json.
NotCompiled(dev) ==
  {x \in dev.shapes : x.scope = SubgroupScope /\ ~\E s \in Shapes : IsShape(x, s)}

Base(dev, m) ==
  [m |-> m, wg |-> IF m.family = "matrix" THEN dev.subgroup ELSE 64, groups |-> 256,
   n |-> IF m.family = "matrix" /\ m.feed = "shared" THEN MatrixFeedTiles ELSE 1024,
   loops |-> 128, stride |-> 1, replicas |-> 1, memory_mode |-> "device_local",
   shared_count |-> IF m.family = "shared" /\ m.kind = "bw"
                      THEN Most(1024, 64 * m.accumulators) ELSE 1024,
   subgroup |-> IF m.family = "matrix" THEN dev.subgroup ELSE 0,
   node |-> 64, order |-> "random", calibrate |-> TRUE, repeat |-> 0, role |-> "none"]

Row(tag, c) == [tag |-> tag, c |-> c]

\* wg invocations in each of groups workgroups.
Launch(dev, m, wg, groups) == [Base(dev, m) EXCEPT !.wg = wg, !.groups = groups]

\* The same over n elements, once.
Sweep(dev, m, wg, groups, n) ==
  [Launch(dev, m, wg, groups) EXCEPT !.n = n, !.loops = 1]

\* In memory of a mode.
InMode(c, mode) == [c EXCEPT !.memory_mode = mode]

Brief(level) == level \in {"quick", "fast"}

-----------------------------------------------------------------------------
(* The stages, in the order of SHORT_STAGES. *)

Validated(dev) ==
  {m \in Memory : m.width = 4 /\ (m.volatile_global => m.op = Copy)}
  \cup {m \in Alu : m.chains = 4 /\ <<m.dtype, m.width>> \in
                      {<<"fp32", 1>>, <<"fp32", 4>>, <<"fp16", 2>>}}
  \cup {m \in Shared : m.kind = "bw" /\ m.accumulators = 8 /\ <<m.dtype, m.width, m.op>> \in
           {<<"fp32", 4, 0>>, <<"fp16", 4, 0>>, <<"fp32", 4, 2>>, <<"fp16", 1, 2>>}}
  \cup {m \in Shared : m.kind = "crosslane" /\ m.dtype = "fp32" /\ m.width = 4}
  \cup {m \in Dot : m.chains = 4} \cup Latency
  \cup {m \in Ert : m.flops_per_element \in {1, 64} /\ m.elems = 4 /\ ~m.full_unroll}
  \cup {m \in Matrix : m.chains = 1 /\ Eligible(dev, m)}

Short(dev, m) ==
  [Launch(dev, m, Base(dev, m).wg, 32) EXCEPT !.loops = 32, !.calibrate = FALSE]

\* One invocation walks a chain.
ShortWalk(dev, m) == [Short(dev, m) EXCEPT !.wg = 1, !.groups = 1, !.n = 65536]

Validate(dev, level) ==
  {Row("validate", IF m.family = "latency" THEN ShortWalk(dev, m) ELSE Short(dev, m)) :
     m \in Validated(dev)}
  \cup {Row("validate", InMode(Short(dev, m), "host_coherent")) :
          m \in {x \in Memory : x.op = Copy /\ x.width = 4 /\ ~x.volatile_global}}

FirstLook(dev, level) ==
  IF level = "fast" THEN {} ELSE
    {Row("first-look", Sweep(dev, m, 64, 4096, 4 * MiB)) : m \in {x \in Memory : x.width = 4}}
    \cup {Row("first-look", Base(dev, m)) : m \in
            {x \in Alu : x.width = 4 /\ x.chains \in {4, 8}}
            \cup {x \in Shared : x.width = 4 /\ (x.kind = "bw" => x.accumulators = 8)}
            \cup {x \in Dot : x.chains = 4}}
    \cup {Row("first-look", Launch(dev, m, Base(dev, m).wg, 512)) : m \in
            {x \in Matrix : x.feed = "none" /\ x.chains \in {1, 4} /\ Eligible(dev, x)}}

\* Small working sets are read by several workgroups each.
Cached(dev, m, size, wg) ==
  LET n == size \div (4 * m.width)
      groups == Least(4096, Most(1, n \div wg))
      rep == Most(1, 256 \div groups)
  IN [Sweep(dev, m, wg, groups * rep, n) EXCEPT !.replicas = rep]

CacheReads(level) ==
  {m \in Memory : m.op = Read /\ ~m.volatile_global /\ (Brief(level) => m.width = 4)}

CacheSizes(dev) == UpTo(Least(512 * MiB, dev.max_range), {2 ^ e : e \in 12..29})

CacheStage(dev, level) ==
  {Row("sweep-cache", Cached(dev, m, size, wg)) :
     m \in CacheReads(level), size \in CacheSizes(dev),
     wg \in IF Brief(level) THEN {128} ELSE {64, 128, 256}}

\* Elements of 16 bytes of each of the arrays of a working set, a multiple of 64.
Elements(op, size) == ((size \div (ArraysPerOp[op + 1] * 16)) \div 64) * 64

MemorySizes(level) == {2 ^ e : e \in IF Brief(level) THEN 28..29 ELSE 12..29}

MemoryStage(dev, level) ==
  LET Measured == {m \in Memory : /\ m.width = 4
                                  /\ Brief(level) => ~m.volatile_global
                                  /\ level = "fast" => m.op \in {Read, Write, Copy, Triad}}
  IN {LET n == Elements(p[1].op, p[2])
      IN Row("sweep-memory", Sweep(dev, p[1], 64, Least(4096, Most(1, n \div 64)), n)) :
        p \in {q \in Measured \X MemorySizes(level) :
                 Elements(q[1].op, q[2]) * 16 <= dev.max_range}}

MatrixOutput == 256 * MiB

\* Mutant of MatrixGrid: a subgroup has 32 invocations.
GridOf32(dev, m, level) ==
  {p \in (IF Brief(level) THEN {32} ELSE {32, 128})
         \X (IF Brief(level) THEN {4096, 16384} ELSE {64, 512, 4096, 16384}) :
     p[2] * (p[1] \div 32) <= Least(MatrixOutput, dev.max_range) \div OutBytes(m)}

\* <<wg, groups>>; the output of a launch is bounded, without computing its bytes.
MatrixGrid(dev, m, level) ==
  {p \in (IF Brief(level) THEN {dev.subgroup} ELSE {dev.subgroup, 4 * dev.subgroup})
         \X (IF Brief(level) THEN {4096, 16384} ELSE {64, 512, 4096, 16384}) :
     /\ p[1] <= dev.max_workgroup
     /\ p[2] * (p[1] \div dev.subgroup) <= Least(MatrixOutput, dev.max_range) \div OutBytes(m)}

ComputeGrid(dev, m, level) ==
  IF m.family = "matrix" THEN MatrixGrid(dev, m, level)
  ELSE CASE level = "fast"  -> {128, 256} \X {2048, 8192}
         [] level = "quick" -> {<<256, 2048>>}
         [] OTHER           -> {64, 128, 256} \X {64, 512, 2048, 8192}

Compute(dev, level) ==
  UNION {{Row("sweep-compute", Launch(dev, m, p[1], p[2])) : p \in ComputeGrid(dev, m, level)} :
    m \in {x \in Alu \cup Dot \cup Matrix :
             x.family = "matrix" => /\ x.feed = "none" /\ Eligible(dev, x)
                                    /\ level = "fast" => x.chains \in {4, 8}}}

\* Mutant of FeedTiles: rounded down.
FewerTiles(dev, m) ==
  IF m.feed = "shared" THEN {MatrixFeedTiles}
  ELSE {Most(1, MiB \div TileBytes(m.shape)), (256 * MiB) \div TileBytes(m.shape)}

\* Pairs of tiles: those staged in workgroup memory, about 1 MiB, and 256 MiB or as many
\* as a buffer of the device can hold.
FeedTiles(dev, m) ==
  LET s == m.shape
      largest == dev.max_range \div (Most(s.m * s.k, s.k * s.n) * Operand(s))
  IN IF m.feed = "shared" THEN {MatrixFeedTiles}
     ELSE {Most(1, MiB \div TileBytes(s)),
           Least(largest, (256 * MiB + TileBytes(s) - 1) \div TileBytes(s))}

Feed(dev, m, wg, groups, tiles) == [Launch(dev, m, wg, groups) EXCEPT !.n = tiles]

MatrixFeed(dev, level) ==
  UNION {{Row("sweep-matrix-feed", Feed(dev, m, p[1], p[2], tiles)) :
            tiles \in FeedTiles(dev, m),
            p \in {q \in MatrixGrid(dev, m, level) :
                     q[2] >= IF level = "fast" THEN 16384 ELSE 4096}} :
    m \in {x \in Matrix : x.feed # "none" /\ Eligible(dev, x)}}

TextureStage(dev, level) ==
  {Row("sweep-texture", Sweep(dev, p[1], wg, 4096, p[2] \div Texel(p[1].format))) :
     p \in {q \in Texture \X {MiB, 256 * MiB} : q[1].tex_dim = 0 => q[2] <= dev.max_range},
     wg \in IF Brief(level) THEN {256} ELSE {64, 256}}

Strides(level) == IF level = "fast" THEN {1, 32, 33} ELSE {1, 2, 4, 8, 16, 32, 33, 64, 65}

\* <<wg, bytes, stride>>
SharedPoints(dev, level) ==
  {<<64, dev.max_shared, st>> : st \in Strides(level)}
  \cup {64, 128, 256} \X {4096, dev.max_shared} \X {1}
  \cup IF Brief(level) THEN {}
       ELSE ({32, 64, 128, 256} \X {4096} \X {1})
            \cup ({64} \X {1024, 2048, 4096, 8192, 16384, dev.max_shared} \X {1})

SharedMeasured(level) ==
  {m \in Shared :
     /\ Brief(level) => m.kind = "bw"
     /\ level = "fast" => m.width \in {2, 4} /\ m.accumulators \in {8, 32}
     /\ level = "quick" => m.width = 4 /\ m.accumulators = 8}

\* No two stores to one slot, and room for every accumulator.
Distinct(m, wg, count, stride) ==
  /\ m.op # 0 => wg * stride <= count
  /\ m.kind = "bw" => count >= wg * m.accumulators /\ (m.op = 2 => stride = 1)

Count(m, bytes) == bytes \div (m.width * Scalar(m.dtype))

Slots(dev, m, wg, count, stride) ==
  [Launch(dev, m, wg, 256) EXCEPT !.shared_count = count, !.stride = stride]

SharedStage(dev, level) ==
  UNION {{Row("sweep-shared", Slots(dev, m, p[1], Count(m, p[2]), p[3])) :
            p \in {q \in SharedPoints(dev, level) : Distinct(m, q[1], Count(m, q[2]), q[3])}} :
    m \in SharedMeasured(level)}

\* Mutant of Passes: half of the loops are half of the chain.
OnePass == 1

\* Two passes of a dispatch over the chain, so that half of its loops are a warm one.
Passes == 2
LoadsPerLoop == 16
MaxLoops == 65536

ChaseLoops(nodes, min) ==
  Most(min, Least((Passes * nodes + LoadsPerLoop - 1) \div LoadsPerLoop, MaxLoops))

Chase(dev, size, stride, order, min) ==
  [Sweep(dev, CHOOSE m \in Latency : TRUE, 1, 1, size \div 4) EXCEPT
     !.loops = ChaseLoops(size \div stride, min), !.node = stride, !.order = order,
     !.calibrate = FALSE]

ChaseSizes(level) ==
  IF Brief(level) THEN {2 ^ e : e \in {x \in 10..28 : x % 2 = 0}}
  ELSE {2 ^ e : e \in 10..28} \cup {3 * 2 ^ (e - 1) : e \in 10..28}

LatencyStage(dev, level) ==
  LET limit == Least(256 * MiB, dev.max_range)
  IN {Row("latency-capacity", Chase(dev, size, 64, "random", 4096)) :
        size \in UpTo(limit, ChaseSizes(level))}
     \cup IF Brief(level) THEN {} ELSE
       {Row("latency-tlb", Chase(dev, size, dev.page_size, "random", 4096)) :
          size \in {2 ^ e : e \in {x \in 16..28 : 2 ^ x <= limit /\ 2 ^ x \div dev.page_size >= 2}}}
       \cup {Row("latency-stride", Chase(dev, size, stride, "sequential", 2)) :
               size \in {MiB, 64 * MiB}, stride \in {2 ^ e : e \in 2..10}}

ErtStage(dev, level) ==
  IF level = "fast" THEN {} ELSE
    {Row("ert", Sweep(dev, m, wg, 4096, 8 * MiB)) :
       m \in Ert, wg \in IF Brief(level) THEN {256} ELSE {64, 256}}

Repetition(dev, m, mode, rep) ==
  [InMode(Sweep(dev, m, 64, 4096, Elements(m.op, 256 * MiB)), mode) EXCEPT !.repeat = rep]

MemoryType(dev, level) ==
  IF level = "fast" THEN {} ELSE
    {Row("control-memory-type", Repetition(dev, m, mode, rep)) :
       m \in {x \in Memory : /\ x.width = 4 /\ ~x.volatile_global
                             /\ x.op \in {Read, Write, Copy, Triad}},
       mode \in {"device_local", "host_coherent"},
       rep \in IF level = "quick" THEN {0} ELSE 0..2}

ShortStages == <<"validate", "first_look", "cache", "memory", "compute", "matrix_feed",
                 "texture", "shared", "latency", "ert", "memory_type">>

Rows(stage, dev, level) ==
  CASE stage = "validate"    -> Validate(dev, level)
    [] stage = "first_look"  -> FirstLook(dev, level)
    [] stage = "cache"       -> CacheStage(dev, level)
    [] stage = "memory"      -> MemoryStage(dev, level)
    [] stage = "compute"     -> Compute(dev, level)
    [] stage = "matrix_feed" -> MatrixFeed(dev, level)
    [] stage = "texture"     -> TextureStage(dev, level)
    [] stage = "shared"      -> SharedStage(dev, level)
    [] stage = "latency"     -> LatencyStage(dev, level)
    [] stage = "ert"         -> ErtStage(dev, level)
    [] stage = "memory_type" -> MemoryType(dev, level)
=============================================================================
