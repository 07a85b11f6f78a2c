---------------------------- MODULE Launches_proofs ----------------------------
(***************************************************************************)
(* The launches of a run: which ones are planned, and how long each of     *)
(* them is made.                                                           *)
(*                                                                         *)
(* For any devices, levels and selectors: a row of a plan is what its      *)
(* stage builds (Sound, Belongs), whatever was selected of it.  So its     *)
(* rate is conservative, its walk warm, the two readers of its result      *)
(* agree, a replay of it measures the same, a device with room has the     *)
(* runner accept it, and a whole plan has an accepted one for every roof.  *)
(*                                                                         *)
(* For any clock, target, limit and starting workload: calibration stays   *)
(* within its bounds, never returns to a workload it has rejected, turns   *)
(* twice at most, and what it accepts was reached.                         *)
(***************************************************************************)
EXTENDS Selection, Calibration, TLAPS

-----------------------------------------------------------------------------
(* The catalogue. *)

\* A variant of the manifest is one of its family.
LEMMA FamilyNames ==
  /\ \A m \in Memory : m.family = "memory"
  /\ \A m \in Alu : m.family = "alu"
  /\ \A m \in Shared : m.family = "shared"
  /\ \A m \in Dot : m.family = "dot"
  /\ \A m \in Latency : m.family = "latency"
  /\ \A m \in Texture : m.family = "texture"
  /\ \A m \in Ert : m.family = "ert"
  /\ \A m \in Matrix : m.family = "matrix"
<1>1. \A m \in Memory : m.family = "memory"
  BY DEF Memory
<1>2. \A m \in Alu : m.family = "alu"
  BY DEF Alu
<1>3. \A m \in Shared : m.family = "shared"
  BY DEF Shared, SharedOf
<1>4. \A m \in Dot : m.family = "dot"
  BY DEF Dot
<1>5. \A m \in Latency : m.family = "latency"
  BY DEF Latency
<1>6. \A m \in Texture : m.family = "texture"
  BY DEF Texture
<1>7. \A m \in Ert : m.family = "ert"
  BY DEF Ert, ErtOf
<1>8. \A m \in Matrix : m.family = "matrix"
  BY DEF Matrix
<1> QED BY <1>1, <1>2, <1>3, <1>4, <1>5, <1>6, <1>7, <1>8

\* The family of a variant says which set it is of.
LEMMA Family ==
  ASSUME NEW m \in Manifest
  PROVE  /\ m.family = "memory" <=> m \in Memory
         /\ m.family = "alu" <=> m \in Alu
         /\ m.family = "shared" <=> m \in Shared
         /\ m.family = "dot" <=> m \in Dot
         /\ m.family = "latency" <=> m \in Latency
         /\ m.family = "texture" <=> m \in Texture
         /\ m.family = "ert" <=> m \in Ert
         /\ m.family = "matrix" <=> m \in Matrix
         /\ m.family \in {"memory", "alu", "shared", "dot", "latency", "texture", "ert", "matrix"}
  BY FamilyNames DEF Manifest

\* The fields of a memory variant.
LEMMA MemoryFields ==
  ASSUME NEW m \in Memory
  PROVE  /\ m.op \in 0..6 /\ m.width \in {1, 2, 4} /\ m.dtype = "fp32"
         /\ m.volatile_global \in BOOLEAN
<1>1. CASE m \in [family : {"memory"}, op : Read..DotOp, width : Widths, dtype : {"fp32"},
                   volatile_global : {FALSE}]
  <2>1. m.volatile_global = FALSE
    BY Zenon, <1>1
  <2>2. m.op \in 0..6 /\ m.width \in {1, 2, 4} /\ m.dtype = "fp32"
    BY <1>1 DEF Widths, Read, DotOp
  <2> QED BY Zenon, <2>1, <2>2
<1>2. CASE m \in [family : {"memory"}, op : Read..Triad, width : {4}, dtype : {"fp32"},
                   volatile_global : {TRUE}]
  <2>1. m.volatile_global = TRUE
    BY Zenon, <1>2
  <2>2. m.op \in 0..6 /\ m.width \in {1, 2, 4} /\ m.dtype = "fp32"
    BY <1>2 DEF Read, Triad
  <2> QED BY Zenon, <2>1, <2>2
<1> QED BY <1>1, <1>2 DEF Memory
\* Those of a shared one: bandwidth or crosslane.
LEMMA SharedFields ==
  ASSUME NEW m \in Shared
  PROVE  /\ m.width \in {1, 2, 4} /\ m.dtype \in {"fp32", "fp16"}
         /\ \/ m.kind = "bw" /\ m.op \in {0, 2} /\ m.accumulators \in {4, 8, 16, 32}
            \/ m.kind = "crosslane" /\ m.op \in {0, 1} /\ m.accumulators = 1
  BY DEF Shared, SharedOf, Widths, Floats
\* Those of an arithmetic one.
LEMMA AluFields ==
  ASSUME NEW m \in Alu
  PROVE  m.chains \in {1, 2, 4, 8, 16} /\ m.dtype \in {"fp32", "fp16"} /\ m.width \in {1, 2, 4}
  BY DEF Alu, Widths, Floats
\* Those of a dot product.
LEMMA DotFields ==
  ASSUME NEW m \in Dot
  PROVE  m.chains \in {1, 2, 4, 8} /\ m.dots_per_step = 8 /\ m.dtype = "int8" /\ m.width = 1
  BY DEF Dot
\* Those of a texture.
LEMMA TextureFields ==
  ASSUME NEW m \in Texture
  PROVE  m.format \in {"rgba16f", "rgba32f"} /\ m.tex_dim \in {0, 2, 3} /\ m.width = 4
  BY DEF Texture
\* Those of the roofline toolkit's kernel.
LEMMA ErtFields ==
  ASSUME NEW m \in Ert
  PROVE  /\ m.flops_per_element \in Flops /\ m.elems \in {4, 8, 16} /\ m.full_unroll \in BOOLEAN
  BY DEF Ert, ErtOf
\* Those of a matrix variant.
LEMMA MatrixFields ==
  ASSUME NEW m \in Matrix
  PROVE  /\ m.shape \in Shapes /\ m.chains \in {1, 2, 4, 8} /\ m.feed \in {"none", "shared", "global"}
  BY DEF Matrix
\* The numbers of a shape.
LEMMA ShapeFields ==
  ASSUME NEW s \in Shapes
  PROVE  /\ s.m \in {4, 8, 16, 64} /\ s.n \in {8, 16, 32, 64} /\ s.k \in {8, 16, 32}
         /\ s.dtype \in {"fp16", "fp16_fp32", "int8"}
  BY DEF Shapes, Shape

-----------------------------------------------------------------------------
(* Configurations. *)

Configuration ==
  [m : Manifest, wg : Nat \ {0}, groups : Nat \ {0}, n : Nat, loops : Nat \ {0},
   stride : Nat, replicas : Nat \ {0}, memory_mode : {"device_local", "host_coherent"},
   shared_count : Nat, subgroup : Nat, node : Nat \ {0}, order : {"random", "sequential"},
   calibrate : BOOLEAN, repeat : 0..2, role : {"none", "cache"}]

\* Configurations with equal fields are equal.
LEMMA SameConfiguration ==
  ASSUME NEW a \in Configuration, NEW b \in Configuration,
         a.m = b.m, a.wg = b.wg, a.groups = b.groups, a.n = b.n, a.loops = b.loops,
         a.stride = b.stride, a.replicas = b.replicas, a.memory_mode = b.memory_mode,
         a.shared_count = b.shared_count, a.subgroup = b.subgroup, a.node = b.node,
         a.order = b.order, a.calibrate = b.calibrate, a.repeat = b.repeat, a.role = b.role
  PROVE  a = b
  BY DEF Configuration

\* The fields that most rows set, and those that come from the device and the variant.
Common(dev, c, m, wg, groups, n, trips, replicas) ==
  /\ c \in Configuration
  /\ c.m = m /\ c.wg = wg /\ c.groups = groups /\ c.n = n /\ c.loops = trips
  /\ c.replicas = replicas
  /\ c.subgroup = (IF m.family = "matrix" THEN dev.subgroup ELSE 0) /\ c.role = "none"

Usual(c) == c.calibrate = TRUE /\ c.repeat = 0 /\ c.memory_mode = "device_local"

BaseCount(m) ==
  IF m.family = "shared" /\ m.kind = "bw" THEN Most(1024, 64 * m.accumulators) ELSE 1024
BaseN(m) == IF m.family = "matrix" /\ m.feed = "shared" THEN 4 ELSE 1024
BaseWg(dev, m) == IF m.family = "matrix" THEN dev.subgroup ELSE 64

\* What the stages set keeps the type of a configuration.
LEMMA SetLoopsPlain ==
    ASSUME NEW b \in Configuration, NEW trips \in Nat \ {0}, NEW cal \in BOOLEAN
    PROVE  [b EXCEPT !.loops = trips, !.calibrate = cal] \in Configuration
  BY Zenon DEF Configuration

\* What EXCEPT leaves a configuration: one lemma for each set of fields that a stage changes.
LEMMA SetLaunch ==
    ASSUME NEW b \in Configuration, NEW wg \in Nat \ {0}, NEW groups \in Nat \ {0}, NEW n
         \in Nat
    PROVE  [b EXCEPT !.wg = wg, !.groups = groups, !.n = n] \in Configuration
  BY Zenon DEF Configuration

\* Likewise the launch alone,
LEMMA SetWorkgroups ==
  ASSUME NEW b \in Configuration, NEW wg \in Nat \ {0}, NEW groups \in Nat \ {0}
  PROVE  [b EXCEPT !.wg = wg, !.groups = groups] \in Configuration
  BY Zenon DEF Configuration

\* the kind of memory,
LEMMA SetMode ==
    ASSUME NEW b \in Configuration, NEW mode \in {"device_local", "host_coherent"}
    PROVE  [b EXCEPT !.memory_mode = mode] \in Configuration
  BY Zenon DEF Configuration

\* the elements and loops,
LEMMA SetSize ==
    ASSUME NEW b \in Configuration, NEW n \in Nat, NEW trips \in Nat \ {0}
    PROVE  [b EXCEPT !.n = n, !.loops = trips] \in Configuration
  BY Zenon DEF Configuration

\* the workgroups,
LEMMA SetGroups ==
    ASSUME NEW b \in Configuration, NEW groups \in Nat \ {0}
    PROVE  [b EXCEPT !.groups = groups] \in Configuration
  BY Zenon DEF Configuration

\* the replicas of the data,
LEMMA SetReplicas ==
    ASSUME NEW b \in Configuration, NEW rep \in Nat \ {0}
    PROVE  [b EXCEPT !.replicas = rep] \in Configuration
  BY Zenon DEF Configuration

\* the elements,
LEMMA SetN ==
    ASSUME NEW b \in Configuration, NEW n \in Nat
    PROVE  [b EXCEPT !.n = n] \in Configuration
  BY Zenon DEF Configuration

\* the slots of shared memory and their stride,
LEMMA SetShared ==
    ASSUME NEW b \in Configuration, NEW count \in Nat, NEW stride \in Nat
    PROVE  [b EXCEPT !.shared_count = count, !.stride = stride] \in Configuration
  BY Zenon DEF Configuration

\* the walk of a chain,
LEMMA SetChase ==
    ASSUME NEW b \in Configuration, NEW trips \in Nat \ {0}, NEW node \in Nat \ {0}, NEW
         order \in {"random", "sequential"}, NEW cal \in BOOLEAN
    PROVE  [b EXCEPT !.loops = trips, !.node = node, !.order = order, !.calibrate = cal] \in
                    Configuration
  BY Zenon DEF Configuration

\* a repetition in another kind of memory,
LEMMA SetRepeat ==
    ASSUME NEW b \in Configuration, NEW mode \in {"device_local", "host_coherent"}, NEW rep
         \in 0..2
    PROVE  [b EXCEPT !.memory_mode = mode, !.repeat = rep] \in Configuration
  BY Zenon DEF Configuration

\* the role of an exported configuration,
LEMMA SetRole ==
    ASSUME NEW b \in Configuration, NEW role \in {"none", "cache"}
    PROVE  [b EXCEPT !.role = role] \in Configuration
  BY Zenon DEF Configuration

\* and all that a replay takes from one.
LEMMA SetParameters ==
    ASSUME NEW b \in Configuration, NEW wg \in Nat \ {0}, NEW groups \in Nat \ {0}, NEW n
         \in Nat, NEW trips \in Nat \ {0}, NEW stride \in Nat, NEW rep \in Nat \ {0}, NEW
         mode \in {"device_local", "host_coherent"}, NEW node \in Nat \ {0}, NEW order \in
         {"random", "sequential"}, NEW role \in {"none", "cache"}, NEW count \in Nat
    PROVE  [b EXCEPT !.wg = wg, !.groups = groups, !.n = n, !.loops = trips, !.stride =
                    stride, !.replicas = rep, !.memory_mode = mode, !.node = node, !.order =
                    order, !.role = role, !.shared_count = count] \in Configuration
  BY Zenon DEF Configuration

\* There is a slot of shared memory.
LEMMA BaseCountType ==
  ASSUME NEW m \in Manifest
  PROVE  BaseCount(m) \in Nat \ {0}
<1>1. CASE m.family = "shared" /\ m.kind = "bw"
  <2>1. m \in Shared
    BY <1>1, Family
  <2>2. m.accumulators \in {4, 8, 16, 32}
    BY <1>1, <2>1, SharedFields
  <2> QED BY <1>1, <2>2 DEF BaseCount, Most
<1>2. CASE ~(m.family = "shared" /\ m.kind = "bw")
  BY <1>2 DEF BaseCount
<1> QED BY <1>1, <1>2

\* base(): the configuration that every stage starts from.
LEMMA BaseFields ==
  ASSUME NEW dev \in Devices, NEW m \in Manifest
  PROVE  LET c == Base(dev, m) IN
         /\ Common(dev, c, m, BaseWg(dev, m), 256, BaseN(m), 128, 1) /\ Usual(c)
         /\ c.stride = 1 /\ c.shared_count = BaseCount(m) /\ c.node = 64
<1> DEFINE c == Base(dev, m)
<1>1. dev.subgroup \in Nat \ {0}
  BY PlanningAssumption
<1>2. BaseCount(m) \in Nat
  BY BaseCountType
<1>3. c \in Configuration
  BY <1>1, <1>2 DEF Base, Configuration, MatrixFeedTiles, BaseCount
<1>4. Common(dev, c, m, BaseWg(dev, m), 256, BaseN(m), 128, 1)
  <2>1. /\ c.m = m /\ c.wg = BaseWg(dev, m) /\ c.groups = 256 /\ c.n = BaseN(m) /\ c.loops = 128
        /\ c.replicas = 1
        /\ c.subgroup = (IF m.family = "matrix" THEN dev.subgroup ELSE 0) /\ c.role = "none"
    BY DEF Base, BaseWg, BaseN, MatrixFeedTiles
  <2> HIDE DEF c
  <2> QED BY <1>3, <2>1 DEF Common
<1>5. Usual(c) /\ c.stride = 1 /\ c.shared_count = BaseCount(m) /\ c.node = 64
  BY DEF Base, Usual, BaseCount
<1> QED BY <1>4, <1>5

\* The same with a grid.
LEMMA LaunchFields ==
  ASSUME NEW dev \in Devices, NEW m \in Manifest, NEW wg \in Nat \ {0}, NEW groups \in Nat \ {0}
  PROVE  LET c == Launch(dev, m, wg, groups) IN
         /\ Common(dev, c, m, wg, groups, BaseN(m), 128, 1) /\ Usual(c)
         /\ c.stride = 1 /\ c.shared_count = BaseCount(m) /\ c.node = 64
<1> DEFINE b == Base(dev, m)
           c == [b EXCEPT !.wg = wg, !.groups = groups]
<1>1. /\ Common(dev, b, m, BaseWg(dev, m), 256, BaseN(m), 128, 1) /\ Usual(b)
      /\ b.stride = 1 /\ b.shared_count = BaseCount(m) /\ b.node = 64
  BY BaseFields
<1> HIDE DEF b
<1>2. b \in Configuration
  BY <1>1 DEF Common
<1>3. c \in Configuration
  BY Zenon, <1>2, SetWorkgroups
<1>4. /\ c.m = b.m /\ c.wg = wg /\ c.groups = groups /\ c.n = b.n /\ c.loops = b.loops
      /\ c.replicas = b.replicas /\ c.subgroup = b.subgroup /\ c.role = b.role
      /\ c.calibrate = b.calibrate /\ c.repeat = b.repeat /\ c.memory_mode = b.memory_mode
      /\ c.stride = b.stride /\ c.shared_count = b.shared_count /\ c.node = b.node
  BY <1>2 DEF Configuration
<1> HIDE DEF c
<1>5. /\ Common(dev, c, m, wg, groups, BaseN(m), 128, 1) /\ Usual(c)
      /\ c.stride = 1 /\ c.shared_count = BaseCount(m) /\ c.node = 64
  BY <1>1, <1>3, <1>4 DEF Common, Usual
<1> QED BY <1>5 DEF Launch, c, b

Plain(m, c) == c.stride = 1 /\ c.shared_count = BaseCount(m) /\ c.node = 64

\* One pass over n elements.
LEMMA SweepFields ==
  ASSUME NEW dev \in Devices, NEW m \in Manifest, NEW wg \in Nat \ {0}, NEW groups \in Nat \ {0},
         NEW n \in Nat
  PROVE  LET c == Sweep(dev, m, wg, groups, n) IN
         Common(dev, c, m, wg, groups, n, 1, 1) /\ Usual(c) /\ Plain(m, c)
<1> DEFINE b == Launch(dev, m, wg, groups)
           c == [b EXCEPT !.n = n, !.loops = 1]
<1>1. Common(dev, b, m, wg, groups, BaseN(m), 128, 1) /\ Usual(b) /\ Plain(m, b)
  BY LaunchFields DEF Plain
<1> HIDE DEF b
<1>0. 1 \in Nat \ {0}
  OBVIOUS
<1>2. b \in Configuration
  BY <1>1 DEF Common
<1>3. c \in Configuration
  BY <1>0, <1>2, SetSize
<1>4. /\ c.m = b.m /\ c.wg = b.wg /\ c.groups = b.groups /\ c.n = n /\ c.loops = 1
      /\ c.replicas = b.replicas /\ c.subgroup = b.subgroup /\ c.role = b.role
      /\ c.calibrate = b.calibrate /\ c.repeat = b.repeat /\ c.memory_mode = b.memory_mode
      /\ c.stride = b.stride /\ c.shared_count = b.shared_count /\ c.node = b.node
  BY <1>2 DEF Configuration
<1> HIDE DEF c
<1>5. Common(dev, c, m, wg, groups, n, 1, 1) /\ Usual(c) /\ Plain(m, c)
  BY <1>1, <1>3, <1>4 DEF Common, Usual, Plain
<1> QED BY <1>5 DEF Sweep, c, b

\* Another kind of memory leaves the rest.
LEMMA ModeFields ==
  ASSUME NEW b \in Configuration, NEW mode \in {"device_local", "host_coherent"}
  PROVE  LET c == InMode(b, mode) IN
         /\ c \in Configuration
         /\ c.m = b.m /\ c.wg = b.wg /\ c.groups = b.groups /\ c.n = b.n /\ c.loops = b.loops
         /\ c.replicas = b.replicas /\ c.subgroup = b.subgroup /\ c.role = b.role
         /\ c.calibrate = b.calibrate /\ c.repeat = b.repeat /\ c.memory_mode = mode
         /\ c.stride = b.stride /\ c.shared_count = b.shared_count /\ c.node = b.node
<1> DEFINE c == [b EXCEPT !.memory_mode = mode]
<1>1. c \in Configuration
  BY SetMode
<1>2. /\ c.m = b.m /\ c.wg = b.wg /\ c.groups = b.groups /\ c.n = b.n /\ c.loops = b.loops
      /\ c.replicas = b.replicas /\ c.subgroup = b.subgroup /\ c.role = b.role
      /\ c.calibrate = b.calibrate /\ c.repeat = b.repeat /\ c.memory_mode = mode
      /\ c.stride = b.stride /\ c.shared_count = b.shared_count /\ c.node = b.node
  BY DEF Configuration
<1> HIDE DEF c
<1>3. InMode(b, mode) = c
  BY DEF InMode, c
<1> QED BY <1>1, <1>2, <1>3

\* The short runs of validate,
LEMMA ShortFields ==
  ASSUME NEW dev \in Devices, NEW m \in Manifest
  PROVE  LET c == Short(dev, m) IN
         /\ Common(dev, c, m, BaseWg(dev, m), 32, BaseN(m), 32, 1) /\ Plain(m, c)
         /\ c.memory_mode = "device_local"
<1>0. 32 \in Nat \ {0} /\ FALSE \in BOOLEAN /\ dev.subgroup \in Nat \ {0}
  BY PlanningAssumption
<1>1. Base(dev, m).wg = BaseWg(dev, m) /\ BaseWg(dev, m) \in Nat \ {0}
  BY <1>0, BaseFields DEF Common, BaseWg
<1> DEFINE b == Launch(dev, m, Base(dev, m).wg, 32)
           c == [b EXCEPT !.loops = 32, !.calibrate = FALSE]
<1>2. Common(dev, b, m, BaseWg(dev, m), 32, BaseN(m), 128, 1) /\ Usual(b) /\ Plain(m, b)
  BY <1>1, <1>0, LaunchFields DEF Plain
<1> HIDE DEF b
<1>3. b \in Configuration
  BY <1>2 DEF Common
<1>4. c \in Configuration
  BY <1>3, <1>0, SetLoopsPlain
<1>5. /\ c.m = b.m /\ c.wg = b.wg /\ c.groups = b.groups /\ c.n = b.n /\ c.loops = 32
      /\ c.replicas = b.replicas /\ c.subgroup = b.subgroup /\ c.role = b.role
      /\ c.stride = b.stride /\ c.shared_count = b.shared_count /\ c.node = b.node
      /\ c.memory_mode = b.memory_mode
  BY <1>3 DEF Configuration
<1> HIDE DEF c
<1>6. Common(dev, c, m, BaseWg(dev, m), 32, BaseN(m), 32, 1) /\ Plain(m, c)
      /\ c.memory_mode = "device_local"
  BY <1>2, <1>4, <1>5 DEF Common, Plain, Usual
<1> QED BY <1>6 DEF c, b, Short

\* its short walk,
LEMMA ShortWalkFields ==
  ASSUME NEW dev \in Devices, NEW m \in Manifest
  PROVE  LET c == ShortWalk(dev, m) IN
         /\ Common(dev, c, m, 1, 1, 65536, 32, 1) /\ Plain(m, c)
         /\ c.memory_mode = "device_local"
<1> DEFINE b == Short(dev, m)
           nodes == 65536
           c == [b EXCEPT !.wg = 1, !.groups = 1, !.n = nodes]
<1>1. Common(dev, b, m, BaseWg(dev, m), 32, BaseN(m), 32, 1) /\ Plain(m, b)
      /\ b.memory_mode = "device_local"
  BY ShortFields
<1> HIDE DEF b
<1>2. b \in Configuration
  BY <1>1 DEF Common
<1>3. 1 \in Nat \ {0} /\ nodes \in Nat
  OBVIOUS
<1> HIDE DEF nodes
<1>4. c \in Configuration
  BY Zenon, <1>2, <1>3, SetLaunch
<1>5. /\ c.m = b.m /\ c.wg = 1 /\ c.groups = 1 /\ c.n = nodes /\ c.loops = b.loops
      /\ c.replicas = b.replicas /\ c.subgroup = b.subgroup /\ c.role = b.role
      /\ c.stride = b.stride /\ c.shared_count = b.shared_count /\ c.node = b.node
      /\ c.memory_mode = b.memory_mode
  BY <1>2 DEF Configuration
<1> HIDE DEF c
<1>6. Common(dev, c, m, 1, 1, nodes, 32, 1) /\ Plain(m, c) /\ c.memory_mode = "device_local"
  BY <1>1, <1>4, <1>5 DEF Common, Plain
<1> QED BY <1>6 DEF c, b, nodes, ShortWalk

\* and its runs in host-coherent memory.
LEMMA HostFields ==
  ASSUME NEW dev \in Devices, NEW m \in Manifest
  PROVE  LET c == InMode(Short(dev, m), "host_coherent") IN
         /\ Common(dev, c, m, BaseWg(dev, m), 32, BaseN(m), 32, 1) /\ Plain(m, c)
<1> DEFINE b == Short(dev, m)
<1>1. Common(dev, b, m, BaseWg(dev, m), 32, BaseN(m), 32, 1) /\ Plain(m, b)
  BY ShortFields
<1> HIDE DEF b
<1>2. b \in Configuration /\ "host_coherent" \in {"device_local", "host_coherent"}
  BY <1>1 DEF Common
<1> DEFINE c == InMode(b, "host_coherent")
<1>3. /\ c \in Configuration
      /\ c.m = b.m /\ c.wg = b.wg /\ c.groups = b.groups /\ c.n = b.n /\ c.loops = b.loops
      /\ c.replicas = b.replicas /\ c.subgroup = b.subgroup /\ c.role = b.role
      /\ c.stride = b.stride /\ c.shared_count = b.shared_count /\ c.node = b.node
  BY <1>2, ModeFields
<1> HIDE DEF c
<1>4. Common(dev, c, m, BaseWg(dev, m), 32, BaseN(m), 32, 1) /\ Plain(m, c)
  BY <1>1, <1>3 DEF Common, Plain
<1> QED BY <1>4 DEF b, c

\* A repetition of the control of memory types.
LEMMA RepetitionFields ==
  ASSUME NEW dev \in Devices, NEW m \in Memory, Elements(m.op, 256 * MiB) \in Nat,
         NEW mode \in {"device_local", "host_coherent"}, NEW rep \in 0..2
  PROVE  LET c == Repetition(dev, m, mode, rep) IN
         /\ Common(dev, c, m, 64, 4096, Elements(m.op, 256 * MiB), 1, 1) /\ Plain(m, c)
         /\ c.memory_mode = mode
<1>0. m \in Manifest /\ 64 \in Nat \ {0} /\ 4096 \in Nat \ {0}
  BY DEF Manifest
<1> DEFINE n == Elements(m.op, 256 * MiB)
           a == Sweep(dev, m, 64, 4096, n)
           b == InMode(a, mode)
           c == [b EXCEPT !.repeat = rep]
<1> HIDE DEF n
<1>1. Common(dev, a, m, 64, 4096, n, 1, 1) /\ Plain(m, a)
  BY <1>0, SweepFields DEF n
<1> HIDE DEF a
<1>2. a \in Configuration
  BY <1>1 DEF Common
<1>3. /\ b \in Configuration
      /\ b.m = a.m /\ b.wg = a.wg /\ b.groups = a.groups /\ b.n = a.n /\ b.loops = a.loops
      /\ b.replicas = a.replicas /\ b.subgroup = a.subgroup /\ b.role = a.role
      /\ b.stride = a.stride /\ b.shared_count = a.shared_count /\ b.node = a.node
      /\ b.memory_mode = mode
  BY <1>2, ModeFields
<1> HIDE DEF b
<1>4. c \in Configuration
  BY Zenon, <1>3 DEF Configuration
<1>5. /\ c.m = b.m /\ c.wg = b.wg /\ c.groups = b.groups /\ c.n = b.n /\ c.loops = b.loops
      /\ c.replicas = b.replicas /\ c.subgroup = b.subgroup /\ c.role = b.role
      /\ c.stride = b.stride /\ c.shared_count = b.shared_count /\ c.node = b.node
      /\ c.memory_mode = b.memory_mode
  BY <1>3 DEF Configuration
<1> HIDE DEF c
<1>6. Common(dev, c, m, 64, 4096, n, 1, 1) /\ Plain(m, c) /\ c.memory_mode = mode
  BY <1>1, <1>3, <1>4, <1>5 DEF Common, Plain
<1> QED BY <1>6 DEF c, b, a, n, Repetition

\* A matrix kernel on tiles.
LEMMA FeedFields ==
  ASSUME NEW dev \in Devices, NEW m \in Manifest, NEW wg \in Nat \ {0}, NEW groups \in Nat \ {0},
         NEW tiles \in Nat
  PROVE  LET c == Feed(dev, m, wg, groups, tiles) IN
         Common(dev, c, m, wg, groups, tiles, 128, 1) /\ Usual(c) /\ Plain(m, c)
<1> DEFINE b == Launch(dev, m, wg, groups)
           c == [b EXCEPT !.n = tiles]
<1>1. Common(dev, b, m, wg, groups, BaseN(m), 128, 1) /\ Usual(b) /\ Plain(m, b)
  BY LaunchFields DEF Plain
<1> HIDE DEF b
<1>2. b \in Configuration
  BY <1>1 DEF Common
<1>3. c \in Configuration
  BY <1>2, SetN
<1>4. /\ c.m = b.m /\ c.wg = b.wg /\ c.groups = b.groups /\ c.n = tiles /\ c.loops = b.loops
      /\ c.replicas = b.replicas /\ c.subgroup = b.subgroup /\ c.role = b.role
      /\ c.calibrate = b.calibrate /\ c.repeat = b.repeat /\ c.memory_mode = b.memory_mode
      /\ c.stride = b.stride /\ c.shared_count = b.shared_count /\ c.node = b.node
  BY <1>2 DEF Configuration
<1> HIDE DEF c
<1>5. Common(dev, c, m, wg, groups, tiles, 128, 1) /\ Usual(c) /\ Plain(m, c)
  BY <1>1, <1>3, <1>4 DEF Common, Usual, Plain
<1> QED BY <1>5 DEF Feed, c, b

\* A kernel on slots of shared memory.
LEMMA SlotsFields ==
  ASSUME NEW dev \in Devices, NEW m \in Manifest, NEW wg \in Nat \ {0}, NEW count \in Nat,
         NEW stride \in Nat
  PROVE  LET c == Slots(dev, m, wg, count, stride) IN
         /\ Common(dev, c, m, wg, 256, BaseN(m), 128, 1) /\ Usual(c)
         /\ c.shared_count = count /\ c.stride = stride
<1>0. 256 \in Nat \ {0}
  OBVIOUS
<1> DEFINE b == Launch(dev, m, wg, 256)
           c == [b EXCEPT !.shared_count = count, !.stride = stride]
<1>1. Common(dev, b, m, wg, 256, BaseN(m), 128, 1) /\ Usual(b)
  BY <1>0, LaunchFields
<1> HIDE DEF b
<1>2. b \in Configuration
  BY <1>1 DEF Common
<1>3. c \in Configuration
  BY <1>2, SetShared
<1>4. /\ c.m = b.m /\ c.wg = b.wg /\ c.groups = b.groups /\ c.n = b.n /\ c.loops = b.loops
      /\ c.replicas = b.replicas /\ c.subgroup = b.subgroup /\ c.role = b.role
      /\ c.calibrate = b.calibrate /\ c.repeat = b.repeat /\ c.memory_mode = b.memory_mode
      /\ c.stride = stride /\ c.shared_count = count
  BY <1>2 DEF Configuration
<1> HIDE DEF c
<1>5. /\ Common(dev, c, m, wg, 256, BaseN(m), 128, 1) /\ Usual(c)
      /\ c.shared_count = count /\ c.stride = stride
  BY <1>1, <1>3, <1>4 DEF Common, Usual
<1> QED BY <1>5 DEF Slots, c, b

TheWalk == CHOOSE m \in Latency : TRUE

\* The variant that walks is one of the catalogue.
LEMMA WalkIsLatency == TheWalk \in Latency /\ TheWalk \in Manifest
<1>1. \E m \in Latency : TRUE
  BY DEF Latency
<1> QED BY <1>1 DEF TheWalk, Manifest

-----------------------------------------------------------------------------
(* Powers of two. *)

\* Every power that fits into an integer of the runner.
PowersOfTwo ==
  {1, 2, 4, 8, 16, 32, 64, 128,
   256, 512, 1024, 2048, 4096, 8192, 16384, 32768,
   65536, 131072, 262144, 524288, 1048576, 2097152, 4194304, 8388608,
   16777216, 33554432, 67108864, 134217728, 268435456, 536870912, 1073741824}

\* A multiple of 1 KiB, of 64 KiB.
Large(x) == x % 1024 = 0
Huge(x) == x % 65536 = 0

\* Powers of two are found in a table: the prover does not compute them.
LEMMA Powers ==
  ASSUME NEW e \in 0..30
  PROVE  /\ 2 ^ e \in PowersOfTwo
         /\ e >= 10 => Large(2 ^ e)
         /\ e >= 16 => Huge(2 ^ e)
<1> DEFINE power(x) == 2 ^ x
<1>1. \/ e = 0 \/ e = 1 \/ e = 2 \/ e = 3 \/ e = 4 \/ e = 5 \/ e = 6 \/ e = 7
      \/ e = 8 \/ e = 9 \/ e = 10 \/ e = 11 \/ e = 12 \/ e = 13 \/ e = 14 \/ e = 15
      \/ e = 16 \/ e = 17 \/ e = 18 \/ e = 19 \/ e = 20 \/ e = 21 \/ e = 22 \/ e = 23
      \/ e = 24 \/ e = 25 \/ e = 26 \/ e = 27 \/ e = 28 \/ e = 29 \/ e = 30
  BY SMT
<1>2. /\ power(0) = 1 /\ power(1) = 2 /\ power(2) = 4
      /\ power(3) = 8 /\ power(4) = 16 /\ power(5) = 32
      /\ power(6) = 64 /\ power(7) = 128 /\ power(8) = 256
      /\ power(9) = 512 /\ power(10) = 1024 /\ power(11) = 2048
      /\ power(12) = 4096 /\ power(13) = 8192 /\ power(14) = 16384
      /\ power(15) = 32768 /\ power(16) = 65536 /\ power(17) = 131072
      /\ power(18) = 262144 /\ power(19) = 524288 /\ power(20) = 1048576
      /\ power(21) = 2097152 /\ power(22) = 4194304 /\ power(23) = 8388608
      /\ power(24) = 16777216 /\ power(25) = 33554432 /\ power(26) = 67108864
      /\ power(27) = 134217728 /\ power(28) = 268435456 /\ power(29) = 536870912
      /\ power(30) = 1073741824
  BY SMT
<1> HIDE DEF power
<1>3. power(e) \in PowersOfTwo /\ (e >= 10 => Large(power(e))) /\ (e >= 16 => Huge(power(e)))
  BY SMT, <1>1, <1>2 DEF PowersOfTwo, Large, Huge
<1> QED BY SMT, <1>3 DEF power

\* They are positive.
LEMMA PowerType ==
  ASSUME NEW x \in PowersOfTwo
  PROVE  x \in Nat \ {0}
  BY SMT DEF PowersOfTwo

-----------------------------------------------------------------------------
(* The rows of each stage. *)

\* The parts of a row.
LEMMA RowParts ==
  ASSUME NEW tag, NEW c, NEW r, r = Row(tag, c)
  PROVE  r.tag = tag /\ r.c = c
  BY DEF Row

\* A shared variant of the bandwidth that has 8 accumulators or is none.
Narrow(m) == m.family = "shared" /\ m.kind = "bw" => m.accumulators = 8

\* What validation measures: no texture, few chains, small blocks.
LEMMA ValidatedVariants ==
  ASSUME NEW dev \in Devices, NEW m \in Validated(dev)
  PROVE  /\ m \in Manifest /\ m.family # "texture"
         /\ m.family = "matrix" => m.chains = 1 /\ Eligible(dev, m)
         /\ m.family = "ert" => m.elems = 4
         /\ Narrow(m)
<1>1. \/ m \in Memory \/ m \in Alu \/ (m \in Shared /\ Narrow(m)) \/ m \in Dot \/ m \in Latency
      \/ (m \in Ert /\ m.elems = 4) \/ (m \in Matrix /\ m.chains = 1 /\ Eligible(dev, m))
  <2>1. \/ m \in Memory \/ m \in Alu \/ (m \in Shared /\ m.kind = "bw" /\ m.accumulators = 8)
        \/ (m \in Shared /\ m.kind = "crosslane") \/ m \in Dot \/ m \in Latency
        \/ (m \in Ert /\ m.elems = 4) \/ (m \in Matrix /\ m.chains = 1 /\ Eligible(dev, m))
    BY Zenon DEF Validated
  <2>2. m.kind = "crosslane" => m.kind # "bw"
    OBVIOUS
  <2> QED BY Zenon, <2>1, <2>2 DEF Narrow
<1> QED BY <1>1, FamilyNames DEF Manifest, Narrow

\* A row of validate is a short run.
LEMMA ValidateRows ==
  ASSUME NEW dev \in Devices, NEW lv, NEW r \in Validate(dev, lv)
  PROVE  /\ r.tag = "validate"
         /\ \/ \E m \in Validated(dev) :
                 r.c = IF m.family = "latency" THEN ShortWalk(dev, m) ELSE Short(dev, m)
            \/ \E m \in Memory : r.c = InMode(Short(dev, m), "host_coherent")
<1>1. \/ \E m \in Validated(dev) :
           r = Row("validate", IF m.family = "latency" THEN ShortWalk(dev, m) ELSE Short(dev, m))
      \/ \E m \in Memory : r = Row("validate", InMode(Short(dev, m), "host_coherent"))
  BY DEF Validate
<1> QED BY <1>1 DEF Row

\* A row of first_look is one configuration of a variant.
LEMMA FirstLookRows ==
  ASSUME NEW dev \in Devices, NEW lv, NEW r \in FirstLook(dev, lv)
  PROVE  /\ r.tag = "first-look"
         /\ \/ \E m \in Memory : r.c = Sweep(dev, m, 64, 4096, 4 * MiB)
            \/ \E m \in Alu \cup Shared \cup Dot : Narrow(m) /\ r.c = Base(dev, m)
            \/ \E m \in Matrix : /\ m.chains \in {1, 4} /\ m.feed = "none" /\ Eligible(dev, m)
                                 /\ r.c = Launch(dev, m, Base(dev, m).wg, 512)
<1>1. \/ \E m \in Memory : r = Row("first-look", Sweep(dev, m, 64, 4096, 4 * MiB))
      \/ \E m \in Alu \cup Shared \cup Dot : Narrow(m) /\ r = Row("first-look", Base(dev, m))
      \/ \E m \in Matrix : /\ m.chains \in {1, 4} /\ m.feed = "none" /\ Eligible(dev, m)
                           /\ r = Row("first-look", Launch(dev, m, Base(dev, m).wg, 512))
  <2> DEFINE small == {x \in Alu : x.width = 4 /\ x.chains \in {4, 8}}
                      \cup {x \in Shared : x.width = 4 /\ (x.kind = "bw" => x.accumulators = 8)}
                      \cup {x \in Dot : x.chains = 4}
  <2>1. \A m \in small : m \in Alu \cup Shared \cup Dot /\ Narrow(m)
    BY FamilyNames DEF Narrow
  <2>2. \/ \E m \in Memory : r = Row("first-look", Sweep(dev, m, 64, 4096, 4 * MiB))
        \/ \E m \in small : r = Row("first-look", Base(dev, m))
        \/ \E m \in Matrix : /\ m.chains \in {1, 4} /\ m.feed = "none" /\ Eligible(dev, m)
                             /\ r = Row("first-look", Launch(dev, m, Base(dev, m).wg, 512))
    BY DEF FirstLook
  <2> HIDE DEF small
  <2> QED BY <2>1, <2>2
<1> QED BY <1>1 DEF Row

\* A row of cache reads a working set of some size with some workgroup.
LEMMA CacheRows ==
  ASSUME NEW dev \in Devices, NEW lv, NEW r \in CacheStage(dev, lv)
  PROVE  /\ r.tag = "sweep-cache"
         /\ \E m \in Memory, size \in CacheSizes(dev), wg \in {64, 128, 256} :
              m.op = Read /\ ~m.volatile_global /\ r.c = Cached(dev, m, size, wg)
<1>1. PICK m \in CacheReads(lv), size \in CacheSizes(dev), wg \in {64, 128, 256} :
        r = Row("sweep-cache", Cached(dev, m, size, wg))
  BY DEF CacheStage
<1>2. m \in Memory /\ m.op = Read /\ ~m.volatile_global
  BY Zenon, <1>1 DEF CacheReads
<1>3. r.tag = "sweep-cache" /\ r.c = Cached(dev, m, size, wg)
  BY <1>1 DEF Row
<1>4. \E x \in Memory, y \in CacheSizes(dev), z \in {64, 128, 256} :
        x.op = Read /\ ~x.volatile_global /\ r.c = Cached(dev, x, y, z)
  <2>1. m \in Memory
    BY <1>2
  <2> WITNESS m \in Memory, size \in CacheSizes(dev), wg \in {64, 128, 256}
  <2> QED BY Zenon, <1>2, <1>3
<1> QED BY Zenon, <1>3, <1>4

\* A row of memory has one pass over arrays that the device admits.
LEMMA MemoryRows ==
  ASSUME NEW dev \in Devices, NEW lv, NEW r \in MemoryStage(dev, lv)
  PROVE  /\ r.tag = "sweep-memory"
         /\ \E m \in Memory, e \in 12..29 :
              LET n == Elements(m.op, 2 ^ e) IN
              /\ m.width = 4 /\ n * 16 <= dev.max_range
              /\ r.c = Sweep(dev, m, 64, Least(4096, Most(1, n \div 64)), n)
<1>1. \A size \in MemorySizes(lv) : \E e \in 12..29 : size = 2 ^ e
  <2>1. 28..29 \subseteq 12..29
    OBVIOUS
  <2> QED BY Zenon, <2>1 DEF MemorySizes
<1>2. \E m \in Memory, size \in MemorySizes(lv) :
         LET n == Elements(m.op, size) IN
         /\ m.width = 4 /\ n * 16 <= dev.max_range
         /\ r = Row("sweep-memory", Sweep(dev, m, 64, Least(4096, Most(1, n \div 64)), n))
  BY DEF MemoryStage
<1> QED BY <1>1, <1>2 DEF Row

\* A row of compute has a grid of its variant.
LEMMA ComputeRows ==
  ASSUME NEW dev \in Devices, NEW lv, NEW r \in Compute(dev, lv)
  PROVE  /\ r.tag = "sweep-compute"
         /\ \E m \in Alu \cup Dot \cup Matrix : \E p \in ComputeGrid(dev, m, lv) :
              /\ m.family = "matrix" => m.feed = "none" /\ Eligible(dev, m)
              /\ r.c = Launch(dev, m, p[1], p[2])
<1>1. \E m \in Alu \cup Dot \cup Matrix : \E p \in ComputeGrid(dev, m, lv) :
              /\ m.family = "matrix" => m.feed = "none" /\ Eligible(dev, m)
              /\ r = Row("sweep-compute", Launch(dev, m, p[1], p[2]))
  BY DEF Compute
<1> QED BY <1>1 DEF Row

\* A row of matrix_feed has tiles that the device admits, and a grid.
LEMMA FeedRows ==
  ASSUME NEW dev \in Devices, NEW lv, NEW r \in MatrixFeed(dev, lv)
  PROVE  /\ r.tag = "sweep-matrix-feed"
         /\ \E m \in Matrix : \E tiles \in FeedTiles(dev, m), p \in MatrixGrid(dev, m, lv) :
              /\ m.feed # "none" /\ Eligible(dev, m)
              /\ r.c = Feed(dev, m, p[1], p[2], tiles)
<1>1. \E m \in Matrix : \E tiles \in FeedTiles(dev, m), p \in MatrixGrid(dev, m, lv) :
              /\ m.feed # "none" /\ Eligible(dev, m)
              /\ r = Row("sweep-matrix-feed", Feed(dev, m, p[1], p[2], tiles))
  BY DEF MatrixFeed
<1> QED BY <1>1 DEF Row

\* A row of texture has one of two sizes.
LEMMA TextureRows ==
  ASSUME NEW dev \in Devices, NEW lv, NEW r \in TextureStage(dev, lv)
  PROVE  /\ r.tag = "sweep-texture"
         /\ \E m \in Texture, size \in {MiB, 256 * MiB}, wg \in {64, 256} :
              /\ m.tex_dim = 0 => size <= dev.max_range
              /\ r.c = Sweep(dev, m, wg, 4096, size \div Texel(m.format))
<1>1. \E m \in Texture, size \in {MiB, 256 * MiB}, wg \in {64, 256} :
              /\ m.tex_dim = 0 => size <= dev.max_range
              /\ r = Row("sweep-texture", Sweep(dev, m, wg, 4096, size \div Texel(m.format)))
  BY DEF TextureStage
<1> QED BY <1>1 DEF Row

\* A row of shared has slots that fit, of those the stage enumerates.
LEMMA SharedRows ==
  ASSUME NEW dev \in Devices, NEW lv, NEW r \in SharedStage(dev, lv)
  PROVE  /\ r.tag = "sweep-shared"
         /\ \E m \in Shared, p \in SharedPoints(dev, lv) :
              /\ Distinct(m, p[1], Count(m, p[2]), p[3])
              /\ r.c = Slots(dev, m, p[1], Count(m, p[2]), p[3])
<1>1. \E m \in Shared, p \in SharedPoints(dev, lv) :
              /\ Distinct(m, p[1], Count(m, p[2]), p[3])
              /\ r = Row("sweep-shared", Slots(dev, m, p[1], Count(m, p[2]), p[3]))
  BY DEF SharedStage, SharedMeasured
<1> QED BY <1>1 DEF Row

\* A row of ert has one size and one of two workgroups.
LEMMA ErtRows ==
  ASSUME NEW dev \in Devices, NEW lv, NEW r \in ErtStage(dev, lv)
  PROVE  /\ r.tag = "ert"
         /\ \E m \in Ert, wg \in {64, 256} : r.c = Sweep(dev, m, wg, 4096, 8 * MiB)
<1>1. \E m \in Ert, wg \in {64, 256} : r = Row("ert", Sweep(dev, m, wg, 4096, 8 * MiB))
  BY DEF ErtStage
<1> QED BY <1>1 DEF Row

\* A row of memory_type is a repetition.
LEMMA MemoryTypeRows ==
  ASSUME NEW dev \in Devices, NEW lv, NEW r \in MemoryType(dev, lv)
  PROVE  /\ r.tag = "control-memory-type"
         /\ \E m \in Memory, mode \in {"device_local", "host_coherent"}, rep \in 0..2 :
              m.width = 4 /\ r.c = Repetition(dev, m, mode, rep)
<1>1. \E m \in Memory, mode \in {"device_local", "host_coherent"}, rep \in 0..2 :
              m.width = 4 /\ r = Row("control-memory-type", Repetition(dev, m, mode, rep))
  BY DEF MemoryType
<1> QED BY <1>1 DEF Row

\* The walks of the three series of latency.
CapacityWalk(dev, c, size) == c = Chase(dev, size, 64, "random", 4096)
PageWalk(dev, c, e) ==
  /\ 2 ^ e <= Least(256 * MiB, dev.max_range)
  /\ c = Chase(dev, 2 ^ e, dev.page_size, "random", 4096)
StrideWalk(dev, c, size, e) == c = Chase(dev, size, 2 ^ e, "sequential", 2)

\* A row of latency is a walk by capacity, by pages or by stride.
LEMMA LatencyRows ==
  ASSUME NEW dev \in Devices, NEW lv, NEW r \in LatencyStage(dev, lv)
  PROVE  \/ /\ r.tag = "latency-capacity"
            /\ \E size \in ChaseSizes(lv) :
                 size <= Least(256 * MiB, dev.max_range) /\ CapacityWalk(dev, r.c, size)
         \/ r.tag = "latency-tlb" /\ \E e \in 16..28 : PageWalk(dev, r.c, e)
         \/ /\ r.tag = "latency-stride"
            /\ \E size \in {MiB, 64 * MiB}, e \in 2..10 : StrideWalk(dev, r.c, size, e)
<1>1. \/ \E size \in ChaseSizes(lv) :
           /\ size <= Least(256 * MiB, dev.max_range)
           /\ r = Row("latency-capacity", Chase(dev, size, 64, "random", 4096))
      \/ \E e \in 16..28 :
           /\ 2 ^ e <= Least(256 * MiB, dev.max_range)
           /\ r = Row("latency-tlb", Chase(dev, 2 ^ e, dev.page_size, "random", 4096))
      \/ \E size \in {MiB, 64 * MiB}, e \in 2..10 :
           r = Row("latency-stride", Chase(dev, size, 2 ^ e, "sequential", 2))
  <2> DEFINE bound == Least(256 * MiB, dev.max_range)
             capacity == {Row("latency-capacity", Chase(dev, size, 64, "random", 4096)) :
                            size \in UpTo(bound, ChaseSizes(lv))}
             tlb == {Row("latency-tlb", Chase(dev, size, dev.page_size, "random", 4096)) :
                       size \in {2 ^ e : e \in {x \in 16..28 : /\ 2 ^ x <= bound
                                                             /\ 2 ^ x \div dev.page_size >= 2}}}
             strides == {Row("latency-stride", Chase(dev, size, stride, "sequential", 2)) :
                           size \in {MiB, 64 * MiB}, stride \in {2 ^ e : e \in 2..10}}
  <2>1. r \in capacity \/ r \in tlb \/ r \in strides
    BY DEF LatencyStage
  <2>2. r \in capacity => \E size \in ChaseSizes(lv) :
           size <= bound /\ r = Row("latency-capacity", Chase(dev, size, 64, "random", 4096))
    BY DEF UpTo
  <2>3. r \in tlb => \E e \in 16..28 :
           /\ 2 ^ e <= bound
           /\ r = Row("latency-tlb", Chase(dev, 2 ^ e, dev.page_size, "random", 4096))
    <3> DEFINE exponents == {x \in 16..28 : 2 ^ x <= bound /\ 2 ^ x \div dev.page_size >= 2}
               random(size) == Row("latency-tlb", Chase(dev, size, dev.page_size, "random", 4096))
    <3>1. r \in tlb => \E e \in exponents : r = random(2 ^ e)
      OBVIOUS
    <3>2. \A e \in exponents : e \in 16..28 /\ 2 ^ e <= bound
      OBVIOUS
    <3> HIDE DEF exponents, random, bound
    <3>3. r \in tlb => \E e \in 16..28 : 2 ^ e <= bound /\ r = random(2 ^ e)
      BY <3>1, <3>2
    <3> QED BY <3>3 DEF random
  <2>4. r \in strides => \E size \in {MiB, 64 * MiB}, e \in 2..10 :
           r = Row("latency-stride", Chase(dev, size, 2 ^ e, "sequential", 2))
    OBVIOUS
  <2> QED BY <2>1, <2>2, <2>3, <2>4
<1> QED BY <1>1 DEF Row, CapacityWalk, PageWalk, StrideWalk

-----------------------------------------------------------------------------
(* Sizes and grids. *)

\* The elements of a size are a number.
LEMMA ElementsType ==
  ASSUME NEW op \in 0..6, NEW size \in Nat
  PROVE  Elements(op, size) \in Nat
<1>1. ArraysPerOp[op + 1] \in {1, 2, 3}
  BY DEF ArraysPerOp
<1> DEFINE bytes == ArraysPerOp[op + 1] * 16
           n == size \div bytes
<1>2. bytes \in Nat \ {0}
  BY <1>1
<1> HIDE DEF bytes
<1>3. n \in Nat
  BY <1>2
<1> HIDE DEF n
<1>4. (n \div 64) * 64 \in Nat
  BY <1>3
<1> QED BY <1>4 DEF Elements, n, bytes

\* A matrix grid is of whole subgroups, and its output is what the device admits.
LEMMA MatrixGridType ==
  ASSUME NEW dev \in Devices, NEW m, NEW lv, NEW p \in MatrixGrid(dev, m, lv)
  PROVE  /\ p[1] \in {dev.subgroup, 4 * dev.subgroup} /\ p[2] \in {64, 512, 4096, 16384}
         /\ p[1] <= dev.max_workgroup
         /\ p[2] * (p[1] \div dev.subgroup) <= Least(MatrixOutput, dev.max_range) \div OutBytes(m)
         /\ p[1] \in Nat \ {0} /\ p[2] \in Nat \ {0}
<1>1. /\ p[1] \in {dev.subgroup, 4 * dev.subgroup} /\ p[2] \in {64, 512, 4096, 16384}
      /\ p[1] <= dev.max_workgroup
      /\ p[2] * (p[1] \div dev.subgroup) <= Least(MatrixOutput, dev.max_range) \div OutBytes(m)
  BY DEF MatrixGrid
<1>2. dev.subgroup \in Nat \ {0}
  BY PlanningAssumption
<1>3. p[1] \in Nat \ {0} /\ p[2] \in Nat \ {0}
  BY <1>1, <1>2
<1> QED BY <1>1, <1>3

\* The grid of the other variants.
LEMMA ComputeGridType ==
  ASSUME NEW dev \in Devices, NEW m, NEW lv, m.family # "matrix", NEW p \in ComputeGrid(dev, m, lv)
  PROVE  p[1] \in {64, 128, 256} /\ p[2] \in {64, 512, 2048, 8192}
  BY DEF ComputeGrid

\* Tiles have a size.
LEMMA ShapeNumbers ==
  ASSUME NEW s \in Shapes
  PROVE  /\ TileBytes(s) \in Nat \ {0}
         /\ Most(s.m * s.k, s.k * s.n) * Operand(s) \in Nat \ {0}
<1>1. /\ s.m \in {4, 8, 16, 64} /\ s.n \in {8, 16, 32, 64} /\ s.k \in {8, 16, 32}
  BY ShapeFields
<1>2. Operand(s) \in {1, 2}
  BY DEF Operand
<1>3. s.m * s.k \in Nat \ {0} /\ s.k * s.n \in Nat \ {0}
  BY <1>1
<1> DEFINE a == s.m * s.k
           b == s.k * s.n
           o == Operand(s)
<1> HIDE DEF a, b, o
<1>4. a \in Nat \ {0} /\ b \in Nat \ {0} /\ o \in {1, 2}
  BY <1>2, <1>3 DEF a, b, o
<1>5. (a + b) * o \in Nat \ {0} /\ Most(a, b) * o \in Nat \ {0}
  BY <1>4 DEF Most
<1> QED BY <1>5 DEF a, b, o, TileBytes

\* A count of tiles is a number.
LEMMA FeedTilesType ==
  ASSUME NEW dev \in Devices, NEW m \in Matrix, NEW tiles \in FeedTiles(dev, m)
  PROVE  tiles \in Nat
<1>1. m.shape \in Shapes /\ dev.max_range \in Nat
  BY MatrixFields, PlanningAssumption
<1> DEFINE s == m.shape
           t == TileBytes(s)
           o == Most(s.m * s.k, s.k * s.n) * Operand(s)
           largest == dev.max_range \div o
           near == MiB \div t
           far == (256 * MiB + t - 1) \div t
<1>2. t \in Nat \ {0} /\ o \in Nat \ {0}
  BY <1>1, ShapeNumbers
<1>3. tiles \in {MatrixFeedTiles, Most(1, near), Least(largest, far)}
  BY DEF FeedTiles
<1> HIDE DEF t, o
<1>4. MiB \in Nat
  BY SMT DEF MiB
<1>5. near \in Nat /\ largest \in Nat
  BY <1>1, <1>2, <1>4
<1>6. far \in Nat
  <2> DEFINE top == 256 * MiB + t - 1
  <2>1. top \in Nat
    BY <1>2, <1>4
  <2> HIDE DEF top
  <2>2. top \div t \in Nat
    BY <2>1, <1>2
  <2> QED BY <2>2 DEF top
<1> HIDE DEF near, largest, far
<1> QED BY <1>3, <1>5, <1>6 DEF MatrixFeedTiles, Most, Least

\* The sizes of cache are powers of two within the limits.
LEMMA CacheSizesType ==
  ASSUME NEW dev, NEW size \in CacheSizes(dev)
  PROVE  /\ size \in PowersOfTwo /\ Large(size)
         /\ size <= Least(512 * MiB, dev.max_range)
<1>1. size \in {2 ^ e : e \in 12..29} /\ size <= Least(512 * MiB, dev.max_range)
  BY DEF CacheSizes, UpTo
<1>2. PICK e \in 12..29 : size = 2 ^ e
  BY <1>1
<1>3. e \in 0..30 /\ e >= 10
  BY <1>2
<1>4. 2 ^ e \in PowersOfTwo /\ Large(2 ^ e)
  BY Zenon, <1>3, Powers
<1> QED BY <1>1, <1>2, <1>4

\* The sizes of latency are powers of two or three times one.
LEMMA ChaseSizesType ==
  ASSUME NEW lv, NEW size \in ChaseSizes(lv)
  PROVE  \/ size \in PowersOfTwo /\ Large(size)
         \/ \E x \in PowersOfTwo : (x = 512 \/ Large(x)) /\ size = 3 * x
<1>1. \E e \in 10..28 : size = 2 ^ e \/ size = 3 * 2 ^ (e - 1)
  BY DEF ChaseSizes
<1>2. PICK e \in 10..28 : size = 2 ^ e \/ size = 3 * 2 ^ (e - 1)
  BY <1>1
<1>3. e \in 0..30 /\ e - 1 \in 0..30 /\ e >= 10
  BY <1>2
<1>4. 2 ^ e \in PowersOfTwo /\ Large(2 ^ e) /\ 2 ^ (e - 1) \in PowersOfTwo
  BY Zenon, <1>3, Powers
<1>5. 2 ^ (e - 1) = 512 \/ Large(2 ^ (e - 1))
  <2>1. e - 1 = 9 \/ e - 1 >= 10
    BY <1>2
  <2>2. CASE e - 1 = 9
    <3> DEFINE power(x) == 2 ^ x
    <3>1. power(9) = 512
      OBVIOUS
    <3> HIDE DEF power
    <3>2. power(e - 1) = 512
      BY <2>2, <3>1
    <3> QED BY <3>2 DEF power
  <2>3. CASE e - 1 >= 10
    BY Zenon, <1>3, <2>3, Powers
  <2> QED BY <2>1, <2>2, <2>3
<1> QED BY <1>2, <1>4, <1>5

\* The points of shared.
LEMMA SharedPointsType ==
  ASSUME NEW dev \in Devices, NEW lv, NEW p \in SharedPoints(dev, lv)
  PROVE  /\ p[1] \in {32, 64, 128, 256} /\ p[3] \in {1, 2, 4, 8, 16, 32, 33, 64, 65}
         /\ p[2] \in {1024, 2048, 4096, 8192, 16384, dev.max_shared}
  BY DEF SharedPoints, Strides

\* What is counted into some bytes of shared memory fits.
LEMMA CountType ==
  ASSUME NEW m \in Shared, NEW bytes \in Nat
  PROVE  /\ Count(m, bytes) \in Nat
         /\ Count(m, bytes) * m.width * Scalar(m.dtype) <= bytes
<1> DEFINE a == m.width
           b == Scalar(m.dtype)
           n == bytes \div (a * b)
<1>1. a \in {1, 2, 4} /\ b \in {2, 4}
  BY SharedFields DEF Scalar
<1> HIDE DEF a, b
<1>2. n \in Nat /\ n * (a * b) <= bytes /\ n * a * b = n * (a * b)
  BY <1>1
<1> QED BY <1>2 DEF Count, n, a, b

-----------------------------------------------------------------------------
(* What every row of the plan is, whatever its stage. *)

SweepTags == {"sweep-cache", "sweep-memory", "sweep-compute", "sweep-matrix-feed",
              "sweep-texture", "sweep-shared"}
WalkTags == {"latency-capacity", "latency-tlb", "latency-stride"}

\* A configuration of the device: of a known variant, with at least one workgroup for each
\* replica of the data.
Sound(dev, c) ==
  /\ c \in Configuration
  /\ c.replicas <= c.groups
  /\ c.subgroup = (IF c.m.family = "matrix" THEN dev.subgroup ELSE 0)
  /\ c.role = "none"

\* The families that a tag stands for.
Belongs(tag, m) ==
  /\ tag = "sweep-cache" => m.family = "memory" /\ ~m.volatile_global
  /\ tag = "sweep-memory" => m.family = "memory"
  /\ tag = "sweep-compute" => m.family \in {"alu", "dot"} \/ (m.family = "matrix" /\ m.feed = "none")
  /\ tag = "sweep-matrix-feed" => m.family = "matrix" /\ m.feed # "none"
  /\ tag = "sweep-texture" => m.family = "texture"
  /\ tag = "sweep-shared" => m.family = "shared"

\* A row that can define a roof leaves what a replay does not carry as it is.
SoundRow(dev, r) ==
  Sound(dev, r.c) /\ (r.tag \in SweepTags => Usual(r.c) /\ Belongs(r.tag, r.c.m))

\* What the stages have in common makes a configuration sound.
LEMMA CommonIsSound ==
  ASSUME NEW dev \in Devices, NEW m \in Manifest, NEW c, NEW wg, NEW groups, NEW n, NEW trips, NEW replicas,
         Common(dev, c, m, wg, groups, n, trips, replicas), replicas <= groups
  PROVE  Sound(dev, c) /\ c.m = m
  BY DEF Common, Sound

\* The launch of a working set of the cache, of which a small one is read by several groups.
CacheElements(m, size) == size \div (4 * m.width)
CacheChunks(m, size, wg) == Least(4096, Most(1, CacheElements(m, size) \div wg))
CacheReplicas(m, size, wg) == Most(1, 256 \div CacheChunks(m, size, wg))
CacheGroups(m, size, wg) == CacheChunks(m, size, wg) * CacheReplicas(m, size, wg)

\* A configuration of cache, whose replicas are not more than its workgroups.
LEMMA CachedFields ==
  ASSUME NEW dev \in Devices, NEW m \in Memory, NEW size \in Nat, NEW wg \in {64, 128, 256}
  PROVE  LET c == Cached(dev, m, size, wg) IN
         /\ Common(dev, c, m, wg, CacheGroups(m, size, wg), CacheElements(m, size), 1,
                   CacheReplicas(m, size, wg))
         /\ Usual(c) /\ Plain(m, c)
         /\ CacheReplicas(m, size, wg) <= CacheGroups(m, size, wg)
<1> DEFINE n == size \div (4 * m.width)
           groups == Least(4096, Most(1, n \div wg))
           rep == Most(1, 256 \div groups)
           all == groups * rep
           b == Sweep(dev, m, wg, all, n)
           c == [b EXCEPT !.replicas = rep]
<1>1. n \in Nat
  BY MemoryFields
<1> HIDE DEF n
<1>2. groups \in Nat \ {0}
  BY SMT, <1>1 DEF Least, Most
<1> HIDE DEF groups
<1>3. rep \in Nat \ {0}
  BY <1>2 DEF Most
<1> HIDE DEF rep
<1>4. all \in Nat \ {0} /\ rep <= all
  BY <1>2, <1>3
<1> HIDE DEF all
<1>5. m \in Manifest
  BY DEF Manifest
<1>6. wg \in Nat \ {0}
  OBVIOUS
<1>7. Common(dev, b, m, wg, all, n, 1, 1) /\ Usual(b) /\ Plain(m, b)
  BY <1>1, <1>4, <1>5, <1>6, SweepFields
<1> HIDE DEF b
<1>8. b \in Configuration
  BY <1>7 DEF Common
<1>9. c \in Configuration
  BY <1>3, <1>8, SetReplicas
<1>10. /\ c.m = b.m /\ c.wg = b.wg /\ c.groups = b.groups /\ c.n = b.n /\ c.loops = b.loops
       /\ c.replicas = rep /\ c.subgroup = b.subgroup /\ c.role = b.role
       /\ c.calibrate = b.calibrate /\ c.repeat = b.repeat /\ c.memory_mode = b.memory_mode
       /\ c.stride = b.stride /\ c.shared_count = b.shared_count /\ c.node = b.node
  BY <1>8 DEF Configuration
<1> HIDE DEF c
<1>11. Common(dev, c, m, wg, all, n, 1, rep) /\ Usual(c) /\ Plain(m, c)
  BY <1>7, <1>9, <1>10 DEF Common, Usual, Plain
<1>12. Cached(dev, m, size, wg) = c
  BY DEF Cached, c, b, all, rep, groups, n
<1>13. /\ n = CacheElements(m, size) /\ rep = CacheReplicas(m, size, wg)
       /\ all = CacheGroups(m, size, wg)
  BY DEF n, groups, rep, all, CacheElements, CacheChunks, CacheReplicas, CacheGroups
<1> QED BY <1>4, <1>11, <1>12, <1>13

\* Every row of validate is sound; so is, below, every row of each other stage.
LEMMA ValidateSound ==
  ASSUME NEW dev \in Devices, NEW lv, NEW r \in Validate(dev, lv)
  PROVE  SoundRow(dev, r)
<1>1. /\ r.tag = "validate"
      /\ \/ \E m \in Validated(dev) :
              r.c = IF m.family = "latency" THEN ShortWalk(dev, m) ELSE Short(dev, m)
         \/ \E m \in Memory : r.c = InMode(Short(dev, m), "host_coherent")
  BY ValidateRows
<1>2. ASSUME NEW m \in Manifest
      PROVE  /\ Sound(dev, ShortWalk(dev, m)) /\ Sound(dev, Short(dev, m))
             /\ Sound(dev, InMode(Short(dev, m), "host_coherent"))
  BY ShortFields, ShortWalkFields, HostFields, CommonIsSound
<1>3. Sound(dev, r.c)
  BY <1>1, <1>2, ValidatedVariants DEF Manifest
<1> QED BY <1>1, <1>3 DEF SoundRow, SweepTags

\* Rows of first_look.
LEMMA FirstLookSound ==
  ASSUME NEW dev \in Devices, NEW lv, NEW r \in FirstLook(dev, lv)
  PROVE  SoundRow(dev, r)
<1>1. /\ r.tag = "first-look"
      /\ \/ \E m \in Memory : r.c = Sweep(dev, m, 64, 4096, 4 * MiB)
         \/ \E m \in Alu \cup Shared \cup Dot : r.c = Base(dev, m)
         \/ \E m \in Matrix : r.c = Launch(dev, m, Base(dev, m).wg, 512)
  BY FirstLookRows
<1> DEFINE n == 4 * MiB
<1>2. n \in Nat
  BY SMT DEF MiB
<1> HIDE DEF n
<1>3. \A m \in Manifest : Sound(dev, Sweep(dev, m, 64, 4096, n))
  BY <1>2, SweepFields, CommonIsSound
<1>4. \A m \in Manifest : Sound(dev, Base(dev, m))
  BY BaseFields, CommonIsSound
<1>5. ASSUME NEW m \in Manifest PROVE Sound(dev, Launch(dev, m, Base(dev, m).wg, 512))
  <2>1. Base(dev, m).wg \in Nat \ {0}
    BY BaseFields DEF Common, Configuration
  <2> QED BY <2>1, LaunchFields, CommonIsSound
<1>6. Sound(dev, r.c)
  BY <1>1, <1>3, <1>4, <1>5 DEF Manifest, n
<1> QED BY <1>1, <1>6 DEF SoundRow, SweepTags

\* Rows of cache.
LEMMA CacheSound ==
  ASSUME NEW dev \in Devices, NEW lv, NEW r \in CacheStage(dev, lv)
  PROVE  SoundRow(dev, r)
<1>1. PICK m \in Memory, size \in CacheSizes(dev), wg \in {64, 128, 256} :
        m.op = Read /\ ~m.volatile_global /\ r.c = Cached(dev, m, size, wg)
  BY CacheRows
<1>2. r.tag = "sweep-cache"
  BY CacheRows
<1>3. size \in Nat /\ m \in Manifest /\ m.family = "memory"
  BY CacheSizesType, PowerType, FamilyNames DEF Manifest
<1>4. Sound(dev, r.c) /\ r.c.m = m /\ Usual(r.c)
  <2> DEFINE groups == CacheGroups(m, size, wg)
             rep == CacheReplicas(m, size, wg)
             n == CacheElements(m, size)
  <2>1. Common(dev, r.c, m, wg, groups, n, 1, rep) /\ Usual(r.c) /\ rep <= groups
    BY <1>1, <1>3, CachedFields
  <2> HIDE DEF groups, rep, n
  <2> QED BY <1>3, <2>1, CommonIsSound
<1>5. Belongs(r.tag, m)
  <2>1. m.family = "memory" /\ ~m.volatile_global
    BY Zenon, <1>1, <1>3
  <2> QED BY <1>2, <2>1 DEF Belongs
<1> QED BY <1>2, <1>4, <1>5 DEF SoundRow

\* Rows of memory.
LEMMA MemorySound ==
  ASSUME NEW dev \in Devices, NEW lv, NEW r \in MemoryStage(dev, lv)
  PROVE  SoundRow(dev, r)
<1>1. r.tag = "sweep-memory"
  BY MemoryRows
<1>2. PICK m \in Memory, e \in 12..29 :
        LET n == Elements(m.op, 2 ^ e) IN
        r.c = Sweep(dev, m, 64, Least(4096, Most(1, n \div 64)), n)
  BY MemoryRows
<1> DEFINE n == Elements(m.op, 2 ^ e)
           groups == Least(4096, Most(1, n \div 64))
<1>3. e \in 0..30
  BY <1>2
<1>4. 2 ^ e \in PowersOfTwo
  BY Zenon, <1>3, Powers
<1>5. 2 ^ e \in Nat /\ m.op \in 0..6 /\ m \in Manifest /\ m.family = "memory"
  BY <1>4, PowerType, MemoryFields, FamilyNames DEF Manifest
<1>6. n \in Nat
  BY <1>5, ElementsType
<1>7. r.c = Sweep(dev, m, 64, groups, n)
  BY <1>2
<1> HIDE DEF n
<1>8. groups \in Nat \ {0} /\ 1 <= groups
  BY SMT, <1>6 DEF Least, Most
<1> HIDE DEF groups
<1>9. Sound(dev, r.c) /\ r.c.m = m /\ Usual(r.c)
  <2>1. Common(dev, r.c, m, 64, groups, n, 1, 1) /\ Usual(r.c)
    BY <1>5, <1>6, <1>7, <1>8, SweepFields
  <2> QED BY <1>5, <1>8, <2>1, CommonIsSound
<1> QED BY <1>1, <1>5, <1>9 DEF SoundRow, Belongs

\* Rows of compute.
LEMMA ComputeSound ==
  ASSUME NEW dev \in Devices, NEW lv, NEW r \in Compute(dev, lv)
  PROVE  SoundRow(dev, r)
<1>1. r.tag = "sweep-compute"
  BY ComputeRows
<1>2. PICK m \in Alu \cup Dot \cup Matrix : \E p \in ComputeGrid(dev, m, lv) :
        /\ m.family = "matrix" => m.feed = "none" /\ Eligible(dev, m)
        /\ r.c = Launch(dev, m, p[1], p[2])
  BY ComputeRows
<1>3. PICK p \in ComputeGrid(dev, m, lv) :
        /\ m.family = "matrix" => m.feed = "none"
        /\ r.c = Launch(dev, m, p[1], p[2])
  BY <1>2
<1>4. m \in Manifest /\ m.family \in {"alu", "dot", "matrix"}
  BY <1>2, FamilyNames DEF Manifest
<1>5. p[1] \in Nat \ {0} /\ p[2] \in Nat \ {0}
  <2>1. CASE m.family = "matrix"
    <3>1. p \in MatrixGrid(dev, m, lv)
      BY <1>3, <2>1 DEF ComputeGrid
    <3> QED BY <3>1, MatrixGridType
  <2>2. CASE m.family # "matrix"
    <3>1. p[1] \in {64, 128, 256} /\ p[2] \in {64, 512, 2048, 8192}
      BY <1>3, <2>2, ComputeGridType
    <3> QED BY SMT, <3>1
  <2> QED BY <2>1, <2>2
<1>6. Sound(dev, r.c) /\ r.c.m = m /\ Usual(r.c)
  BY <1>3, <1>4, <1>5, LaunchFields, CommonIsSound
<1> QED BY <1>1, <1>3, <1>4, <1>6 DEF SoundRow, Belongs

\* Rows of matrix_feed.
LEMMA FeedSound ==
  ASSUME NEW dev \in Devices, NEW lv, NEW r \in MatrixFeed(dev, lv)
  PROVE  SoundRow(dev, r)
<1>1. r.tag = "sweep-matrix-feed"
  BY FeedRows
<1>2. PICK m \in Matrix : \E tiles \in FeedTiles(dev, m), p \in MatrixGrid(dev, m, lv) :
        /\ m.feed # "none"
        /\ r.c = Feed(dev, m, p[1], p[2], tiles)
  BY FeedRows
<1>3. PICK tiles \in FeedTiles(dev, m), p \in MatrixGrid(dev, m, lv) :
        m.feed # "none" /\ r.c = Feed(dev, m, p[1], p[2], tiles)
  BY <1>2
<1>4. m \in Manifest /\ m.family = "matrix"
  BY <1>2, FamilyNames DEF Manifest
<1>5. p[1] \in Nat \ {0} /\ p[2] \in Nat \ {0} /\ tiles \in Nat
  BY <1>3, MatrixGridType, FeedTilesType
<1>6. Sound(dev, r.c) /\ r.c.m = m /\ Usual(r.c)
  BY SMTT(30), <1>3, <1>4, <1>5, FeedFields, CommonIsSound
<1> QED BY <1>1, <1>3, <1>4, <1>6 DEF SoundRow, Belongs

\* Rows of texture.
LEMMA TextureSound ==
  ASSUME NEW dev \in Devices, NEW lv, NEW r \in TextureStage(dev, lv)
  PROVE  SoundRow(dev, r)
<1>1. r.tag = "sweep-texture"
  BY TextureRows
<1>2. PICK m \in Texture, size \in {MiB, 256 * MiB}, wg \in {64, 256} :
        r.c = Sweep(dev, m, wg, 4096, size \div Texel(m.format))
  BY TextureRows
<1> DEFINE n == size \div Texel(m.format)
<1>3. n \in Nat
  BY SMT, <1>2 DEF MiB, Texel
<1>4. m \in Manifest /\ m.family = "texture" /\ wg \in Nat \ {0}
  BY <1>2, FamilyNames DEF Manifest
<1> HIDE DEF n
<1>5. r.c = Sweep(dev, m, wg, 4096, n)
  BY <1>2 DEF n
<1>6. Sound(dev, r.c) /\ r.c.m = m /\ Usual(r.c)
  BY <1>3, <1>4, <1>5, SweepFields, CommonIsSound
<1> QED BY <1>1, <1>4, <1>6 DEF SoundRow, Belongs

\* Rows of shared.
LEMMA SharedSound ==
  ASSUME NEW dev \in Devices, NEW lv, NEW r \in SharedStage(dev, lv)
  PROVE  SoundRow(dev, r)
<1>1. r.tag = "sweep-shared"
  BY SharedRows
<1>2. PICK m \in Shared, p \in SharedPoints(dev, lv) :
        r.c = Slots(dev, m, p[1], Count(m, p[2]), p[3])
  BY SharedRows
<1>3. /\ p[1] \in {32, 64, 128, 256} /\ p[3] \in {1, 2, 4, 8, 16, 32, 33, 64, 65}
      /\ p[2] \in {1024, 2048, 4096, 8192, 16384, dev.max_shared}
  BY <1>2, SharedPointsType
<1>4. p[1] \in Nat \ {0} /\ p[3] \in Nat /\ p[2] \in Nat
  BY SMT, <1>3, PlanningAssumption
<1>5. m \in Manifest /\ m.family = "shared"
  BY <1>2, FamilyNames DEF Manifest
<1>6. Count(m, p[2]) \in Nat
  BY <1>2, <1>4, CountType
<1>7. Sound(dev, r.c) /\ r.c.m = m /\ Usual(r.c)
  <2> DEFINE wg == p[1]
             stride == p[3]
             count == Count(m, p[2])
  <2>1. wg \in Nat \ {0} /\ stride \in Nat /\ count \in Nat
    BY <1>4, <1>6
  <2>2. r.c = Slots(dev, m, wg, count, stride)
    BY <1>2
  <2> HIDE DEF wg, stride, count
  <2> DEFINE c == Slots(dev, m, wg, count, stride)
  <2>3. Common(dev, c, m, wg, 256, BaseN(m), 128, 1) /\ Usual(c)
    BY ONLY dev \in Devices, <1>5, <2>1, SlotsFields
  <2> QED BY <1>5, <2>2, <2>3, CommonIsSound
<1> QED BY <1>1, <1>5, <1>7 DEF SoundRow, Belongs

\* Rows of ert.
LEMMA ErtSound ==
  ASSUME NEW dev \in Devices, NEW lv, NEW r \in ErtStage(dev, lv)
  PROVE  SoundRow(dev, r)
<1>1. r.tag = "ert"
  BY ErtRows
<1>2. PICK m \in Ert, wg \in {64, 256} : r.c = Sweep(dev, m, wg, 4096, 8 * MiB)
  BY ErtRows
<1> DEFINE n == 8 * MiB
<1>3. n \in Nat
  BY SMT DEF MiB
<1>4. m \in Manifest /\ wg \in Nat \ {0}
  BY <1>2 DEF Manifest
<1> HIDE DEF n
<1>5. r.c = Sweep(dev, m, wg, 4096, n)
  BY <1>2 DEF n
<1>6. Sound(dev, r.c)
  BY <1>3, <1>4, <1>5, SweepFields, CommonIsSound
<1> QED BY <1>1, <1>6 DEF SoundRow, SweepTags

\* Rows of memory_type.
LEMMA MemoryTypeSound ==
  ASSUME NEW dev \in Devices, NEW lv, NEW r \in MemoryType(dev, lv)
  PROVE  SoundRow(dev, r)
<1>1. r.tag = "control-memory-type"
  BY MemoryTypeRows
<1>2. PICK m \in Memory, mode \in {"device_local", "host_coherent"}, rep \in 0..2 :
        r.c = Repetition(dev, m, mode, rep)
  BY MemoryTypeRows
<1>3. m \in Manifest /\ m.op \in 0..6
  BY <1>2, MemoryFields DEF Manifest
<1>4. 256 * MiB \in Nat
  BY SMT DEF MiB
<1>5. Elements(m.op, 256 * MiB) \in Nat
  BY <1>3, <1>4, ElementsType
<1>6. Sound(dev, r.c)
  BY <1>2, <1>3, <1>5, RepetitionFields, CommonIsSound
<1> QED BY <1>1, <1>6 DEF SoundRow, SweepTags

-----------------------------------------------------------------------------
(* The walks of latency. *)

\* WalksAreWarm, of one walk.
Warm(c) ==
  LET nodes == (c.n * 4) \div c.node
  IN /\ LoadsPerLoop * c.loops <= MaxLoads
     /\ 2 * nodes <= MaxLoads => LoadsPerLoop * (c.loops \div 2) >= nodes

\* The bound of the watchdog.
LEMMA MaxLoadsIs == MaxLoads = 1048576
  BY SMT DEF MaxLoads

\* The loops of a walk are positive.
LEMMA ChaseLoopsType ==
  ASSUME NEW nodes \in Nat, NEW min \in {2, 4096}
  PROVE  ChaseLoops(nodes, min) \in Nat \ {0}
  BY SMT DEF ChaseLoops, Most, Least, Passes, LoadsPerLoop, MaxLoops

\* The configuration of a walk.
LEMMA ChaseFields ==
  ASSUME NEW dev \in Devices, NEW size \in Nat, NEW stride \in Nat \ {0},
         NEW order \in {"random", "sequential"}, NEW min, min \in {2, 4096}
  PROVE  LET c == Chase(dev, size, stride, order, min) IN
         /\ Common(dev, c, TheWalk, 1, 1, size \div 4, ChaseLoops(size \div stride, min), 1)
         /\ c.node = stride
<1> DEFINE n == size \div 4
           nodes == size \div stride
           trips == ChaseLoops(nodes, min)
           b == Sweep(dev, TheWalk, 1, 1, n)
           c == [b EXCEPT !.loops = trips, !.node = stride, !.order = order, !.calibrate = FALSE]
<1>1. n \in Nat /\ nodes \in Nat
  OBVIOUS
<1> HIDE DEF n, nodes
<1>2. trips \in Nat \ {0}
  BY SMT, <1>1, ChaseLoopsType
<1> HIDE DEF trips
<1>3. Common(dev, b, TheWalk, 1, 1, n, 1, 1)
  BY SMT, <1>1, SweepFields, WalkIsLatency
<1> HIDE DEF b
<1>4. b \in Configuration /\ FALSE \in BOOLEAN
  BY SMT, <1>3 DEF Common
<1>5. c \in Configuration
  <2>1. stride \in Nat \ {0} /\ order \in {"random", "sequential"}
    OBVIOUS
  <2> QED BY ONLY Zenon, <1>2, <1>4, <2>1, SetChase
<1>6. /\ c.m = b.m /\ c.wg = b.wg /\ c.groups = b.groups /\ c.n = b.n /\ c.loops = trips
      /\ c.replicas = b.replicas /\ c.subgroup = b.subgroup /\ c.role = b.role
      /\ c.node = stride
  BY SMT, <1>4 DEF Configuration
<1> HIDE DEF c
<1>7. Common(dev, c, TheWalk, 1, 1, n, trips, 1) /\ c.node = stride
  BY SMT, <1>3, <1>5, <1>6 DEF Common
<1>8. Chase(dev, size, stride, order, min) = c
  BY SMT DEF Chase, c, b, n, trips, nodes, TheWalk
<1> QED BY SMT, <1>7, <1>8 DEF n, trips, nodes

\* Two passes over a chain whose nodes fill whole loops, or over a chain that half of the
\* least loops walk.
LEMMA TwoPasses ==
  ASSUME NEW nodes \in Nat, NEW min \in {2, 4096},
         nodes % 16 = 0 \/ (min = 4096 /\ nodes <= 32768)
  PROVE  LET trips == ChaseLoops(nodes, min) IN
         /\ LoadsPerLoop * trips <= MaxLoads
         /\ 2 * nodes <= MaxLoads => LoadsPerLoop * (trips \div 2) >= nodes
<1> DEFINE passes == (2 * nodes + 15) \div 16
           trips == Most(min, Least(passes, 65536))
<1>1. trips \in Nat /\ trips >= min /\ trips <= 65536
  BY SMT DEF Most, Least
<1>2. 16 * trips <= 1048576
  BY SMT, <1>1
<1>3. ASSUME 2 * nodes <= 1048576 PROVE 16 * (trips \div 2) >= nodes
  <2>1. CASE min = 4096 /\ nodes <= 32768
    BY SMT, <1>1, <2>1
  <2>2. CASE nodes % 16 = 0
    <3>1. PICK k \in Nat : nodes = 16 * k
      BY SMT, <2>2
    <3>2. passes = 2 * k /\ passes <= 65536
      BY SMT, <1>3, <3>1
    <3>3. trips >= 2 * k
      BY SMT, <3>1, <3>2 DEF Most, Least
    <3> HIDE DEF trips
    <3>4. trips \div 2 >= k
      BY SMT, <1>1, <3>1, <3>3
    <3> QED BY SMT, <1>1, <3>1, <3>4
  <2> QED BY SMT, <2>1, <2>2
<1>4. ChaseLoops(nodes, min) = trips
  BY SMT DEF ChaseLoops, Passes, LoadsPerLoop, MaxLoops
<1> HIDE DEF trips
<1> QED BY SMT, <1>2, <1>3, <1>4, MaxLoadsIs DEF LoadsPerLoop

\* Half of the loops walk a chain of size bytes with such a stride.
Walkable(size, stride, min) ==
  /\ size % 4 = 0
  /\ (size \div stride) % 16 = 0 \/ (min = 4096 /\ size \div stride <= 32768)

\* The walk of a chain is sound, and warm where its nodes allow it.
LEMMA ChaseSound ==
  ASSUME NEW dev \in Devices, NEW size \in Nat, NEW stride \in Nat \ {0},
         NEW order \in {"random", "sequential"}, NEW min, min \in {2, 4096}
  PROVE  LET c == Chase(dev, size, stride, order, min) IN
         Sound(dev, c) /\ (Walkable(size, stride, min) => Warm(c))
<1> DEFINE nodes == size \div stride
           n == size \div 4
           trips == ChaseLoops(nodes, min)
           c == Chase(dev, size, stride, order, min)
<1>1. n \in Nat /\ nodes \in Nat
  OBVIOUS
<1>2. trips \in Nat \ {0}
  <2> HIDE DEF nodes
  <2> QED BY SMT, <1>1, ChaseLoopsType
<1>3. Common(dev, c, TheWalk, 1, 1, n, trips, 1) /\ c.node = stride
  BY SMT, ChaseFields
<1>4. Sound(dev, c)
  <2> HIDE DEF c, n, trips
  <2> QED BY SMT, <1>3, WalkIsLatency, CommonIsSound
<1>5. ASSUME Walkable(size, stride, min) PROVE Warm(c)
  <2>1. n * 4 = size
    BY SMT, <1>5 DEF Walkable
  <2>2. c.n = n /\ c.loops = trips
    BY SMT, <1>3 DEF Common
  <2>3. (c.n * 4) \div c.node = nodes
    BY SMT, <1>3, <2>1, <2>2
  <2>4. nodes % 16 = 0 \/ (min = 4096 /\ nodes <= 32768)
    BY SMT, <1>5 DEF Walkable
  <2> HIDE DEF nodes, n, c
  <2>5. /\ LoadsPerLoop * trips <= MaxLoads
        /\ 2 * nodes <= MaxLoads => LoadsPerLoop * (trips \div 2) >= nodes
    BY SMT, <1>1, <2>4, TwoPasses
  <2> HIDE DEF trips
  <2> QED BY SMT, <2>2, <2>3, <2>5 DEF Warm
<1> QED BY SMT, <1>4, <1>5

\* Every size of latency is walkable by lines,
LEMMA CapacityNodes ==
  ASSUME NEW lv, NEW size \in ChaseSizes(lv)
  PROVE  size \in Nat /\ Walkable(size, 64, 4096)
<1>1. CASE size \in PowersOfTwo /\ Large(size)
  <2>1. size \in Nat /\ size % 1024 = 0
    BY SMT, <1>1, PowerType DEF Large
  <2> QED BY SMT, <2>1 DEF Walkable
<1>2. CASE \E x \in PowersOfTwo : (x = 512 \/ Large(x)) /\ size = 3 * x
  <2>1. PICK x \in PowersOfTwo : (x = 512 \/ Large(x)) /\ size = 3 * x
    BY SMT, <1>2
  <2>2. x \in Nat /\ (x = 512 \/ x % 1024 = 0)
    BY SMT, <2>1, PowerType DEF Large
  <2> QED BY SMT, <2>1, <2>2 DEF Walkable
<1> QED BY SMT, <1>1, <1>2, ChaseSizesType

\* every power of two by pages,
LEMMA PageNodes ==
  ASSUME NEW size \in PowersOfTwo, Huge(size), size <= 268435456, NEW page \in PowersOfTwo
  PROVE  Walkable(size, page, 4096)
<1>1. size \in Nat /\ size % 65536 = 0 /\ size % 4 = 0
  BY SMT, PowerType DEF Huge
<1>2. PICK k \in Nat : size = 65536 * k /\ k <= 4096
  BY SMT, <1>1
<1>3. page \in {1, 2, 4, 8, 16, 32, 64, 128, 256, 512, 1024, 2048, 4096} \/ page >= 8192
  BY SMT DEF PowersOfTwo
<1>4. CASE page \in {1, 2, 4, 8, 16, 32, 64, 128, 256, 512, 1024, 2048, 4096}
  <2>1. (size \div page) % 16 = 0
    BY ONLY SMT, <1>2, <1>4, k \in Nat
  <2> QED BY SMT, <1>1, <2>1 DEF Walkable
<1>5. CASE page >= 8192
  <2>1. page \in Nat \ {0}
    BY SMT, PowerType
  <2> DEFINE nodes == size \div page
  <2>2. nodes \in Nat /\ nodes * page <= size
    BY SMT, <1>1, <2>1
  <2> HIDE DEF nodes
  <2>3. nodes * 8192 <= nodes * page
    BY SMT, <2>1, <2>2, <1>5
  <2>4. nodes <= 32768
    BY SMT, <1>1, <2>1, <2>2, <2>3
  <2> QED BY SMT, <1>1, <2>4 DEF nodes, Walkable
<1> QED BY SMT, <1>3, <1>4, <1>5

ChaseStrides == {4, 8, 16, 32, 64, 128, 256, 512, 1024}

\* and both sizes by strides.
LEMMA StrideNodes ==
  ASSUME NEW size \in {MiB, 64 * MiB}, NEW stride \in ChaseStrides
  PROVE  size \in Nat /\ Walkable(size, stride, 2)
<1>1. size \in {1048576, 67108864}
  BY SMT DEF MiB
<1> QED BY SMT, <1>1 DEF Walkable, ChaseStrides

\* The strides, from the table of powers.
LEMMA Strides2To10 ==
  ASSUME NEW e \in 2..10
  PROVE  2 ^ e \in ChaseStrides
<1> DEFINE power(x) == 2 ^ x
<1>1. /\ power(2) = 4 /\ power(3) = 8 /\ power(4) = 16 /\ power(5) = 32 /\ power(6) = 64
      /\ power(7) = 128 /\ power(8) = 256 /\ power(9) = 512 /\ power(10) = 1024
  BY SMT
<1>2. e \in {2, 3, 4, 5, 6, 7, 8, 9, 10}
  BY SMT
<1> HIDE DEF power
<1>3. power(e) \in {4, 8, 16, 32, 64, 128, 256, 512, 1024}
  BY SMT, <1>1, <1>2
<1> QED BY SMT, <1>3 DEF power, ChaseStrides

\* A page holds a power of two of bytes.
PagesArePowers(dev) == dev.page_size \in PowersOfTwo

\* Rows of latency are sound, and their walks warm.
LEMMA LatencySound ==
  ASSUME NEW dev \in Devices, NEW lv, NEW r \in LatencyStage(dev, lv)
  PROVE  /\ SoundRow(dev, r) /\ r.tag \in WalkTags
         /\ PagesArePowers(dev) => Warm(r.c)
<1>1. CASE /\ r.tag = "latency-capacity"
           /\ \E size \in ChaseSizes(lv) : CapacityWalk(dev, r.c, size)
  <2>1. PICK size \in ChaseSizes(lv) : CapacityWalk(dev, r.c, size)
    BY <1>1
  <2>2. size \in Nat /\ Walkable(size, 64, 4096) /\ 64 \in Nat \ {0}
    BY SMT, <2>1, CapacityNodes
  <2>3. Sound(dev, r.c) /\ Warm(r.c)
    BY SMT, <2>1, <2>2, ChaseSound DEF CapacityWalk
  <2> QED BY <1>1, <2>3 DEF SoundRow, SweepTags, WalkTags
<1>2. CASE r.tag = "latency-tlb" /\ \E e \in 16..28 : PageWalk(dev, r.c, e)
  <2>1. PICK e \in 16..28 : PageWalk(dev, r.c, e)
    BY <1>2
  <2> DEFINE size == 2 ^ e
             page == dev.page_size
  <2>2. page \in Nat \ {0} /\ dev.max_range \in Nat
    BY PlanningAssumption
  <2>3. e \in 0..30 /\ e >= 16
    BY <2>1
  <2>4. size \in PowersOfTwo /\ Huge(size)
    BY Zenon, <2>3, Powers
  <2>5. size <= Least(256 * MiB, dev.max_range) /\ r.c = Chase(dev, size, page, "random", 4096)
    BY SMT, <2>1 DEF PageWalk
  <2> HIDE DEF size
  <2>6. size \in Nat
    BY SMT, <2>4, PowerType
  <2>7. size <= 268435456
    BY SMT, <2>2, <2>5, <2>6 DEF Least, MiB
  <2>8. PagesArePowers(dev) => Walkable(size, page, 4096)
    BY SMT, <2>4, <2>7, PageNodes DEF PagesArePowers
  <2> HIDE DEF page
  <2>9. Sound(dev, r.c) /\ (PagesArePowers(dev) => Warm(r.c))
    BY SMT, <2>2, <2>5, <2>6, <2>8, ChaseSound
  <2> QED BY SMT, <1>2, <2>9 DEF SoundRow, SweepTags, WalkTags
<1>3. CASE /\ r.tag = "latency-stride"
           /\ \E size \in {MiB, 64 * MiB}, e \in 2..10 : StrideWalk(dev, r.c, size, e)
  <2>1. PICK size \in {MiB, 64 * MiB}, e \in 2..10 : StrideWalk(dev, r.c, size, e)
    BY <1>3
  <2> DEFINE stride == 2 ^ e
  <2>2. stride \in ChaseStrides
    BY Zenon, <2>1, Strides2To10
  <2>3. r.c = Chase(dev, size, stride, "sequential", 2)
    BY SMT, <2>1 DEF StrideWalk
  <2> HIDE DEF stride
  <2>4. size \in Nat /\ stride \in Nat \ {0} /\ Walkable(size, stride, 2)
    BY SMT, <2>1, <2>2, StrideNodes DEF ChaseStrides
  <2>5. Sound(dev, r.c) /\ Warm(r.c)
    BY SMT, <2>3, <2>4, ChaseSound
  <2> QED BY SMT, <1>3, <2>5 DEF SoundRow, SweepTags, WalkTags
<1> QED BY SMT, <1>1, <1>2, <1>3, LatencyRows

-----------------------------------------------------------------------------
(* The accounting. *)

\* RatesAreConservative, of one configuration.
Conservative(dev, c) ==
  Counted(c)[1] <= Executed(dev, c)[1] /\ Counted(c)[2] = Executed(dev, c)[2]

\* A grid of threads for each replica visits the elements at least once for each.
LEMMA ReplicaVisits ==
  ASSUME NEW threads \in Nat, NEW replicas \in Nat \ {0}, replicas <= threads, NEW n \in Nat
  PROVE  n * replicas <= n * (threads \div (threads \div replicas))
<1> DEFINE grid == threads \div replicas
           visits == threads \div grid
<1>1. grid \in Nat /\ grid * replicas <= threads /\ grid >= 1
  <2>1. grid \in Nat /\ grid * replicas <= threads /\ threads < (grid + 1) * replicas
    OBVIOUS
  <2> HIDE DEF grid
  <2>2. grid # 0
    BY <2>1
  <2> QED BY <2>1, <2>2
<1> HIDE DEF grid
<1>2. visits \in Nat /\ threads < (visits + 1) * grid
  BY <1>1
<1> HIDE DEF visits
<1>3. replicas <= visits
  <2>1. SUFFICES ASSUME visits + 1 <= replicas PROVE FALSE
    BY <1>2
  <2>2. (visits + 1) * grid <= replicas * grid
    BY <1>1, <1>2, <2>1
  <2> QED BY <1>1, <1>2, <2>2
<1>4. n * replicas <= n * visits
  BY <1>2, <1>3
<1> QED BY <1>4 DEF visits, grid

\* Blocks of elems elements, threads apart, cover them all.
LEMMA BlocksCover ==
  ASSUME NEW elems \in {4, 8, 16}, NEW threads \in Nat \ {0}, NEW n \in Nat
  PROVE  LET block == elems * threads IN
         n <= elems * ((n \div block) * threads + Least(n % block, threads))
<1> DEFINE block == elems * threads
           q == n \div block
           rest == n % block
           last == Least(rest, threads)
<1>1. block \in Nat \ {0}
  OBVIOUS
<1> HIDE DEF block
<1>2. q \in Nat /\ rest \in Nat /\ rest < block /\ n = q * block + rest
  BY <1>1
<1> HIDE DEF q, rest
<1>3. last \in Nat /\ rest <= elems * last
  <2>1. CASE rest <= threads
    BY <1>2, <2>1 DEF Least
  <2>2. CASE ~(rest <= threads)
    BY <1>2, <2>2 DEF Least, block
  <2> QED BY <2>1, <2>2
<1> HIDE DEF last
<1>4. elems * (q * threads + last) = elems * (q * threads) + elems * last
  BY <1>2, <1>3
<1>5. elems * (q * threads) = q * block
  BY <1>2 DEF block
<1>6. n <= elems * (q * threads + last)
  BY <1>1, <1>2, <1>3, <1>4, <1>5
<1> QED BY <1>6 DEF last, q, rest, block

\* The instructions that the build checks are those that the accounting counts.
LEMMA AuditedIsCounted ==
  ASSUME NEW c, c.m \in Manifest
  PROVE  Counted(c)[2] = Audited(c.m)
<1> DEFINE m == c.m
<1>1. CASE m.family = "memory"
  <2>1. m.op \in {0, 1, 2, 3, 4, 5, 6}
    BY <1>1, Family, MemoryFields
  <2>2. ArraysPerOp[m.op + 1] = Accesses(m.op)
    BY <2>1 DEF Accesses, ArraysPerOp, Read, DotOp
  <2> QED BY <1>1, <2>2 DEF Counted, Audited
<1>2. CASE m.family \in {"alu", "dot", "matrix", "texture", "latency"}
  BY <1>2 DEF Counted, Audited
<1>3. CASE m.family = "shared"
  <2>1. \/ m.kind = "bw" /\ m.op \in {0, 2} /\ m.accumulators \in {4, 8, 16, 32}
        \/ m.kind = "crosslane" /\ m.op \in {0, 1} /\ m.accumulators = 1
    BY <1>3, Family, SharedFields
  <2> QED BY <1>3, <2>1 DEF Counted, Audited
<1>4. CASE m.family = "ert"
  <2>1. m.flops_per_element \in Flops
    BY <1>4, Family, ErtFields
  <2> DEFINE f == m.flops_per_element
             full == m.full_unroll
  <2>2. f \in {1, 2, 4, 8, 16, 32, 64, 128, 256, 512, 1024}
    BY SMT, <2>1 DEF Flops
  <2>3. Steps(m) = f \/ (f > 32 /\ Steps(m) = 32)
    BY SMT, <2>2 DEF Steps
  <2>4. Steps(m) * (f \div Steps(m)) = f
    <3> HIDE DEF f
    <3> QED BY SMT, <2>2, <2>3
  <2> QED BY SMT, <1>4, <2>4 DEF Counted, Audited
<1> QED BY <1>1, <1>2, <1>3, <1>4, Family

\* The accounting of a sound configuration is conservative, family by family.
LEMMA SoundIsConservative ==
  ASSUME NEW dev \in Devices, NEW c, Sound(dev, c)
  PROVE  Conservative(dev, c)
<1> DEFINE m == c.m
           threads == Threads(c)
<1>1. /\ m \in Manifest /\ c.wg \in Nat \ {0} /\ c.groups \in Nat \ {0} /\ c.n \in Nat
      /\ c.replicas \in Nat \ {0} /\ c.replicas <= c.groups
      /\ c.subgroup = (IF c.m.family = "matrix" THEN dev.subgroup ELSE 0)
  BY DEF Sound, Configuration
<1>2. threads \in Nat \ {0} /\ c.replicas <= threads
  <2>1. threads = c.wg * c.groups
    BY DEF Threads
  <2>2. c.groups <= c.wg * c.groups /\ c.wg * c.groups \in Nat
    BY <1>1
  <2> HIDE DEF threads
  <2> QED BY <1>1, <2>1, <2>2
<1>3. Counted(c)[1] <= Visits(dev, c)
  <2>1. CASE m.family = "memory"
    <3>1. Counted(c)[1] = c.n * c.replicas
      BY <2>1 DEF Counted
    <3>2. Visits(dev, c) = c.n * (threads \div (threads \div c.replicas))
      BY <2>1 DEF Visits
    <3> HIDE DEF threads
    <3> QED BY <1>1, <1>2, <3>1, <3>2, ReplicaVisits
  <2>2. CASE m.family \in {"alu", "dot", "shared"}
    <3>1. Counted(c)[1] = threads /\ Visits(dev, c) = threads
      BY <2>2 DEF Counted, Visits
    <3> HIDE DEF threads
    <3> QED BY <1>2, <3>1
  <2>3. CASE m.family = "matrix"
    <3> DEFINE tiles == c.groups * (c.wg \div dev.subgroup)
    <3>1. Counted(c)[1] = tiles /\ Visits(dev, c) = tiles
      BY <1>1, <2>3 DEF Counted, Visits, Subgroups
    <3>2. dev.subgroup \in Nat \ {0}
      BY PlanningAssumption
    <3>3. tiles \in Int
      BY <1>1, <3>2
    <3> HIDE DEF tiles
    <3> QED BY <3>1, <3>3
  <2>4. CASE m.family = "texture"
    BY <1>1, <2>4 DEF Counted, Visits
  <2>5. CASE m.family = "latency"
    BY <1>1, <2>5 DEF Counted, Visits
  <2>6. CASE m.family = "ert"
    <3>1. m.elems \in {4, 8, 16}
      BY <1>1, <2>6, Family, ErtFields
    <3>2. Counted(c)[1] = c.n
      BY <2>6 DEF Counted
    <3>3. Visits(dev, c) = ErtVisits(c)
      BY <2>6 DEF Visits
    <3>4. ErtVisits(c) = m.elems * ((c.n \div (m.elems * threads)) * threads
                                    + Least(c.n % (m.elems * threads), threads))
      BY DEF ErtVisits
    <3> HIDE DEF threads
    <3>5. c.n <= m.elems * ((c.n \div (m.elems * threads)) * threads
                            + Least(c.n % (m.elems * threads), threads))
      BY <1>1, <1>2, <3>1, BlocksCover
    <3> QED BY <3>2, <3>3, <3>4, <3>5
  <2> QED BY <1>1, <2>1, <2>2, <2>3, <2>4, <2>5, <2>6, Family
<1>4. Counted(c)[2] = Audited(m)
  BY <1>1, AuditedIsCounted
<1> QED BY <1>3, <1>4 DEF Conservative, Executed

-----------------------------------------------------------------------------
(* A plan, whatever was selected of it. *)

PlanRows(dev, lv) == UNION {Rows(ShortStages[j], dev, lv) : j \in 1..11}

PlanRow(dev, r) ==
  /\ SoundRow(dev, r)
  /\ r.tag \in WalkTags /\ PagesArePowers(dev) => Warm(r.c)

\* Rows of every stage are rows of a plan.
LEMMA StageRowsSound ==
  ASSUME NEW dev \in Devices, NEW lv, NEW j \in 1..11, NEW r \in Rows(ShortStages[j], dev, lv)
  PROVE  PlanRow(dev, r)
<1>1. \/ r \in Validate(dev, lv) \/ r \in FirstLook(dev, lv) \/ r \in CacheStage(dev, lv)
      \/ r \in MemoryStage(dev, lv) \/ r \in Compute(dev, lv) \/ r \in MatrixFeed(dev, lv)
      \/ r \in TextureStage(dev, lv) \/ r \in SharedStage(dev, lv) \/ r \in LatencyStage(dev, lv)
      \/ r \in ErtStage(dev, lv) \/ r \in MemoryType(dev, lv)
  BY DEF Rows, ShortStages
<1>2. CASE r \in LatencyStage(dev, lv)
  BY <1>2, LatencySound DEF PlanRow
<1>3. CASE r \notin LatencyStage(dev, lv)
  <2>1. SoundRow(dev, r)
    BY <1>1, <1>3, ValidateSound, FirstLookSound, CacheSound, MemorySound, ComputeSound,
       FeedSound, TextureSound, SharedSound, ErtSound, MemoryTypeSound
  <2>2. r.tag \notin WalkTags
    <3>1. r.tag \in {"validate", "first-look", "sweep-cache", "sweep-memory", "sweep-compute",
                     "sweep-matrix-feed", "sweep-texture", "sweep-shared", "ert",
                     "control-memory-type"}
      <4>1. r \in Validate(dev, lv) => r.tag = "validate"
        BY ValidateRows
      <4>2. r \in FirstLook(dev, lv) => r.tag = "first-look"
        BY FirstLookRows
      <4>3. r \in CacheStage(dev, lv) => r.tag = "sweep-cache"
        BY CacheRows
      <4>4. r \in MemoryStage(dev, lv) => r.tag = "sweep-memory"
        BY MemoryRows
      <4>5. r \in Compute(dev, lv) => r.tag = "sweep-compute"
        BY ComputeRows
      <4>6. r \in MatrixFeed(dev, lv) => r.tag = "sweep-matrix-feed"
        BY FeedRows
      <4>7. r \in TextureStage(dev, lv) => r.tag = "sweep-texture"
        BY TextureRows
      <4>8. r \in SharedStage(dev, lv) => r.tag = "sweep-shared"
        BY SharedRows
      <4>9. r \in ErtStage(dev, lv) => r.tag = "ert"
        BY ErtRows
      <4>10. r \in MemoryType(dev, lv) => r.tag = "control-memory-type"
        BY MemoryTypeRows
      <4> QED BY <1>1, <1>3, <4>1, <4>2, <4>3, <4>4, <4>5, <4>6, <4>7, <4>8, <4>9, <4>10
    <3> QED BY <3>1 DEF WalkTags
  <2> QED BY <2>1, <2>2 DEF PlanRow
<1> QED BY <1>2, <1>3

\* Likewise all of them.
LEMMA PlanRowsSound ==
  ASSUME NEW dev \in Devices, NEW lv, NEW r \in PlanRows(dev, lv)
  PROVE  PlanRow(dev, r)
<1>1. PICK j \in 1..11 : r \in Rows(ShortStages[j], dev, lv)
  BY DEF PlanRows
<1> QED BY <1>1, StageRowsSound

-----------------------------------------------------------------------------
(* Replay. *)

\* The roof of a result depends on the variant, the size and the kind of memory.
LEMMA KeyDependsOn ==
  ASSUME NEW tag, NEW a, NEW b, a.m = b.m, a.n = b.n, a.memory_mode = b.memory_mode,
         (tag = "sweep-cache" \/ a.role = "cache") <=> (tag = "sweep-cache" \/ b.role = "cache")
  PROVE  RoofKey(tag, a) = RoofKey(tag, b)
<1>1. WorkingSet(a) = WorkingSet(b)
  BY DEF WorkingSet
<1>2. IsControl(a) <=> IsControl(b)
  BY DEF IsControl
<1>3. FeedKey(a) = FeedKey(b)
  BY <1>1 DEF FeedKey
<1>4. TextureKey(a) = TextureKey(b)
  BY <1>1 DEF TextureKey
<1>5. CacheSized(a) <=> CacheSized(b)
  BY <1>1 DEF CacheSized
<1> QED BY <1>1, <1>2, <1>3, <1>4, <1>5 DEF RoofKey

\* The configuration that a replay plans.
LEMMA ParametersFields ==
  ASSUME NEW dev \in Devices, NEW m \in Manifest, NEW old \in Configuration
  PROVE  LET c == Parameters(dev, m, old) IN
         /\ c \in Configuration
         /\ c.m = m /\ c.wg = old.wg /\ c.groups = old.groups /\ c.n = old.n /\ c.loops = old.loops
         /\ c.stride = old.stride /\ c.replicas = old.replicas /\ c.memory_mode = old.memory_mode
         /\ c.node = old.node /\ c.order = old.order /\ c.role = old.role
         /\ c.shared_count = (IF m.family = "shared" /\ m.kind = "bw"
                                THEN Most(old.shared_count, old.wg * m.accumulators)
                                ELSE old.shared_count)
         /\ c.calibrate = TRUE /\ c.repeat = 0
<1> DEFINE b == Base(dev, m)
           count == IF m.family = "shared" /\ m.kind = "bw"
                      THEN Most(old.shared_count, old.wg * m.accumulators) ELSE old.shared_count
           c == [b EXCEPT
                   !.wg = old.wg, !.groups = old.groups, !.n = old.n, !.loops = old.loops,
                   !.stride = old.stride, !.replicas = old.replicas, !.memory_mode = old.memory_mode,
                   !.node = old.node, !.order = old.order, !.role = old.role,
                   !.shared_count = count]
<1>1. b \in Configuration /\ b.m = m /\ Usual(b)
  BY BaseFields DEF Common
<1>2. /\ old.wg \in Nat \ {0} /\ old.groups \in Nat \ {0} /\ old.n \in Nat /\ old.loops \in Nat \ {0}
      /\ old.stride \in Nat /\ old.replicas \in Nat \ {0}
      /\ old.memory_mode \in {"device_local", "host_coherent"}
      /\ old.node \in Nat \ {0} /\ old.order \in {"random", "sequential"}
      /\ old.role \in {"none", "cache"} /\ old.shared_count \in Nat
  BY DEF Configuration
<1>3. count \in Nat
  <2>1. CASE m.family = "shared" /\ m.kind = "bw"
    <3>1. m.accumulators \in {4, 8, 16, 32}
      BY <2>1, Family, SharedFields
    <3>2. old.wg * m.accumulators \in Nat
      BY <1>2, <3>1
    <3> QED BY <1>2, <2>1, <3>2 DEF Most
  <2>2. CASE ~(m.family = "shared" /\ m.kind = "bw")
    BY <1>2, <2>2
  <2> QED BY <2>1, <2>2
<1> HIDE DEF b, count
<1>4. c \in Configuration
  BY ONLY Zenon, <1>1, <1>2, <1>3 DEF Configuration
<1>5. /\ c.m = b.m /\ c.wg = old.wg /\ c.groups = old.groups /\ c.n = old.n /\ c.loops = old.loops
      /\ c.stride = old.stride /\ c.replicas = old.replicas /\ c.memory_mode = old.memory_mode
      /\ c.node = old.node /\ c.order = old.order /\ c.role = old.role /\ c.shared_count = count
      /\ c.calibrate = b.calibrate /\ c.repeat = b.repeat
  BY <1>1 DEF Configuration
<1> HIDE DEF c
<1>6. Parameters(dev, m, old) = c
  BY DEF Parameters, c, b, count
<1>7. /\ c.m = m /\ c.calibrate = TRUE /\ c.repeat = 0
  BY <1>1, <1>5 DEF Usual
<1> QED BY <1>4, <1>5, <1>6, <1>7 DEF count

\* ReplayIsFaithful, of one replay.
Faithful(old, new) ==
  /\ new.tag = old.tag
  /\ [new.c EXCEPT !.role = "none", !.subgroup = old.c.subgroup] = old.c
  /\ RoofKey(new.tag, new.c) = RoofKey(old.tag, old.c)

\* A replay of a row that was exported is faithful to it.
LEMMA ReplayOfRow ==
  ASSUME NEW dev \in Devices, NEW there \in Devices, NEW r, SoundRow(dev, r),
         r.tag \in SweepTags, RunnerAccepts(dev, r.c)
  PROVE  LET c == Parameters(there, r.c.m, Exported(r)) IN Faithful(r, Row(ReplayTag(c), c))
<1> DEFINE old == Exported(r)
           c == Parameters(there, r.c.m, old)
           a == r.c
           m == a.m
           tag == r.tag
<1>1. a \in Configuration /\ a.role = "none" /\ Usual(a) /\ Belongs(tag, m)
  BY DEF SoundRow, Sound
<1>2. m \in Manifest
  BY <1>1 DEF Configuration
<1>3. /\ old \in Configuration
      /\ old.wg = a.wg /\ old.groups = a.groups /\ old.n = a.n /\ old.loops = a.loops
      /\ old.stride = a.stride /\ old.replicas = a.replicas /\ old.memory_mode = a.memory_mode
      /\ old.node = a.node /\ old.order = a.order /\ old.shared_count = a.shared_count
      /\ old.role = (IF tag = "sweep-cache" THEN "cache" ELSE "none")
  <2> DEFINE role == IF tag = "sweep-cache" THEN "cache" ELSE "none"
  <2>1. role \in {"none", "cache"}
    OBVIOUS
  <2>2. old = [a EXCEPT !.role = role]
    BY DEF Exported
  <2> HIDE DEF role, old, a
  <2>3. old \in Configuration
    BY <1>1, <2>1, <2>2, SetRole
  <2>4. /\ old.wg = a.wg /\ old.groups = a.groups /\ old.n = a.n /\ old.loops = a.loops
        /\ old.stride = a.stride /\ old.replicas = a.replicas /\ old.memory_mode = a.memory_mode
        /\ old.node = a.node /\ old.order = a.order /\ old.shared_count = a.shared_count
        /\ old.role = role
    BY <1>1, <2>2 DEF Configuration
  <2> QED BY <2>3, <2>4 DEF role
<1> HIDE DEF old
<1>4. m.family = "shared" /\ m.kind = "bw" =>
        Most(a.shared_count, a.wg * m.accumulators) = a.shared_count
  <2>1. SUFFICES ASSUME m.family = "shared" /\ m.kind = "bw"
                 PROVE  Most(a.shared_count, a.wg * m.accumulators) = a.shared_count
    OBVIOUS
  <2>2. a.shared_count >= a.wg * m.accumulators
    BY <2>1 DEF RunnerAccepts
  <2> QED BY <2>2 DEF Most
<1>5. /\ c \in Configuration
      /\ c.m = m /\ c.wg = a.wg /\ c.groups = a.groups /\ c.n = a.n /\ c.loops = a.loops
      /\ c.stride = a.stride /\ c.replicas = a.replicas /\ c.memory_mode = a.memory_mode
      /\ c.node = a.node /\ c.order = a.order /\ c.shared_count = a.shared_count
      /\ c.role = (IF tag = "sweep-cache" THEN "cache" ELSE "none")
      /\ c.calibrate = TRUE /\ c.repeat = 0
  <2>1. /\ c \in Configuration
        /\ c.m = m /\ c.wg = old.wg /\ c.groups = old.groups /\ c.n = old.n /\ c.loops = old.loops
        /\ c.stride = old.stride /\ c.replicas = old.replicas /\ c.memory_mode = old.memory_mode
        /\ c.node = old.node /\ c.order = old.order /\ c.role = old.role
        /\ c.shared_count = (IF m.family = "shared" /\ m.kind = "bw"
                               THEN Most(old.shared_count, old.wg * m.accumulators)
                               ELSE old.shared_count)
        /\ c.calibrate = TRUE /\ c.repeat = 0
    BY <1>2, <1>3, ParametersFields
  <2> HIDE DEF c
  <2> QED BY <1>3, <1>4, <2>1
<1> HIDE DEF c
<1>6. ReplayTag(c) = tag
  <2>1. tag \in SweepTags
    OBVIOUS
  <2> HIDE DEF m, a
  <2> QED BY <1>1, <1>5, <2>1 DEF ReplayTag, Belongs, SweepTags
<1>7. [c EXCEPT !.role = "none", !.subgroup = a.subgroup] = a
  <2> DEFINE d == [c EXCEPT !.role = "none", !.subgroup = a.subgroup]
  <2>1. a.subgroup \in Nat /\ "none" \in {"none", "cache"}
    BY <1>1 DEF Configuration
  <2>2. d \in Configuration
    BY ONLY Zenon, <1>5, <2>1 DEF Configuration
  <2>3. /\ d.m = c.m /\ d.wg = c.wg /\ d.groups = c.groups /\ d.n = c.n /\ d.loops = c.loops
        /\ d.stride = c.stride /\ d.replicas = c.replicas /\ d.memory_mode = c.memory_mode
        /\ d.node = c.node /\ d.order = c.order /\ d.shared_count = c.shared_count
        /\ d.role = "none" /\ d.subgroup = a.subgroup
        /\ d.calibrate = c.calibrate /\ d.repeat = c.repeat
    BY <1>5 DEF Configuration
  <2> HIDE DEF d
  <2> HIDE DEF a
  <2>4. /\ d.m = a.m /\ d.wg = a.wg /\ d.groups = a.groups /\ d.n = a.n /\ d.loops = a.loops
        /\ d.stride = a.stride /\ d.replicas = a.replicas /\ d.memory_mode = a.memory_mode
        /\ d.node = a.node /\ d.order = a.order /\ d.shared_count = a.shared_count
        /\ d.role = a.role /\ d.subgroup = a.subgroup /\ d.repeat = a.repeat
    BY <1>1, <1>5, <2>3 DEF Usual
  <2>5. d.calibrate = a.calibrate
    BY Zenon, <1>1, <1>5, <2>3 DEF Usual
  <2>6. d = a
    BY Zenon, <1>1, <2>2, <2>4, <2>5, SameConfiguration
  <2> QED BY <2>6 DEF d, a
<1>8. RoofKey(tag, c) = RoofKey(tag, a)
  BY <1>1, <1>5, KeyDependsOn
<1> QED BY <1>6, <1>7, <1>8 DEF Faithful, Row, c, old

-----------------------------------------------------------------------------
(* The selection of a run. *)

StageNames == {"validate", "first_look", "cache", "memory", "compute", "matrix_feed",
               "texture", "shared", "latency", "ert", "memory_type"}

\* What is collected are rows of stages already passed; a replay is that of a row.
SelectionInv ==
  /\ SelectionTypeOK
  /\ selected \in Seq([stage : StageNames, rows : SUBSET PlanRows(device, level)])
  /\ pc = "replayed" => Faithful(replay.old, replay.new)

\* There are eleven short stages.
LEMMA StageCount == Len(ShortStages) = 11
  BY DEF ShortStages

\* Their names.
LEMMA StageName ==
  ASSUME NEW j \in 1..11
  PROVE  ShortStages[j] \in StageNames
  BY DEF ShortStages, StageNames

\* The elements of a sequence.
LEMMA ElementOf ==
  ASSUME NEW S, NEW s \in Seq(S), NEW i \in DOMAIN s
  PROVE  s[i] \in S
  OBVIOUS

\* What was selected are rows of the plan.
LEMMA PlannedRows ==
  ASSUME SelectionInv, NEW r \in Planned
  PROVE  r \in PlanRows(device, level) /\ PlanRow(device, r)
<1>1. PICK i \in DOMAIN selected : r \in selected[i].rows
  BY DEF Planned
<1>2. selected[i] \in [stage : StageNames, rows : SUBSET PlanRows(device, level)]
  BY <1>1, ElementOf DEF SelectionInv
<1>3. r \in PlanRows(device, level)
  BY <1>1, <1>2
<1>4. device \in Devices
  BY DEF SelectionInv, SelectionTypeOK
<1> QED BY <1>3, <1>4, PlanRowsSound

\* The invariant holds initially;
LEMMA SelectionInitInv == SelectionInit => SelectionInv
<1> SUFFICES ASSUME SelectionInit PROVE SelectionInv
  OBVIOUS
<1>1. at \in 1..(Len(ShortStages) + 1)
  BY StageCount DEF SelectionInit
<1>2. \A i \in DOMAIN selected : FALSE
  BY DEF SelectionInit
<1>3. SelectionTypeOK
  BY <1>1, <1>2 DEF SelectionInit, SelectionTypeOK
<1>4. selected \in Seq([stage : StageNames, rows : SUBSET PlanRows(device, level)])
  BY DEF SelectionInit
<1> QED BY <1>3, <1>4 DEF SelectionInv, SelectionInit

\* a request keeps it,
LEMMA RequestInv ==
  ASSUME SelectionInv, Request
  PROVE  SelectionInv'
  BY DEF SelectionInv, SelectionTypeOK, Request

\* the end of a selection,
LEMMA FinishInv ==
  ASSUME SelectionInv, Finish
  PROVE  SelectionInv'
  BY DEF SelectionInv, SelectionTypeOK, Finish

\* a stage that is collected,
LEMMA CollectInv ==
  ASSUME SelectionInv, Collect
  PROVE  SelectionInv'
<1> DEFINE stage == ShortStages[at]
           rows == {r \in Rows(stage, device, level) :
                      Selects(selector.families, r.c.m.family) /\ Selects(selector.variants, r.c.m)}
           entry == [stage |-> stage, rows |-> rows]
           entries == [stage : StageNames, rows : SUBSET PlanRows(device, level)]
<1>1. /\ pc = "collect" /\ at \in 1..11 /\ at' = at + 1
      /\ UNCHANGED <<pc, device, level, selector, replay>>
      /\ device \in Devices /\ selected \in Seq(entries)
  BY StageCount DEF SelectionInv, SelectionTypeOK, Collect
<1>2. selected' = Append(selected, entry) \/ selected' = selected
  BY DEF Collect
<1>3. rows \subseteq PlanRows(device, level) /\ stage \in StageNames
  BY <1>1, StageName DEF PlanRows
<1> HIDE DEF rows, stage
<1>4. entry \in entries
  BY <1>3
<1>5. selected' \in Seq(entries)
  <2> HIDE DEF entry, entries
  <2> QED BY <1>1, <1>2, <1>4
<1>6. ASSUME NEW i \in DOMAIN selected'
      PROVE  selected'[i] = entry \/ (i \in DOMAIN selected /\ selected'[i] = selected[i])
  <2> HIDE DEF entry, entries
  <2> QED BY <1>1, <1>2, <1>4
<1>7. \A i \in DOMAIN selected : selected[i].stage \in {ShortStages[j] : j \in 1..(at - 1)}
  BY DEF SelectionInv, SelectionTypeOK
<1>8. ASSUME NEW i \in DOMAIN selected'
      PROVE  selected'[i].stage \in {ShortStages[j] : j \in 1..(at' - 1)}
  <2>1. 1..(at' - 1) = 1..at /\ at \in 1..at /\ 1..(at - 1) \subseteq 1..at
    BY <1>1
  <2>2. CASE selected'[i] = entry
    <3>1. selected'[i].stage = ShortStages[at]
      BY <2>2 DEF stage
    <3> QED BY <2>1, <3>1
  <2>3. CASE i \in DOMAIN selected /\ selected'[i] = selected[i]
    BY <1>7, <2>1, <2>3
  <2> QED BY <1>6, <2>2, <2>3
<1>9. ASSUME NEW i \in DOMAIN selected', NEW r \in selected'[i].rows
      PROVE  r.c.m \in Manifest /\ {r.c.wg, r.c.groups, r.c.loops} \subseteq Nat \ {0}
  <2>1. selected'[i] \in entries
    <3> HIDE DEF entries
    <3> QED BY <1>5, ElementOf
  <2>2. r \in PlanRows(device, level)
    BY <2>1
  <2>3. r.c \in Configuration
    BY <1>1, <2>2, PlanRowsSound DEF PlanRow, SoundRow, Sound
  <2> QED BY <2>3 DEF Configuration
<1>10. SelectionTypeOK'
  <2>1. at' \in 1..(Len(ShortStages) + 1)
    BY <1>1, StageCount
  <2> HIDE DEF entries, entry
  <2> QED BY <1>1, <1>8, <1>9, <2>1 DEF SelectionInv, SelectionTypeOK
<1> QED BY <1>1, <1>5, <1>10 DEF SelectionInv

\* and a replay;
LEMMA ReplayInv ==
  ASSUME SelectionInv, Replay
  PROVE  SelectionInv'
<1>1. PICK there \in Devices, r \in Exportable(device) :
        LET old == Exported(r)
            c == Parameters(there, r.c.m, old)
        IN IF Replayable(there, old)
             THEN /\ pc' = "replayed"
                  /\ device' = there
                  /\ replay' = [old |-> r, new |-> Row(ReplayTag(c), c)]
             ELSE pc' = "refused" /\ UNCHANGED <<device, replay>>
  BY DEF Replay
<1>2. /\ pc = "planned" /\ selected' = <<>> /\ UNCHANGED <<level, selector, at>>
      /\ device \in Devices /\ level \in Levels /\ selector \in Selectors
      /\ at \in 1..(Len(ShortStages) + 1) /\ replay = NoReplay
  BY DEF Replay, SelectionInv, SelectionTypeOK
<1>3. r \in Planned /\ r.tag \in SweepTags /\ RunnerAccepts(device, r.c)
  BY <1>1 DEF Exportable, SweepTags
<1>4. SoundRow(device, r)
  BY <1>3, PlannedRows DEF PlanRow
<1>5. \A i \in DOMAIN selected' : FALSE
  BY <1>2
<1>6. selected' \in Seq([stage : StageNames, rows : SUBSET PlanRows(device', level')])
  BY <1>2
<1> DEFINE c == Parameters(there, r.c.m, Exported(r))
           new == Row(ReplayTag(c), c)
<1>7. Faithful(r, new)
  BY <1>1, <1>2, <1>3, <1>4, ReplayOfRow
<1> HIDE DEF c
<1>8. CASE pc' = "replayed" /\ device' = there /\ replay' = [old |-> r, new |-> new]
  <2>1. replay'.old = r /\ replay'.new = new
    BY <1>8
  <2>2. replay' # NoReplay
    <3>1. replay'.new.tag = ReplayTag(c) /\ DOMAIN replay'.new = {"tag", "c"}
      BY <2>1 DEF Row
    <3>2. NoReplay.new = <<>> /\ DOMAIN <<>> = {}
      BY DEF NoReplay, None
    <3> QED BY <3>1, <3>2
  <2>3. SelectionTypeOK'
    BY <1>2, <1>5, <1>8, <2>2 DEF SelectionTypeOK
  <2> QED BY <1>6, <1>7, <2>1, <2>3 DEF SelectionInv
<1>9. CASE pc' = "refused" /\ UNCHANGED <<device, replay>>
  <2>1. SelectionTypeOK'
    BY <1>2, <1>5, <1>9 DEF SelectionTypeOK
  <2> QED BY <1>6, <1>9, <2>1 DEF SelectionInv
<1> QED BY <1>1, <1>8, <1>9 DEF c

\* hence every step,
LEMMA SelectionInvStep == SelectionInv /\ [SelectionNext]_selectionVars => SelectionInv'
<1> SUFFICES ASSUME SelectionInv, [SelectionNext]_selectionVars PROVE SelectionInv'
  OBVIOUS
<1>1. CASE UNCHANGED selectionVars
  BY <1>1 DEF SelectionInv, SelectionTypeOK, selectionVars
<1> QED BY <1>1, RequestInv, CollectInv, FinishInv, ReplayInv DEF SelectionNext

\* and it holds always.
LEMMA SelectionInvHolds == SelectionSpec => []SelectionInv
  BY SelectionInitInv, SelectionInvStep, PTL DEF SelectionSpec

\* Every plan names known variants and launches that are not empty, stage after stage, and is
\* refused when nothing is selected.
THEOREM SelectionTyped == SelectionSpec => []SelectionTypeOK
<1>1. SelectionInv => SelectionTypeOK
  BY DEF SelectionInv
<1> QED BY <1>1, SelectionInvHolds, PTL

\* Whatever the device and the selection, the accounting of a planned launch counts no work
\* that the shader does not do.
THEOREM RatesConservative == SelectionSpec => []RatesAreConservative
<1>1. SelectionInv => RatesAreConservative
  <2> SUFFICES ASSUME SelectionInv, NEW r \in Planned PROVE Conservative(device, r.c)
    BY DEF RatesAreConservative, Conservative
  <2>1. Sound(device, r.c) /\ device \in Devices
    BY PlannedRows DEF PlanRow, SoundRow, SelectionInv, SelectionTypeOK
  <2> QED BY <2>1, SoundIsConservative
<1> QED BY <1>1, SelectionInvHolds, PTL

\* Where a page holds a power of two of bytes, the walks of latency are short enough for the
\* watchdog and, where they can be, warm.
THEOREM WalksWarm ==
  ASSUME \A dev \in Devices : PagesArePowers(dev)
  PROVE  SelectionSpec => []WalksAreWarm
<1>1. SelectionInv => WalksAreWarm
  <2> SUFFICES ASSUME SelectionInv, NEW r \in Planned, r.tag \in WalkTags PROVE Warm(r.c)
    BY DEF WalksAreWarm, Warm, WalkTags
  <2>1. device \in Devices
    BY DEF SelectionInv, SelectionTypeOK
  <2> QED BY <2>1, PlannedRows DEF PlanRow
<1> QED BY <1>1, SelectionInvHolds, PTL

\* A replay of any row that can define a roof, on any device, is that row again: its tag, its
\* launch, its data and its roof.
THEOREM ReplayFaithful == SelectionSpec => []ReplayIsFaithful
<1>1. SelectionInv => ReplayIsFaithful
  BY DEF SelectionInv, ReplayIsFaithful, Faithful
<1> QED BY <1>1, SelectionInvHolds, PTL

-----------------------------------------------------------------------------
(* The two readers of a result. *)

\* The report's name of a roof, and back.
Renamed(key) ==
  CASE key[1] = "memory" -> <<"global", key[3], FALSE, "device_local">>
    [] key[1] = "shared" -> <<"shared", key[2], IF key[3] = 0 THEN "read" ELSE "write">>
    [] OTHER -> key

Unrenamed(name) ==
  CASE name[1] = "global" -> <<"memory", "fp32", name[2]>>
    [] name[1] = "shared" -> <<"shared", name[2], IF name[3] = "read" THEN 0 ELSE 2>>
    [] OTHER -> name

\* KeysAgree, of one row.
Agrees(r) ==
  LET key == RoofKey(r.tag, r.c)
      reported == Reported(r.tag, r.c)
  IN /\ (key = None) <=> (reported.key = None \/ reported.control)
     /\ key # None => /\ RatedBy(r.c) = reported.work
                      /\ reported.key = Renamed(key) /\ key = Unrenamed(reported.key)

\* The parts of a row of the report.
LEMMA ReportFields ==
  ASSUME NEW key, NEW work, NEW reported, reported = [key |-> key, work |-> work, control |-> FALSE]
  PROVE  reported.key = key /\ reported.work = work /\ ~reported.control
<1>1. reported.key = key /\ reported.work = work
  BY SMT
<1>2. ~reported.control
  BY Zenon
<1> QED BY <1>1, <1>2

\* A key that neither reader changes.
LEMMA SameKey ==
  ASSUME NEW r, NEW key, key # None => key[1] \notin {"memory", "shared", "global"},
         RoofKey(r.tag, r.c) = key, NEW work, key # None => RatedBy(r.c) = work,
         Reported(r.tag, r.c) = [key |-> key, work |-> work, control |-> FALSE]
  PROVE  Agrees(r)
<1> DEFINE reported == Reported(r.tag, r.c)
<1>1. reported.key = key /\ reported.work = work /\ ~reported.control
  BY ReportFields
<1>2. CASE key = None
  BY Zenon, <1>1, <1>2 DEF Agrees
<1>3. CASE key # None
  <2>1. Renamed(key) = key
    BY <1>3 DEF Renamed
  <2>2. Unrenamed(key) = key
    BY <1>3 DEF Unrenamed
  <2>3. RatedBy(r.c) = work
    BY <1>3
  <2> QED BY Zenon, <1>1, <1>3, <2>1, <2>2, <2>3 DEF Agrees
<1> QED BY <1>2, <1>3

\* Memory and cache rows,
LEMMA MemoryAgrees ==
  ASSUME NEW dev \in Devices, NEW r, SoundRow(dev, r),
         r.tag \in SweepTags, r.c.m.family = "memory"
  PROVE  Agrees(r)
<1> DEFINE c == r.c
           m == c.m
<1>1. /\ c.role = "none" /\ c.memory_mode = "device_local" /\ m \in Memory
      /\ r.tag \in {"sweep-cache", "sweep-memory"}
      /\ r.tag = "sweep-cache" => ~m.volatile_global
  BY Family DEF SoundRow, Sound, Usual, Belongs, Configuration, SweepTags
<1>2. RatedBy(c) = "global"
  BY DEF RatedBy
<1>3. m.volatile_global \in BOOLEAN /\ m.dtype = "fp32"
  BY <1>1, MemoryFields
<1>4. CASE r.tag = "sweep-cache"
  <2>1. CASE CacheSized(c)
    <3>1. RoofKey(r.tag, c) = <<"cache_read_effective">>
      BY <1>1, <1>4, <2>1 DEF RoofKey, IsControl
    <3>2. Reported(r.tag, c) = [key |-> <<"cache_read_effective">>, work |-> "global", control |-> FALSE]
      BY <1>1, <1>4, <2>1 DEF Reported, Metric
    <3> QED BY <1>2, <3>1, <3>2, SameKey
  <2>2. CASE ~CacheSized(c)
    <3>1. RoofKey(r.tag, c) = None
      BY <1>1, <1>4, <2>2 DEF RoofKey, IsControl
    <3>2. Reported(r.tag, c) = [key |-> None, work |-> "none", control |-> FALSE]
      BY <1>1, <1>4, <2>2 DEF Reported
    <3> QED BY <3>1, <3>2, SameKey
  <2> QED BY <2>1, <2>2
<1>5. CASE r.tag = "sweep-memory"
  <2>1. CASE ~(WorkingSet(c) >= 256 * MiB)
    <3>1. RoofKey(r.tag, c) = None
      BY <1>1, <1>5, <2>1 DEF RoofKey
    <3>2. Reported(r.tag, c) = [key |-> None, work |-> "none", control |-> FALSE]
      BY <1>1, <1>5, <2>1 DEF Reported
    <3> QED BY <3>1, <3>2, SameKey
  <2>2. CASE WorkingSet(c) >= 256 * MiB /\ m.volatile_global
    <3>1. RoofKey(r.tag, c) = None
      BY <1>1, <2>2 DEF RoofKey, IsControl
    <3>2. Reported(r.tag, c) = Metric(c, FALSE)
      BY <1>1, <1>5, <2>2 DEF Reported
    <3>3. Metric(c, FALSE).control
      BY Zenon, <2>2 DEF Metric
    <3> QED BY <3>1, <3>2, <3>3 DEF Agrees
  <2>3. CASE WorkingSet(c) >= 256 * MiB /\ ~m.volatile_global
    <3>1. RoofKey(r.tag, c) = <<"memory", "fp32", m.op>>
      BY <1>1, <1>3, <1>5, <2>3 DEF RoofKey, IsControl
    <3>2. Reported(r.tag, c) = Metric(c, FALSE)
      BY <1>1, <1>5, <2>3 DEF Reported
    <3>3. m.volatile_global = FALSE
      BY Zenon, <1>3, <2>3
    <3>4. Metric(c, FALSE) = [key |-> <<"global", m.op, FALSE, "device_local">>, work |-> "global", control |-> FALSE]
      BY <1>1, <3>3 DEF Metric
    <3> DEFINE key == <<"memory", "fp32", m.op>>
               name == <<"global", m.op, FALSE, "device_local">>
    <3>9. Metric(c, FALSE) = [key |-> name, work |-> "global", control |-> FALSE]
      BY Zenon, <3>4
    <3>5. Renamed(key) = name
      BY DEF Renamed
    <3>6. Unrenamed(name) = key
      BY DEF Unrenamed
    <3>7. key # None /\ name # None
      BY DEF None
    <3>10. Reported(r.tag, c) = [key |-> name, work |-> "global", control |-> FALSE]
      BY ONLY <3>2, <3>9
    <3> HIDE DEF key, name
    <3>8. /\ Reported(r.tag, c).key = name /\ Reported(r.tag, c).work = "global"
          /\ ~Reported(r.tag, c).control
      BY ONLY <3>10, ReportFields
    <3> QED BY Zenon, <1>2, <3>1, <3>5, <3>6, <3>7, <3>8 DEF Agrees, key
  <2> QED BY <2>1, <2>2, <2>3
<1> QED BY <1>1, <1>4, <1>5

\* those of shared memory,
LEMMA SharedAgrees ==
  ASSUME NEW dev \in Devices, NEW r, SoundRow(dev, r),
         r.tag \in SweepTags, r.c.m.family = "shared"
  PROVE  Agrees(r)
<1> DEFINE c == r.c
           m == c.m
<1>1. c.memory_mode = "device_local" /\ m \in Shared
  BY Family DEF SoundRow, Sound, Usual, Configuration
<1>2. \/ m.kind = "bw" /\ m.op \in {0, 2}
      \/ m.kind = "crosslane" /\ m.op \in {0, 1}
  BY <1>1, SharedFields
<1>3. Reported(r.tag, c) = Metric(c, c.role = "cache" \/ r.tag = "sweep-cache")
  BY DEF Reported
<1>4. CASE m.kind = "bw"
  <2> DEFINE name == <<"shared", m.dtype, IF m.op = 0 THEN "read" ELSE "write">>
  <2>1. RoofKey(r.tag, c) = <<"shared", m.dtype, m.op>>
    BY <1>1, <1>4 DEF RoofKey, IsControl
  <2>2. Reported(r.tag, c) = [key |-> name, work |-> "shared", control |-> FALSE]
    BY <1>2, <1>3, <1>4 DEF Metric
  <2>3. RatedBy(c) = "shared"
    BY DEF RatedBy
  <2> QED BY <1>2, <1>4, <2>1, <2>2, <2>3 DEF Agrees, Renamed, Unrenamed, None
<1>5. CASE m.kind # "bw"
  <2>1. RoofKey(r.tag, c) = None
    BY <1>5 DEF RoofKey, IsControl
  <2>2. Metric(c, c.role = "cache" \/ r.tag = "sweep-cache").control
    BY <1>5 DEF Metric
  <2> QED BY <1>3, <2>1, <2>2 DEF Agrees
<1> QED BY <1>4, <1>5

\* and all others.
LEMMA OthersAgree ==
  ASSUME NEW dev \in Devices, NEW r, SoundRow(dev, r),
         r.tag \in SweepTags, r.c.m.family \notin {"memory", "shared"}
  PROVE  Agrees(r)
<1> DEFINE c == r.c
           m == c.m
<1>1. /\ c.memory_mode = "device_local" /\ m \in Manifest
      /\ m.family \in {"alu", "dot", "matrix", "texture"}
      /\ m.family = "matrix" => m.feed \in {"none", "shared", "global"}
  BY Family, MatrixFields DEF SoundRow, Sound, Usual, Belongs, Configuration, SweepTags
<1>2. ~IsControl(c)
  BY <1>1 DEF IsControl
<1>3. Reported(r.tag, c) = Metric(c, c.role = "cache" \/ r.tag = "sweep-cache")
  BY <1>1 DEF Reported
<1>4. CASE m.family \in {"alu", "dot"}
  <2>1. RoofKey(r.tag, c) = <<m.family, m.dtype>>
    BY <1>2, <1>4 DEF RoofKey
  <2>2. Reported(r.tag, c) = [key |-> <<m.family, m.dtype>>, work |-> "ops", control |-> FALSE]
    BY <1>3, <1>4 DEF Metric
  <2>3. RatedBy(c) = "ops"
    BY <1>4 DEF RatedBy, Streams
  <2> QED BY <1>4, <2>1, <2>2, <2>3, SameKey
<1>5. CASE m.family = "matrix"
  <2> DEFINE key == IF m.feed = "none" THEN <<"matrix", m.shape.dtype>> ELSE FeedKey(c)
             work == IF Streams(c) THEN "global" ELSE "ops"
  <2>1. RoofKey(r.tag, c) = key
    BY <1>2, <1>5 DEF RoofKey
  <2>2. Reported(r.tag, c) = [key |-> key, work |-> work, control |-> FALSE]
    BY <1>3, <1>5 DEF Metric, Streams
  <2>3. RatedBy(c) = work
    BY <1>5 DEF RatedBy
  <2>4. key[1] = "matrix"
    BY DEF FeedKey
  <2> HIDE DEF key, work
  <2> QED BY <2>1, <2>2, <2>3, <2>4, SameKey
<1>6. CASE m.family = "texture"
  <2> DEFINE key == TextureKey(c)
  <2>1. RoofKey(r.tag, c) = key
    BY <1>2, <1>6 DEF RoofKey
  <2>2. Reported(r.tag, c) = [key |-> key, work |-> "global", control |-> FALSE]
    BY <1>3, <1>6 DEF Metric
  <2>3. RatedBy(c) = "global"
    BY <1>6 DEF RatedBy
  <2>4. key # None => key[1] = "texture"
    BY DEF TextureKey
  <2> HIDE DEF key
  <2> QED BY <2>1, <2>2, <2>3, <2>4, SameKey
<1> QED BY <1>1, <1>4, <1>5, <1>6

\* The choice of roofs and the report name the same roofs, and rate them by the same work,
\* for every result of every sweep.
THEOREM ReadersAgree == SelectionSpec => []KeysAgree
<1>1. SelectionInv => KeysAgree
  <2> SUFFICES ASSUME SelectionInv, pc = "planned" PROVE KeysAgree
    BY DEF KeysAgree
  <2>1. \A r \in Swept : Agrees(r)
    <3> TAKE r \in Swept
    <3>1. r \in Planned /\ r.tag \in SweepTags
      BY DEF Swept, SweepTags
    <3>2. SoundRow(device, r) /\ device \in Devices
      BY <3>1, PlannedRows DEF PlanRow, SelectionInv, SelectionTypeOK
    <3> QED BY <3>1, <3>2, MemoryAgrees, SharedAgrees, OthersAgree
  <2> DEFINE name(r) == <<RoofKey(r.tag, r.c), RatedBy(r.c), Reported(r.tag, r.c)>>
  <2>2. ASSUME NEW r \in Swept, NEW s \in Swept
        PROVE  LET a == name(r)
                   b == name(s)
               IN /\ (a[1] = None) <=> (a[3].key = None \/ a[3].control)
                  /\ a[1] # None => a[2] = a[3].work
                  /\ a[1] # None /\ b[1] # None => ((a[1] = b[1]) <=> (a[3].key = b[3].key))
    <3>1. Agrees(r) /\ Agrees(s)
      BY <2>1
    <3> QED BY <3>1 DEF Agrees
  <2> HIDE DEF name
  <2>3. \A a, b \in {name(r) : r \in Swept} :
          /\ (a[1] = None) <=> (a[3].key = None \/ a[3].control)
          /\ a[1] # None => a[2] = a[3].work
          /\ a[1] # None /\ b[1] # None => ((a[1] = b[1]) <=> (a[3].key = b[3].key))
    BY <2>2
  <2> QED BY <2>3 DEF KeysAgree, name
<1> QED BY <1>1, SelectionInvHolds, PTL

-----------------------------------------------------------------------------
(* What the runner accepts of the launches of each family. *)

\* Products of bounded numbers are bounded.
LEMMA ProductBound ==
  ASSUME NEW a \in Nat, NEW b \in Nat, NEW x \in Nat, NEW y \in Nat, a <= x, b <= y
  PROVE  a * b \in Nat /\ a * b <= x * y
<1>1. a * b <= x * b
  BY SMT
<1>2. x * b <= x * y
  BY SMT
<1> QED BY SMT, <1>1, <1>2

\* Bytes that are divided into elements are not exceeded by them.
LEMMA QuotientBound ==
  ASSUME NEW size \in Nat, NEW d \in Nat \ {0}
  PROVE  size \div d \in Nat /\ (size \div d) * d <= size
  BY SMT

\* What fits as a product fits as a quotient.
LEMMA FitsInto ==
  ASSUME NEW size \in Nat, NEW d \in Nat \ {0}, NEW x \in Nat, x * d <= size
  PROVE  x <= size \div d
<1> DEFINE q == size \div d
<1>1. q \in Nat /\ size < (q + 1) * d
  BY SMT
<1> HIDE DEF q
<1>2. x * d < (q + 1) * d
  BY SMT, <1>1
<1>3. x < q + 1
  BY SMT, <1>1, <1>2
<1>4. x <= q
  BY SMT, <1>1, <1>3
<1> QED BY <1>4 DEF q

\* What Capable says in numbers.
LEMMA CapableLimits ==
  ASSUME NEW dev \in Devices, Capable(dev)
  PROVE  /\ dev.subgroup \in Nat \ {0} /\ dev.subgroup <= dev.max_workgroup
         /\ dev.max_workgroup \in Nat /\ dev.max_workgroup >= 256
         /\ dev.max_range \in Nat /\ dev.max_range >= 268435456
         /\ dev.max_shared \in Nat /\ dev.max_shared >= 16384 /\ 2 * dev.max_shared <= dev.max_range
         /\ dev.image2d \in Nat /\ dev.image2d >= 13 /\ dev.image3d \in Nat /\ dev.image3d >= 9
<1>1. /\ dev.subgroup \in Nat \ {0} /\ dev.max_workgroup \in Nat /\ dev.max_range \in Nat
      /\ dev.max_shared \in Nat /\ dev.image2d \in Nat /\ dev.image3d \in Nat
  BY PlanningAssumption
<1> QED BY SMT, <1>1 DEF Capable, Most, MiB

\* The usual workgroups are powers of two.
LEMMA WorkgroupPowers ==
  ASSUME NEW wg \in {64, 128, 256}
  PROVE  wg \in {2 ^ e : e \in 0..8}
<1> DEFINE power(x) == 2 ^ x
<1>1. power(6) = 64 /\ power(7) = 128 /\ power(8) = 256
  BY SMT
<1> HIDE DEF power
<1>2. \E e \in 0..8 : wg = power(e)
  BY SMT, <1>1
<1>3. \E e \in 0..8 : wg = 2 ^ e
  BY <1>2 DEF power
<1> QED BY <1>3

\* Any launch of memory that fits into a buffer is accepted,
LEMMA MemoryAccepted ==
  ASSUME NEW dev \in Devices, Capable(dev), NEW m \in Memory, NEW c \in Configuration, c.m = m,
         c.wg \in {64, 128, 256}, c.groups <= 4096, c.n * m.width * 4 <= dev.max_range
  PROVE  RunnerAccepts(dev, c)
<1>1. m.family = "memory" /\ m.width \in {1, 2, 4} /\ c.groups \in Nat /\ c.wg \in Nat
  BY FamilyNames, MemoryFields DEF Configuration
<1> DEFINE threads == Threads(c)
<1>2. threads \in Nat /\ threads <= 1048576
  <2>1. c.wg <= 256 /\ c.groups <= 4096 /\ c.wg \in Nat /\ c.groups \in Nat
    BY <1>1
  <2>2. c.wg * c.groups \in Nat /\ c.wg * c.groups <= 256 * 4096
    BY SMT, <2>1, ProductBound
  <2> QED BY SMT, <2>2 DEF Threads
<1>3. Buffers(c) = {c.n * m.width * 4, threads * m.width * 1 * 4}
  BY <1>1 DEF Buffers
<1> HIDE DEF threads
<1>4. threads * m.width * 1 * 4 <= dev.max_range
  BY SMT, <1>1, <1>2, CapableLimits
<1>5. \A bytes \in Buffers(c) : bytes <= dev.max_range
  BY <1>3, <1>4
<1>6. c.wg <= dev.max_workgroup
  BY SMT, CapableLimits
<1>7. c.wg \in {2 ^ e : e \in 0..8}
  BY WorkgroupPowers
<1> QED BY <1>1, <1>5, <1>6, <1>7 DEF RunnerAccepts

\* Arithmetic grids whose output every buffer can hold, and the largest one.
GridHeld(dev, groups) == groups <= 4096 \/ (groups <= 8192 /\ Roomy(dev))

\* any of the arithmetic grids,
LEMMA ArithmeticAccepted ==
  ASSUME NEW dev \in Devices, Capable(dev), NEW m \in Alu \cup Dot, NEW c \in Configuration, c.m = m,
         c.wg \in {64, 128, 256}, c.n = 1024,
         GridHeld(dev, c.groups)
  PROVE  RunnerAccepts(dev, c)
<1>1. /\ m.family \in {"alu", "dot"} /\ m.width \in {1, 2, 4} /\ m.chains \in {1, 2, 4, 8, 16}
      /\ c.groups \in Nat /\ c.wg \in Nat
  BY FamilyNames, AluFields, DotFields DEF Configuration
<1> DEFINE threads == Threads(c)
<1>2. /\ threads \in Nat
      /\ threads <= 1048576 \/ (threads <= 2097152 /\ Roomy(dev))
  <2>1. CASE c.groups <= 4096
    BY SMT, <1>1, <2>1, ProductBound DEF Threads
  <2>2. CASE c.groups <= 8192 /\ Roomy(dev)
    BY SMT, <1>1, <2>2, ProductBound DEF Threads
  <2> QED BY <2>1, <2>2 DEF GridHeld
<1>3. Buffers(c) = {c.n * m.width * 4, threads * m.width * m.chains * 4}
  BY <1>1 DEF Buffers
<1> HIDE DEF threads
<1>4. threads * m.width * m.chains * 4 <= dev.max_range
  <2> DEFINE each == m.width * m.chains
  <2>1. each \in Nat /\ each <= 64
    BY SMT, <1>1
  <2>2. threads * m.width * m.chains * 4 = threads * each * 4
    BY SMT, <1>1, <1>2
  <2> HIDE DEF each
  <2>3. CASE threads <= 1048576
    <3>1. threads * each <= 1048576 * 64 /\ threads * each \in Nat
      BY SMT, <1>2, <2>1, <2>3, ProductBound
    <3> QED BY SMT, <2>2, <3>1, CapableLimits
  <2>4. CASE threads <= 2097152 /\ Roomy(dev)
    <3>1. threads * each <= 2097152 * 64 /\ threads * each \in Nat
      BY SMT, <1>2, <2>1, <2>4, ProductBound
    <3>2. dev.max_range \in Nat /\ dev.max_range >= 536870912
      BY SMT, <2>4, CapableLimits DEF Roomy, MiB
    <3> QED BY SMT, <2>2, <3>1, <3>2
  <2> QED BY <1>2, <2>3, <2>4
<1>5. c.n * m.width * 4 <= dev.max_range
  BY SMT, <1>1, CapableLimits
<1>6. \A bytes \in Buffers(c) : bytes <= dev.max_range
  BY <1>3, <1>4, <1>5
<1>7. c.wg <= dev.max_workgroup
  BY SMT, CapableLimits
<1> QED BY <1>1, <1>6, <1>7 DEF RunnerAccepts

\* any number of slots that shared memory holds,
LEMMA SharedAccepted ==
  ASSUME NEW dev \in Devices, Capable(dev), NEW m \in Shared, NEW c \in Configuration, c.m = m,
         c.wg \in {32, 64, 128, 256}, c.groups <= 256, c.n = 1024,
         c.shared_count * m.width * Scalar(m.dtype) <= dev.max_shared,
         m.kind = "bw" => c.shared_count >= c.wg * m.accumulators /\ (m.op = 2 => c.stride = 1),
         m.op # 0 => c.wg * c.stride <= c.shared_count
  PROVE  RunnerAccepts(dev, c)
<1>1. /\ m.family = "shared" /\ m.width \in {1, 2, 4}
      /\ c.groups \in Nat /\ c.wg \in Nat /\ c.shared_count \in Nat
  BY FamilyNames, SharedFields DEF Configuration
<1> DEFINE threads == Threads(c)
           slots == c.shared_count * m.width
<1>2. threads \in Nat /\ threads <= 65536
  BY SMT, <1>1, ProductBound DEF Threads
<1>3. Buffers(c) = {c.n * m.width * 4, threads * m.width * 1 * 4, slots * 4}
  BY <1>1 DEF Buffers
<1>4. slots \in Nat
  BY <1>1
<1>5. slots * Scalar(m.dtype) <= dev.max_shared
  OBVIOUS
<1> HIDE DEF threads, slots
<1>6. threads * m.width * 1 * 4 <= dev.max_range
  BY SMT, <1>1, <1>2, CapableLimits
<1>7. slots * 4 <= dev.max_range
  <2>1. Scalar(m.dtype) \in {2, 4}
    BY DEF Scalar
  <2> QED BY SMT, <1>4, <1>5, <2>1, CapableLimits
<1>8. c.n * m.width * 4 <= dev.max_range
  BY SMT, <1>1, CapableLimits
<1>9. \A bytes \in Buffers(c) : bytes <= dev.max_range
  BY <1>3, <1>6, <1>7, <1>8
<1>10. c.wg <= dev.max_workgroup
  BY SMT, CapableLimits
<1> QED BY <1>1, <1>9, <1>10 DEF RunnerAccepts

\* any walk in a buffer,
LEMMA LatencyAccepted ==
  ASSUME NEW dev \in Devices, Capable(dev), NEW c \in Configuration, c.m.family = "latency",
         c.wg = 1, c.n * 4 <= dev.max_range
  PROVE  RunnerAccepts(dev, c)
<1>1. Buffers(c) = {c.n * 4}
  BY DEF Buffers
<1>2. c.wg <= dev.max_workgroup
  BY SMT, CapableLimits
<1> QED BY <1>1, <1>2 DEF RunnerAccepts

\* any of 8 Mi elements,
LEMMA ErtAccepted ==
  ASSUME NEW dev \in Devices, Capable(dev), NEW c \in Configuration, c.m.family = "ert",
         c.wg \in {64, 256}, c.n <= 8388608
  PROVE  RunnerAccepts(dev, c)
<1>1. Buffers(c) = {c.n * 16}
  BY DEF Buffers
<1>2. c.wg <= dev.max_workgroup
  BY SMT, CapableLimits
<1>3. c.n * 16 <= dev.max_range
  BY SMT, CapableLimits DEF Configuration
<1> QED BY <1>1, <1>2, <1>3 DEF RunnerAccepts

\* The tiles of one operand of a shape, and what a subgroup stores.
LEMMA ShapeBounds ==
  ASSUME NEW m \in Matrix
  PROVE  LET s == m.shape IN
         /\ s.m * s.k * Operand(s) \in Nat /\ s.m * s.k * Operand(s) <= 4096
         /\ s.k * s.n * Operand(s) \in Nat /\ s.k * s.n * Operand(s) <= 4096
         /\ OutBytes(m) \in Nat \ {0} /\ OutBytes(m) <= m.chains * 16384
<1> DEFINE s == m.shape
           o == Operand(s)
           acc == Accumulator(s)
<1>1. /\ s.m \in {4, 8, 16, 64} /\ s.n \in {8, 16, 32, 64} /\ s.k \in {8, 16, 32}
      /\ m.chains \in {1, 2, 4, 8}
  BY MatrixFields, ShapeFields
<1>2. o \in {1, 2} /\ acc \in {2, 4}
  BY DEF Operand, Accumulator
<1> HIDE DEF s, o, acc
<1>3. s.m * s.k \in Nat /\ s.m * s.k <= 2048 /\ s.k * s.n \in Nat /\ s.k * s.n <= 2048
  BY SMT, <1>1
<1>4. /\ s.m * s.k * o \in Nat /\ s.m * s.k * o <= 4096
      /\ s.k * s.n * o \in Nat /\ s.k * s.n * o <= 4096
  <2> DEFINE a == s.m * s.k
             b == s.k * s.n
  <2> HIDE DEF a, b
  <2>1. a * o \in Nat /\ a * o <= 4096 /\ b * o \in Nat /\ b * o <= 4096
    BY SMT, <1>2, <1>3 DEF a, b
  <2> QED BY <2>1 DEF a, b
<1>5. OutBytes(m) = m.chains * s.m * s.n * acc
  BY DEF OutBytes, s, acc
<1>6. s.m * s.n \in Nat \ {0} /\ s.m * s.n <= 4096
  BY SMT, <1>1
<1>7. m.chains * s.m * s.n * acc = m.chains * ((s.m * s.n) * acc)
  BY SMT, <1>1, <1>2
<1>8. (s.m * s.n) * acc \in Nat \ {0} /\ (s.m * s.n) * acc <= 16384
  <2> DEFINE a == s.m * s.n
  <2> HIDE DEF a
  <2>1. a * acc \in Nat \ {0} /\ a * acc <= 16384
    BY SMT, <1>2, <1>6 DEF a
  <2> QED BY <2>1 DEF a
<1>9. m.chains * ((s.m * s.n) * acc) \in Nat \ {0} /\ m.chains * ((s.m * s.n) * acc) <= m.chains * 16384
  <2> DEFINE a == (s.m * s.n) * acc
  <2> HIDE DEF a
  <2>1. m.chains * a \in Nat \ {0} /\ m.chains * a <= m.chains * 16384
    BY SMT, <1>1, <1>8 DEF a
  <2> QED BY <2>1 DEF a
<1> QED BY <1>4, <1>5, <1>7, <1>9 DEF s, o

\* and any matrix launch whose tiles and output fit.
LEMMA MatrixAccepted ==
  ASSUME NEW dev \in Devices, Capable(dev), NEW m \in Matrix, NEW c \in Configuration, c.m = m,
         c.wg <= dev.max_workgroup, c.wg % dev.subgroup = 0, c.subgroup = dev.subgroup,
         c.groups * (c.wg \div dev.subgroup) <= Least(MatrixOutput, dev.max_range) \div OutBytes(m),
         LET s == m.shape
         IN m.feed # "none" => /\ Most(1, c.n) * s.m * s.k * Operand(s) <= dev.max_range
                               /\ Most(1, c.n) * s.k * s.n * Operand(s) <= dev.max_range
  PROVE  RunnerAccepts(dev, c)
<1> DEFINE s == m.shape
           tiles == IF m.feed = "none" THEN 1 ELSE Most(1, c.n)
           a == tiles * s.m * s.k * Operand(s)
           b == tiles * s.k * s.n * Operand(s)
<1>1. m.family = "matrix" /\ c.wg \in Nat \ {0}
  BY FamilyNames DEF Configuration
<1>2. Buffers(c) = {a, b}
  BY <1>1 DEF Buffers
<1>3. a <= dev.max_range /\ b <= dev.max_range
  <2>1. CASE m.feed # "none"
    BY <2>1
  <2>2. CASE m.feed = "none"
    <3>1. a = s.m * s.k * Operand(s) /\ b = s.k * s.n * Operand(s)
      <4>1. /\ s.m \in {4, 8, 16, 64} /\ s.n \in {8, 16, 32, 64} /\ s.k \in {8, 16, 32}
        BY MatrixFields, ShapeFields
      <4>2. 1 * s.m = s.m /\ 1 * s.k = s.k /\ tiles = 1
        BY <2>2, <4>1
      <4> QED BY <4>2
    <3> HIDE DEF a, b
    <3> QED BY SMT, <3>1, ShapeBounds, CapableLimits
  <2> QED BY <2>1, <2>2
<1> HIDE DEF a, b
<1>4. \A bytes \in Buffers(c) : bytes <= dev.max_range
  BY <1>2, <1>3
<1>5. Subgroups(c) <= Least(MatrixOutput, dev.max_range) \div OutBytes(m)
  BY DEF Subgroups
<1> QED BY <1>1, <1>4, <1>5 DEF RunnerAccepts

-----------------------------------------------------------------------------
(* The runner accepts the rows of every stage. *)

\* The first launches of shared memory use the least of it,
LEMMA PlainSharedAccepted ==
  ASSUME NEW dev \in Devices, Capable(dev), NEW m \in Shared, Narrow(m), NEW c \in Configuration,
         c.m = m, c.wg = 64, c.groups <= 256, c.n = 1024, Plain(m, c)
  PROVE  RunnerAccepts(dev, c)
<1>1. /\ m.family = "shared" /\ m.width \in {1, 2, 4} /\ Scalar(m.dtype) \in {2, 4}
      /\ c.stride = 1 /\ c.shared_count = BaseCount(m)
  BY FamilyNames, SharedFields DEF Scalar, Plain
<1>2. m.kind = "bw" => m.accumulators = 8
  BY <1>1 DEF Narrow
<1>3. c.shared_count = 1024
  BY SMT, <1>1, <1>2 DEF BaseCount, Most
<1>4. c.shared_count * m.width * Scalar(m.dtype) <= dev.max_shared
  <2> DEFINE a == m.width
             b == Scalar(m.dtype)
  <2>1. a \in {1, 2, 4} /\ b \in {2, 4}
    BY <1>1
  <2> HIDE DEF a, b
  <2>2. 1024 * a * b <= 16384 /\ 1024 * a * b \in Nat
    BY SMT, <2>1
  <2>3. 1024 * a * b <= dev.max_shared
    BY SMT, <2>2, CapableLimits
  <2> QED BY <1>3, <2>3 DEF a, b
<1>5. m.kind = "bw" => c.shared_count >= c.wg * m.accumulators /\ (m.op = 2 => c.stride = 1)
  BY SMT, <1>1, <1>2, <1>3
<1>6. c.wg * c.stride <= c.shared_count
  BY SMT, <1>1, <1>3
<1> QED BY <1>4, <1>5, <1>6, SharedAccepted

\* the first of matrices few tiles.
LEMMA FirstTilesAccepted ==
  ASSUME NEW dev \in Devices, Capable(dev), NEW m \in Matrix, m.chains <= 4, NEW c \in Configuration,
         c.m = m, c.wg = dev.subgroup, c.subgroup = dev.subgroup, c.groups <= 512, c.n <= 1024
  PROVE  RunnerAccepts(dev, c)
<1> DEFINE s == m.shape
           x == Most(1, c.n)
           room == Least(MatrixOutput, dev.max_range)
           out == OutBytes(m)
<1>1. /\ dev.subgroup \in Nat \ {0} /\ c.groups \in Nat /\ c.n \in Nat /\ m.chains \in {1, 2, 4, 8}
      /\ s.m \in Nat /\ s.n \in Nat /\ s.k \in Nat /\ Operand(s) \in Nat
  BY CapableLimits, MatrixFields, ShapeFields DEF Configuration, Operand
<1>2. c.wg % dev.subgroup = 0 /\ c.wg \div dev.subgroup = 1
  BY SMT, <1>1
<1>3. out \in Nat \ {0} /\ out <= 65536
  <2>1. out \in Nat \ {0} /\ out <= m.chains * 16384
    BY ShapeBounds
  <2> HIDE DEF out
  <2> QED BY SMT, <1>1, <2>1
<1>4. room \in Nat /\ room >= 268435456
  BY SMT, CapableLimits DEF Least, MatrixOutput, MiB
<1>5. c.groups * out <= room
  <2> DEFINE bytes == c.groups * out
  <2> HIDE DEF out, room
  <2>1. bytes <= 512 * 65536 /\ bytes \in Nat
    BY SMT, <1>1, <1>3, ProductBound
  <2> HIDE DEF bytes
  <2>2. bytes <= room
    BY SMT, <1>4, <2>1
  <2> QED BY <2>2 DEF bytes
<1> HIDE DEF out, room
<1>6. c.groups <= room \div out
  BY <1>1, <1>3, <1>4, <1>5, FitsInto
<1>7. c.groups * (c.wg \div dev.subgroup) <= room \div out
  BY <1>1, <1>2, <1>6
<1>8. x \in Nat /\ x <= 1024
  BY SMT, <1>1 DEF Most
<1> HIDE DEF x
<1>9. x * s.m * s.k * Operand(s) <= dev.max_range /\ x * s.k * s.n * Operand(s) <= dev.max_range
  <2> DEFINE a == s.m * s.k * Operand(s)
             b == s.k * s.n * Operand(s)
  <2>1. a \in Nat /\ a <= 4096 /\ b \in Nat /\ b <= 4096
    BY ShapeBounds
  <2>2. x * s.m * s.k * Operand(s) = x * a /\ x * s.k * s.n * Operand(s) = x * b
    BY SMT, <1>1, <1>8
  <2> HIDE DEF a, b
  <2>3. x * a \in Nat /\ x * a <= 1024 * 4096 /\ x * b \in Nat /\ x * b <= 1024 * 4096
    BY SMT, <1>8, <2>1, ProductBound
  <2> QED BY SMT, <2>2, <2>3, CapableLimits
<1>10. c.wg <= dev.max_workgroup
  BY CapableLimits
<1> QED BY <1>2, <1>7, <1>9, <1>10, MatrixAccepted DEF x, room, out

\* A short run of any variant but images and walks is accepted.
LEMMA ShortAccepted ==
  ASSUME NEW dev \in Devices, Capable(dev), NEW m \in Manifest, NEW c,
         Common(dev, c, m, BaseWg(dev, m), 32, BaseN(m), 32, 1), Plain(m, c),
         m.family \notin {"texture", "latency"}, Narrow(m),
         m.family = "matrix" => m.chains = 1
  PROVE  RunnerAccepts(dev, c)
<1>1. c \in Configuration /\ c.m = m /\ c.groups = 32 /\ c.n = BaseN(m) /\ c.wg = BaseWg(dev, m)
  BY DEF Common
<1>2. m.family # "matrix" => c.wg = 64 /\ c.n = 1024
  BY <1>1 DEF BaseWg, BaseN
<1>3. CASE m.family = "memory"
  <2>1. m \in Memory /\ m.width \in {1, 2, 4}
    BY <1>3, Family, MemoryFields
  <2>2. c.n * m.width * 4 <= dev.max_range
    BY SMT, <1>2, <1>3, <2>1, CapableLimits
  <2> QED BY <1>1, <1>2, <1>3, <2>1, <2>2, MemoryAccepted
<1>4. CASE m.family \in {"alu", "dot"}
  <2>1. m \in Alu \cup Dot
    BY <1>4, Family
  <2>2. GridHeld(dev, c.groups)
    BY SMT, <1>1 DEF GridHeld
  <2> QED BY <1>1, <1>2, <1>4, <2>1, <2>2, ArithmeticAccepted
<1>5. CASE m.family = "shared"
  <2>1. m \in Shared
    BY <1>5, Family
  <2> QED BY <1>1, <1>2, <1>5, <2>1, PlainSharedAccepted
<1>6. CASE m.family = "ert"
  <2>1. c.n <= 8388608
    BY SMT, <1>2, <1>6
  <2> QED BY <1>1, <1>2, <1>6, <2>1, ErtAccepted
<1>7. CASE m.family = "matrix"
  <2>1. m \in Matrix /\ m.chains <= 4
    BY <1>7, Family
  <2>2. c.wg = dev.subgroup /\ c.subgroup = dev.subgroup
    BY <1>7 DEF Common, BaseWg
  <2>3. c.n <= 1024
    BY SMT, <1>1, <1>7 DEF BaseN
  <2> QED BY <1>1, <2>1, <2>2, <2>3, FirstTilesAccepted
<1> QED BY <1>3, <1>4, <1>5, <1>6, <1>7, Family

\* Rows of validate are accepted; so are, below, those of each other stage.
LEMMA ValidateAccepted ==
  ASSUME NEW dev \in Devices, Capable(dev), NEW lv, NEW r \in Validate(dev, lv)
  PROVE  RunnerAccepts(dev, r.c)
<1>1. CASE \E m \in Validated(dev) :
             r.c = IF m.family = "latency" THEN ShortWalk(dev, m) ELSE Short(dev, m)
  <2>1. PICK m \in Validated(dev) :
          r.c = IF m.family = "latency" THEN ShortWalk(dev, m) ELSE Short(dev, m)
    BY <1>1
  <2>2. /\ m \in Manifest /\ m.family # "texture" /\ Narrow(m)
        /\ m.family = "matrix" => m.chains = 1
    BY <2>1, ValidatedVariants
  <2>3. CASE m.family = "latency"
    <3>1. Common(dev, r.c, m, 1, 1, 65536, 32, 1)
      BY <2>1, <2>2, <2>3, ShortWalkFields
    <3>2. r.c \in Configuration /\ r.c.m.family = "latency" /\ r.c.wg = 1 /\ r.c.n = 65536
      BY <2>3, <3>1 DEF Common
    <3>3. r.c.n * 4 <= dev.max_range
      BY SMT, <3>2, CapableLimits
    <3> QED BY <3>2, <3>3, LatencyAccepted
  <2>4. CASE m.family # "latency"
    <3>1. Common(dev, r.c, m, BaseWg(dev, m), 32, BaseN(m), 32, 1) /\ Plain(m, r.c)
      BY <2>1, <2>2, <2>4, ShortFields
    <3> QED BY <2>2, <2>4, <3>1, ShortAccepted
  <2> QED BY <2>3, <2>4
<1>2. CASE \E m \in Memory : r.c = InMode(Short(dev, m), "host_coherent")
  <2>1. PICK m \in Memory : r.c = InMode(Short(dev, m), "host_coherent")
    BY <1>2
  <2>2. m \in Manifest /\ m.family = "memory"
    BY <2>1, FamilyNames DEF Manifest
  <2>3. Common(dev, r.c, m, BaseWg(dev, m), 32, BaseN(m), 32, 1) /\ Plain(m, r.c)
    BY <2>1, <2>2, HostFields
  <2> QED BY <2>2, <2>3, ShortAccepted DEF Narrow
<1> QED BY <1>1, <1>2, ValidateRows

\* Rows of first_look.
LEMMA FirstLookAccepted ==
  ASSUME NEW dev \in Devices, Capable(dev), NEW lv, NEW r \in FirstLook(dev, lv)
  PROVE  RunnerAccepts(dev, r.c)
<1>1. CASE \E m \in Memory : r.c = Sweep(dev, m, 64, 4096, 4 * MiB)
  <2>1. PICK m \in Memory : r.c = Sweep(dev, m, 64, 4096, 4 * MiB)
    BY <1>1
  <2> DEFINE n == 4 * MiB
  <2>2. n \in Nat /\ n = 4194304
    BY SMT DEF MiB
  <2>3. m \in Manifest /\ m.width \in {1, 2, 4}
    BY MemoryFields DEF Manifest
  <2> HIDE DEF n
  <2>4. Common(dev, r.c, m, 64, 4096, n, 1, 1)
    BY <2>1, <2>2, <2>3, SweepFields DEF n
  <2>5. r.c \in Configuration /\ r.c.m = m /\ r.c.wg = 64 /\ r.c.groups = 4096 /\ r.c.n = n
    BY <2>4 DEF Common
  <2>6. n * m.width * 4 <= dev.max_range
    BY SMT, <2>2, <2>3, CapableLimits
  <2>7. r.c.groups <= 4096
    BY SMT, <2>5
  <2> QED BY <2>5, <2>6, <2>7, MemoryAccepted
<1>2. CASE \E m \in Alu \cup Shared \cup Dot : Narrow(m) /\ r.c = Base(dev, m)
  <2>1. PICK m \in Alu \cup Shared \cup Dot : Narrow(m) /\ r.c = Base(dev, m)
    BY <1>2
  <2>2. m \in Manifest /\ m.family # "matrix"
    BY FamilyNames DEF Manifest
  <2>3. Common(dev, r.c, m, BaseWg(dev, m), 256, BaseN(m), 128, 1) /\ Plain(m, r.c)
    BY <2>1, <2>2, BaseFields DEF Plain
  <2>4. r.c \in Configuration /\ r.c.m = m /\ r.c.wg = 64 /\ r.c.groups = 256 /\ r.c.n = 1024
    BY <2>2, <2>3 DEF Common, BaseWg, BaseN
  <2>5. GridHeld(dev, r.c.groups) /\ r.c.groups <= 256
    BY SMT, <2>4 DEF GridHeld
  <2>6. CASE m \in Alu \cup Dot
    BY <2>4, <2>5, <2>6, ArithmeticAccepted
  <2>7. CASE m \in Shared
    BY <2>1, <2>3, <2>4, <2>5, <2>7, PlainSharedAccepted
  <2> QED BY <2>1, <2>6, <2>7
<1>3. CASE \E m \in Matrix : /\ m.chains \in {1, 4} /\ m.feed = "none" /\ Eligible(dev, m)
                             /\ r.c = Launch(dev, m, Base(dev, m).wg, 512)
  <2>1. PICK m \in Matrix : /\ m.chains \in {1, 4} /\ m.feed = "none"
                            /\ r.c = Launch(dev, m, Base(dev, m).wg, 512)
    BY <1>3
  <2>2. m \in Manifest /\ m.family = "matrix" /\ m.chains <= 4
    BY <2>1, FamilyNames DEF Manifest
  <2>3. Base(dev, m).wg = dev.subgroup /\ dev.subgroup \in Nat \ {0}
    BY <2>2, BaseFields, CapableLimits DEF Common, BaseWg
  <2>4. Common(dev, r.c, m, dev.subgroup, 512, BaseN(m), 128, 1)
    BY <2>1, <2>2, <2>3, LaunchFields
  <2>5. /\ r.c \in Configuration /\ r.c.m = m /\ r.c.wg = dev.subgroup /\ r.c.groups = 512
        /\ r.c.subgroup = dev.subgroup /\ r.c.n = BaseN(m)
    BY <2>2, <2>4 DEF Common
  <2>6. r.c.groups <= 512 /\ r.c.n <= 1024
    BY SMT, <2>5 DEF BaseN
  <2> QED BY <2>2, <2>5, <2>6, FirstTilesAccepted
<1> QED BY <1>1, <1>2, <1>3, FirstLookRows

\* Replicas of a small working set make at most 4096 workgroups.
LEMMA CacheGroupsBound ==
  ASSUME NEW m \in Memory, NEW size \in Nat, NEW wg \in {64, 128, 256}
  PROVE  CacheGroups(m, size, wg) <= 4096
<1> DEFINE n == CacheElements(m, size)
           chunks == CacheChunks(m, size, wg)
           shares == 256 \div chunks
<1>1. n \in Nat
  BY MemoryFields DEF CacheElements
<1> HIDE DEF n
<1>2. chunks = Least(4096, Most(1, n \div wg))
  BY DEF CacheChunks, n
<1> HIDE DEF chunks
<1>3. chunks \in Nat \ {0} /\ chunks <= 4096
  BY SMT, <1>1, <1>2 DEF Least, Most
<1>4. shares \in Nat /\ shares * chunks <= 256
  BY <1>3, QuotientBound
<1> HIDE DEF shares
<1>5. CacheGroups(m, size, wg) = chunks * Most(1, shares)
  BY DEF CacheGroups, CacheReplicas, chunks, shares
<1>6. Most(1, shares) = 1 \/ Most(1, shares) = shares
  BY DEF Most
<1>7. chunks * 1 <= 4096 /\ chunks * shares <= 4096
  BY SMT, <1>3, <1>4
<1> QED BY <1>5, <1>6, <1>7

\* Rows of cache.
LEMMA CacheAccepted ==
  ASSUME NEW dev \in Devices, Capable(dev), NEW lv, NEW r \in CacheStage(dev, lv)
  PROVE  RunnerAccepts(dev, r.c)
<1>1. PICK m \in Memory, size \in CacheSizes(dev), wg \in {64, 128, 256} :
        r.c = Cached(dev, m, size, wg)
  BY CacheRows
<1>2. size \in Nat /\ size <= Least(512 * MiB, dev.max_range)
  BY CacheSizesType, PowerType
<1>3. size <= dev.max_range
  BY SMT, <1>2, CapableLimits DEF Least, MiB
<1> DEFINE n == CacheElements(m, size)
           groups == CacheGroups(m, size, wg)
           rep == CacheReplicas(m, size, wg)
<1>4. Common(dev, r.c, m, wg, groups, n, 1, rep)
  BY <1>1, <1>2, CachedFields
<1>5. n \in Nat /\ n * m.width * 4 <= size
  <2> DEFINE each == 4 * m.width
  <2>1. m.width \in {1, 2, 4}
    BY MemoryFields
  <2>2. each \in Nat \ {0}
    BY <2>1
  <2>3. n = size \div each
    BY DEF CacheElements
  <2> HIDE DEF each, n
  <2>4. n \in Nat /\ n * each <= size
    BY <1>2, <2>2, <2>3, QuotientBound
  <2>5. n * m.width * 4 = n * each
    BY SMT, <2>1, <2>4 DEF each
  <2> QED BY <2>4, <2>5
<1>6. groups <= 4096
  BY <1>2, CacheGroupsBound
<1> HIDE DEF n, groups, rep
<1>7. r.c \in Configuration /\ r.c.m = m /\ r.c.wg = wg /\ r.c.groups = groups /\ r.c.n = n
  BY <1>4 DEF Common
<1>8. n * m.width * 4 <= dev.max_range
  <2> DEFINE bytes == n * m.width * 4
  <2>1. bytes \in Nat /\ bytes <= size
    BY <1>5, MemoryFields
  <2> HIDE DEF bytes
  <2>2. bytes <= dev.max_range
    BY SMT, <1>2, <1>3, <2>1, CapableLimits
  <2> QED BY <2>2 DEF bytes
<1> QED BY <1>6, <1>7, <1>8, MemoryAccepted

\* The elements of a size take at most that size.
LEMMA ElementsBound ==
  ASSUME NEW op \in 0..6, NEW size \in Nat
  PROVE  Elements(op, size) * 16 <= size
<1> DEFINE arrays == ArraysPerOp[op + 1]
           bytes == arrays * 16
           n == size \div bytes
           rounded == (n \div 64) * 64
<1>1. arrays \in {1, 2, 3}
  BY DEF ArraysPerOp
<1> HIDE DEF arrays
<1>2. bytes \in Nat \ {0} /\ bytes >= 16
  BY <1>1
<1> HIDE DEF bytes
<1>3. n \in Nat /\ n * bytes <= size
  BY <1>2, QuotientBound
<1> HIDE DEF n
<1>4. rounded \in Nat /\ rounded <= n
  BY <1>3
<1> HIDE DEF rounded
<1>5. rounded * 16 <= n * bytes
  BY <1>2, <1>3, <1>4, ProductBound
<1>6. rounded * 16 <= size
  <2> DEFINE product == n * bytes
  <2>1. product \in Nat
    BY <1>2, <1>3
  <2> HIDE DEF product
  <2>2. rounded * 16 <= product /\ product <= size
    BY <1>3, <1>5 DEF product
  <2> QED BY <1>4, <2>1, <2>2
<1> QED BY <1>6 DEF Elements, rounded, n, bytes, arrays

\* Rows of memory.
LEMMA SweepsAccepted ==
  ASSUME NEW dev \in Devices, Capable(dev), NEW lv, NEW r \in MemoryStage(dev, lv)
  PROVE  RunnerAccepts(dev, r.c)
<1>1. PICK m \in Memory, e \in 12..29 :
        LET n == Elements(m.op, 2 ^ e) IN
        /\ m.width = 4 /\ n * 16 <= dev.max_range
        /\ r.c = Sweep(dev, m, 64, Least(4096, Most(1, n \div 64)), n)
  BY MemoryRows
<1> DEFINE n == Elements(m.op, 2 ^ e)
           groups == Least(4096, Most(1, n \div 64))
<1>2. e \in 0..30
  BY <1>1
<1>3. 2 ^ e \in PowersOfTwo
  BY Zenon, <1>2, Powers
<1>4. 2 ^ e \in Nat /\ m.op \in 0..6 /\ m \in Manifest
  BY <1>3, PowerType, MemoryFields DEF Manifest
<1>5. n \in Nat
  BY <1>4, ElementsType
<1>6. r.c = Sweep(dev, m, 64, groups, n) /\ m.width = 4 /\ n * 16 <= dev.max_range
  BY <1>1
<1> HIDE DEF n
<1>7. groups \in Nat \ {0} /\ groups <= 4096
  BY SMT, <1>5 DEF Least, Most
<1> HIDE DEF groups
<1>8. Common(dev, r.c, m, 64, groups, n, 1, 1)
  BY <1>4, <1>5, <1>6, <1>7, SweepFields
<1>9. r.c \in Configuration /\ r.c.m = m /\ r.c.wg = 64 /\ r.c.groups = groups /\ r.c.n = n
  BY <1>8 DEF Common
<1>10. n * m.width * 4 <= dev.max_range
  BY <1>5, <1>6
<1> QED BY <1>7, <1>9, <1>10, MemoryAccepted

\* Rows of memory_type.
LEMMA RepetitionsAccepted ==
  ASSUME NEW dev \in Devices, Capable(dev), NEW lv, NEW r \in MemoryType(dev, lv)
  PROVE  RunnerAccepts(dev, r.c)
<1>1. PICK m \in Memory, mode \in {"device_local", "host_coherent"}, rep \in 0..2 :
        m.width = 4 /\ r.c = Repetition(dev, m, mode, rep)
  BY MemoryTypeRows
<1> DEFINE size == 256 * MiB
           n == Elements(m.op, size)
<1>2. m.op \in 0..6
  BY MemoryFields
<1>3. size \in Nat /\ size <= dev.max_range
  BY SMT, CapableLimits DEF MiB
<1> HIDE DEF size
<1>4. n \in Nat /\ n * 16 <= size
  BY <1>2, <1>3, ElementsType, ElementsBound
<1>5. Common(dev, r.c, m, 64, 4096, n, 1, 1)
  BY <1>1, <1>4, RepetitionFields DEF size
<1> HIDE DEF n
<1>6. r.c \in Configuration /\ r.c.m = m /\ r.c.wg = 64 /\ r.c.groups = 4096 /\ r.c.n = n
  BY <1>5 DEF Common
<1>7. n * m.width * 4 <= dev.max_range /\ r.c.groups <= 4096
  BY SMT, <1>1, <1>3, <1>4, <1>6, CapableLimits
<1> QED BY <1>6, <1>7, MemoryAccepted

\* Rows of ert.
LEMMA KernelsAccepted ==
  ASSUME NEW dev \in Devices, Capable(dev), NEW lv, NEW r \in ErtStage(dev, lv)
  PROVE  RunnerAccepts(dev, r.c)
<1>1. PICK m \in Ert, wg \in {64, 256} : r.c = Sweep(dev, m, wg, 4096, 8 * MiB)
  BY ErtRows
<1> DEFINE n == 8 * MiB
<1>2. n \in Nat /\ n <= 8388608
  BY SMT DEF MiB
<1>3. m \in Manifest /\ m.family = "ert" /\ wg \in Nat \ {0}
  BY <1>1, FamilyNames DEF Manifest
<1> HIDE DEF n
<1>4. Common(dev, r.c, m, wg, 4096, n, 1, 1)
  BY <1>1, <1>2, <1>3, SweepFields DEF n
<1>5. r.c \in Configuration /\ r.c.m.family = "ert" /\ r.c.wg = wg /\ r.c.n = n
  BY <1>3, <1>4 DEF Common
<1> QED BY <1>2, <1>5, ErtAccepted

\* A walk of some bytes.
LEMMA WalkAccepted ==
  ASSUME NEW dev \in Devices, Capable(dev), NEW size \in Nat, size <= dev.max_range,
         NEW stride \in Nat \ {0}, NEW order \in {"random", "sequential"},
         NEW min, min \in {2, 4096}
  PROVE  RunnerAccepts(dev, Chase(dev, size, stride, order, min))
<1> DEFINE c == Chase(dev, size, stride, order, min)
           n == size \div 4
           trips == ChaseLoops(size \div stride, min)
<1>1. Common(dev, c, TheWalk, 1, 1, n, trips, 1)
  BY ChaseFields
<1>2. n \in Nat /\ n * 4 <= size
  BY QuotientBound
<1> HIDE DEF c, n, trips
<1>3. c \in Configuration /\ c.m.family = "latency" /\ c.wg = 1 /\ c.n = n
  BY <1>1, WalkIsLatency, FamilyNames DEF Common
<1>4. c.n * 4 <= dev.max_range
  BY SMT, <1>2, <1>3, CapableLimits
<1>5. RunnerAccepts(dev, c)
  BY <1>3, <1>4, LatencyAccepted
<1> QED BY <1>5 DEF c

\* Rows of latency.
LEMMA WalksAccepted ==
  ASSUME NEW dev \in Devices, Capable(dev), NEW lv, NEW r \in LatencyStage(dev, lv)
  PROVE  RunnerAccepts(dev, r.c)
<1>1. dev.max_range \in Nat /\ dev.max_range >= 268435456 /\ dev.page_size \in Nat \ {0}
  BY CapableLimits, PlanningAssumption
<1>2. CASE \E size \in ChaseSizes(lv) :
             size <= Least(256 * MiB, dev.max_range) /\ CapacityWalk(dev, r.c, size)
  <2>1. PICK size \in ChaseSizes(lv) :
          size <= Least(256 * MiB, dev.max_range) /\ CapacityWalk(dev, r.c, size)
    BY <1>2
  <2>2. size \in Nat /\ 64 \in Nat \ {0} /\ 4096 \in {2, 4096}
    BY SMT, <2>1, CapacityNodes
  <2>3. size <= dev.max_range
    BY SMT, <1>1, <2>1, <2>2 DEF Least, MiB
  <2> QED BY <2>1, <2>2, <2>3, WalkAccepted DEF CapacityWalk
<1>3. CASE \E e \in 16..28 : PageWalk(dev, r.c, e)
  <2>1. PICK e \in 16..28 : PageWalk(dev, r.c, e)
    BY <1>3
  <2> DEFINE size == 2 ^ e
  <2>2. e \in 0..30
    BY <2>1
  <2>3. size \in PowersOfTwo
    BY Zenon, <2>2, Powers
  <2>4. size <= Least(256 * MiB, dev.max_range) /\ r.c = Chase(dev, size, dev.page_size, "random", 4096)
    BY SMT, <2>1 DEF PageWalk
  <2> HIDE DEF size
  <2>5. size \in Nat /\ 4096 \in {2, 4096}
    BY SMT, <2>3, PowerType
  <2>6. size <= dev.max_range
    BY SMT, <1>1, <2>4, <2>5 DEF Least, MiB
  <2> QED BY <1>1, <2>4, <2>5, <2>6, WalkAccepted
<1>4. CASE \E size \in {MiB, 64 * MiB}, e \in 2..10 : StrideWalk(dev, r.c, size, e)
  <2>1. PICK size \in {MiB, 64 * MiB}, e \in 2..10 : StrideWalk(dev, r.c, size, e)
    BY <1>4
  <2> DEFINE stride == 2 ^ e
  <2>2. stride \in ChaseStrides
    BY Zenon, <2>1, Strides2To10
  <2>3. r.c = Chase(dev, size, stride, "sequential", 2)
    BY SMT, <2>1 DEF StrideWalk
  <2> HIDE DEF stride
  <2>4. stride \in Nat \ {0} /\ size \in Nat /\ size <= dev.max_range /\ 2 \in {2, 4096}
    BY SMT, <1>1, <2>1, <2>2 DEF ChaseStrides, MiB
  <2> QED BY <2>3, <2>4, WalkAccepted
<1> QED BY <1>2, <1>3, <1>4, LatencyRows

\* Rows of compute.
LEMMA GridsAccepted ==
  ASSUME NEW dev \in Devices, Capable(dev), NEW lv, NEW r \in Compute(dev, lv),
         Roomy(dev) \/ r.c.groups # 8192
  PROVE  RunnerAccepts(dev, r.c)
<1>1. PICK m \in Alu \cup Dot \cup Matrix : \E p \in ComputeGrid(dev, m, lv) :
        /\ m.family = "matrix" => m.feed = "none" /\ Eligible(dev, m)
        /\ r.c = Launch(dev, m, p[1], p[2])
  BY ComputeRows
<1>2. PICK p \in ComputeGrid(dev, m, lv) :
        /\ m.family = "matrix" => m.feed = "none"
        /\ r.c = Launch(dev, m, p[1], p[2])
  BY <1>1
<1>3. m \in Manifest
  BY <1>1 DEF Manifest
<1> DEFINE wg == p[1]
           groups == p[2]
<1>4. CASE m.family = "matrix"
  <2>1. p \in MatrixGrid(dev, m, lv) /\ m \in Matrix /\ m.feed = "none"
    BY <1>2, <1>3, <1>4, Family DEF ComputeGrid
  <2>2. /\ wg \in {dev.subgroup, 4 * dev.subgroup} /\ wg <= dev.max_workgroup
        /\ groups * (wg \div dev.subgroup) <= Least(MatrixOutput, dev.max_range) \div OutBytes(m)
        /\ wg \in Nat \ {0} /\ groups \in Nat \ {0}
    BY <2>1, MatrixGridType
  <2>3. r.c = Launch(dev, m, wg, groups)
    BY <1>2
  <2> HIDE DEF wg, groups
  <2>4. Common(dev, r.c, m, wg, groups, BaseN(m), 128, 1)
    BY <1>3, <2>2, <2>3, LaunchFields
  <2>5. /\ r.c \in Configuration /\ r.c.m = m /\ r.c.wg = wg /\ r.c.groups = groups
        /\ r.c.subgroup = dev.subgroup
    BY <1>4, <2>4 DEF Common
  <2>6. wg % dev.subgroup = 0
    BY <2>2, CapableLimits
  <2> QED BY <2>1, <2>2, <2>5, <2>6, MatrixAccepted
<1>5. CASE m.family # "matrix"
  <2>1. m \in Alu \cup Dot
    BY <1>1, <1>5, FamilyNames
  <2>2. wg \in {64, 128, 256} /\ groups \in {64, 512, 2048, 8192}
    BY <1>2, <1>5, ComputeGridType
  <2>3. r.c = Launch(dev, m, wg, groups)
    BY <1>2
  <2> HIDE DEF wg, groups
  <2>4. wg \in Nat \ {0} /\ groups \in Nat \ {0}
    BY SMT, <2>2
  <2>5. Common(dev, r.c, m, wg, groups, BaseN(m), 128, 1)
    BY <1>3, <2>3, <2>4, LaunchFields
  <2>6. /\ r.c \in Configuration /\ r.c.m = m /\ r.c.wg = wg /\ r.c.groups = groups
        /\ r.c.n = 1024
    BY <1>5, <2>5 DEF Common, BaseN
  <2>7. groups # 8192 => groups <= 4096
    BY SMT, <2>2
  <2>8. groups <= 8192
    BY SMT, <2>2
  <2>9. GridHeld(dev, r.c.groups)
    BY SMT, <2>6, <2>7, <2>8 DEF GridHeld
  <2> QED BY <2>1, <2>2, <2>6, <2>9, ArithmeticAccepted
<1> QED BY <1>4, <1>5

\* The tiles of a feed, of either operand, fit into a buffer.
LEMMA TilesFit ==
  ASSUME NEW dev \in Devices, Capable(dev), NEW m \in Matrix, NEW tiles \in FeedTiles(dev, m)
  PROVE  LET s == m.shape
             x == Most(1, tiles)
         IN /\ x * s.m * s.k * Operand(s) <= dev.max_range
            /\ x * s.k * s.n * Operand(s) <= dev.max_range
<1> DEFINE s == m.shape
           o == Operand(s)
           a == s.m * s.k * o
           b == s.k * s.n * o
           t == TileBytes(s)
           top == Most(s.m * s.k, s.k * s.n) * o
           x == Most(1, tiles)
           near == MiB \div t
           largest == dev.max_range \div top
           far == (256 * MiB + TileBytes(s) - 1) \div TileBytes(s)
<1>1. /\ s \in Shapes /\ dev.max_range \in Nat /\ dev.max_range >= 268435456
      /\ s.m \in Nat /\ s.n \in Nat /\ s.k \in Nat /\ o \in Nat
  BY MatrixFields, ShapeFields, CapableLimits DEF Operand
<1>2. a \in Nat /\ a <= 4096 /\ b \in Nat /\ b <= 4096
  BY ShapeBounds
<1>3. t \in Nat \ {0} /\ top \in Nat \ {0}
  BY <1>1, ShapeNumbers
<1>4. a <= t /\ b <= t /\ a <= top /\ b <= top
  <2> DEFINE u == s.m * s.k
             v == s.k * s.n
  <2>1. u \in Nat /\ v \in Nat
    BY <1>1
  <2>2. a = u * o /\ b = v * o /\ t = (u + v) * o /\ top = Most(u, v) * o
    BY DEF TileBytes
  <2> HIDE DEF u, v, a, b, t, top, o, s
  <2>3. u * o <= (u + v) * o /\ v * o <= (u + v) * o
    BY SMT, <1>1, <2>1
  <2>4. Most(u, v) \in Nat /\ u <= Most(u, v) /\ v <= Most(u, v)
    BY <2>1 DEF Most
  <2>5. u * o <= Most(u, v) * o /\ v * o <= Most(u, v) * o
    BY <1>1, <2>1, <2>4, ProductBound
  <2> QED BY <2>2, <2>3, <2>5
<1>5. tiles \in Nat /\ tiles \in {4, Most(1, near), Least(largest, far)}
  <2>1. tiles \in Nat
    BY FeedTilesType
  <2>2. tiles \in {4, Most(1, near), Least(largest, far)}
    BY DEF FeedTiles, MatrixFeedTiles
  <2> QED BY <2>1, <2>2
<1>6. x * s.m * s.k * o = x * a /\ x * s.k * s.n * o = x * b
  <2>1. x \in Nat
    BY <1>5 DEF Most
  <2> HIDE DEF x, s, o
  <2> QED BY SMT, <1>1, <2>1
<1>7. near \in Nat /\ near * t <= MiB
  <2>1. MiB \in Nat
    BY SMT DEF MiB
  <2> HIDE DEF t
  <2> QED BY <1>3, <2>1, QuotientBound
<1>8. largest \in Nat /\ largest * top <= dev.max_range
  <2>1. dev.max_range \in Nat
    BY <1>1
  <2> HIDE DEF top, s, o, a, b, t, x, far
  <2> QED BY <1>3, <2>1, QuotientBound
<1>9. far \in Nat
  <2> DEFINE all == 256 * MiB + t - 1
  <2>1. MiB \in Nat
    BY SMT DEF MiB
  <2> HIDE DEF t
  <2>2. all \in Nat
    BY <1>3, <2>1
  <2> HIDE DEF all
  <2>3. all \div t \in Nat
    BY <1>3, <2>2
  <2> QED BY <2>3 DEF all, t
<1> HIDE DEF a, b, t, top, near, largest, far, s, o
<1>10. \/ x \in Nat /\ x <= 4
       \/ x \in Nat /\ x <= near
       \/ x \in Nat /\ x <= largest
  BY SMT, <1>5, <1>7, <1>8, <1>9 DEF Most, Least
<1> HIDE DEF x
<1>11. ASSUME NEW y \in Nat, y <= 4096, y <= t, y <= top PROVE x * y <= dev.max_range
  <2> DEFINE bytes == x * y
             small == near * t
             big == largest * top
  <2>1. bytes \in Nat /\ small \in Nat /\ big \in Nat
    BY <1>3, <1>7, <1>8, <1>10
  <2>2. bytes <= 4 * 4096 \/ bytes <= small \/ bytes <= big
    BY SMT, <1>3, <1>7, <1>8, <1>10, <1>11, ProductBound
  <2>3. small <= 1048576 /\ big <= dev.max_range
    BY SMT, <1>7, <1>8 DEF MiB
  <2> HIDE DEF bytes, small, big
  <2>4. bytes <= dev.max_range
    BY SMT, <1>1, <2>1, <2>2, <2>3
  <2> QED BY <2>4 DEF bytes
<1>12. x * a <= dev.max_range /\ x * b <= dev.max_range
  BY <1>2, <1>4, <1>11
<1> QED BY <1>6, <1>12 DEF x, s, o

\* Rows of matrix_feed.
LEMMA FeedAccepted ==
  ASSUME NEW dev \in Devices, Capable(dev), NEW lv, NEW r \in MatrixFeed(dev, lv)
  PROVE  RunnerAccepts(dev, r.c)
<1>1. PICK m \in Matrix : \E tiles \in FeedTiles(dev, m), p \in MatrixGrid(dev, m, lv) :
        r.c = Feed(dev, m, p[1], p[2], tiles)
  BY FeedRows
<1>2. PICK tiles \in FeedTiles(dev, m), p \in MatrixGrid(dev, m, lv) :
        r.c = Feed(dev, m, p[1], p[2], tiles)
  BY <1>1
<1>3. m \in Manifest /\ m.family = "matrix"
  BY <1>1, FamilyNames DEF Manifest
<1> DEFINE wg == p[1]
           groups == p[2]
<1>4. /\ wg \in {dev.subgroup, 4 * dev.subgroup} /\ wg <= dev.max_workgroup
      /\ groups * (wg \div dev.subgroup) <= Least(MatrixOutput, dev.max_range) \div OutBytes(m)
      /\ wg \in Nat \ {0} /\ groups \in Nat \ {0}
  BY <1>2, MatrixGridType
<1>5. tiles \in Nat
  BY <1>2, FeedTilesType
<1>6. r.c = Feed(dev, m, wg, groups, tiles)
  BY <1>2
<1> HIDE DEF wg, groups
<1>7. Common(dev, r.c, m, wg, groups, tiles, 128, 1)
  BY <1>3, <1>4, <1>5, <1>6, FeedFields
<1>8. /\ r.c \in Configuration /\ r.c.m = m /\ r.c.wg = wg /\ r.c.groups = groups
      /\ r.c.subgroup = dev.subgroup /\ r.c.n = tiles
  BY <1>3, <1>7 DEF Common
<1>9. wg % dev.subgroup = 0
  BY <1>4, CapableLimits
<1>10. LET s == m.shape
       IN /\ Most(1, r.c.n) * s.m * s.k * Operand(s) <= dev.max_range
          /\ Most(1, r.c.n) * s.k * s.n * Operand(s) <= dev.max_range
  BY <1>2, <1>8, TilesFit
<1> QED BY <1>4, <1>8, <1>9, <1>10, MatrixAccepted

\* Rows of shared.
LEMMA SlotsAccepted ==
  ASSUME NEW dev \in Devices, Capable(dev), NEW lv, NEW r \in SharedStage(dev, lv)
  PROVE  RunnerAccepts(dev, r.c)
<1>1. PICK m \in Shared, p \in SharedPoints(dev, lv) :
        /\ Distinct(m, p[1], Count(m, p[2]), p[3])
        /\ r.c = Slots(dev, m, p[1], Count(m, p[2]), p[3])
  BY SharedRows
<1> DEFINE wg == p[1]
           bytes == p[2]
           stride == p[3]
           count == Count(m, bytes)
<1>2. /\ wg \in {32, 64, 128, 256} /\ stride \in {1, 2, 4, 8, 16, 32, 33, 64, 65}
      /\ bytes \in {1024, 2048, 4096, 8192, 16384, dev.max_shared}
  BY <1>1, SharedPointsType
<1>3. /\ wg \in Nat \ {0} /\ stride \in Nat /\ bytes \in Nat /\ bytes <= dev.max_shared
  <2> HIDE DEF wg, bytes, stride
  <2> QED BY SMT, <1>2, CapableLimits
<1>4. m \in Manifest /\ m.family = "shared"
  BY <1>1, FamilyNames DEF Manifest
<1>5. count \in Nat /\ count * m.width * Scalar(m.dtype) <= bytes
  <2> HIDE DEF bytes
  <2> QED BY <1>3, CountType
<1>6. Distinct(m, wg, count, stride) /\ r.c = Slots(dev, m, wg, count, stride)
  BY <1>1
<1> HIDE DEF wg, bytes, stride, count
<1>7. Common(dev, r.c, m, wg, 256, BaseN(m), 128, 1) /\ r.c.shared_count = count /\ r.c.stride = stride
  <2> DEFINE c == Slots(dev, m, wg, count, stride)
  <2>1. Common(dev, c, m, wg, 256, BaseN(m), 128, 1) /\ c.shared_count = count /\ c.stride = stride
    BY ONLY dev \in Devices, <1>3, <1>4, <1>5, SlotsFields
  <2> QED BY <1>6, <2>1
<1>8. /\ r.c \in Configuration /\ r.c.m = m /\ r.c.wg = wg /\ r.c.groups = 256 /\ r.c.n = 1024
  BY <1>4, <1>7 DEF Common, BaseN
<1>9. count * m.width * Scalar(m.dtype) <= dev.max_shared
  <2> DEFINE used == count * m.width * Scalar(m.dtype)
  <2>1. used \in Nat
    BY <1>5, SharedFields DEF Scalar
  <2>2. used <= bytes
    BY <1>5
  <2> HIDE DEF used
  <2>3. used <= dev.max_shared
    BY <1>3, <2>1, <2>2, CapableLimits
  <2> QED BY <2>3 DEF used
<1>10. /\ m.kind = "bw" => count >= wg * m.accumulators /\ (m.op = 2 => stride = 1)
       /\ m.op # 0 => wg * stride <= count
  BY <1>6 DEF Distinct
<1>11. r.c.groups <= 256
  BY SMT, <1>8
<1> QED BY <1>2, <1>7, <1>8, <1>9, <1>10, <1>11, SharedAccepted

-----------------------------------------------------------------------------
(* Images. *)

\* The numbers of texels of the stage.
TexelCounts == {65536, 131072, 16777216, 33554432}

\* They are powers of two, and of no other exponent.
LEMMA TexelPowers ==
  ASSUME NEW n \in TexelCounts
  PROVE  /\ \E e \in 16..25 : n = 2 ^ e
         /\ \A e \in 0..30 : 2 ^ e = n => e \in 16..25
<1> DEFINE power(x) == 2 ^ x
<1>1. /\ power(0) = 1 /\ power(1) = 2 /\ power(2) = 4
      /\ power(3) = 8 /\ power(4) = 16 /\ power(5) = 32
      /\ power(6) = 64 /\ power(7) = 128 /\ power(8) = 256
      /\ power(9) = 512 /\ power(10) = 1024 /\ power(11) = 2048
      /\ power(12) = 4096 /\ power(13) = 8192 /\ power(14) = 16384
      /\ power(15) = 32768 /\ power(16) = 65536 /\ power(17) = 131072
      /\ power(24) = 16777216 /\ power(25) = 33554432 /\ power(26) = 67108864
      /\ power(27) = 134217728 /\ power(28) = 268435456 /\ power(29) = 536870912
      /\ power(30) = 1073741824
  BY SMT
<1> HIDE DEF power
<1>2. \E e \in 16..25 : n = power(e)
  <2>1. n = power(16) \/ n = power(17) \/ n = power(24) \/ n = power(25)
    BY SMT, <1>1 DEF TexelCounts
  <2>2. 16 \in 16..25 /\ 17 \in 16..25 /\ 24 \in 16..25 /\ 25 \in 16..25
    BY SMT
  <2> QED BY <2>1, <2>2
<1>3. \A e \in 0..30 : power(e) = n => e \in 16..25
  <2> SUFFICES ASSUME NEW e \in 0..30, power(e) = n, e \notin 16..25 PROVE FALSE
    OBVIOUS
  <2>1. \/ e = 0 \/ e = 1 \/ e = 2 \/ e = 3 \/ e = 4 \/ e = 5 \/ e = 6 \/ e = 7
        \/ e = 8 \/ e = 9 \/ e = 10 \/ e = 11 \/ e = 12 \/ e = 13 \/ e = 14 \/ e = 15
        \/ e = 26 \/ e = 27 \/ e = 28 \/ e = 29 \/ e = 30
    BY SMT
  <2> QED BY SMT, <1>1, <2>1 DEF TexelCounts
<1> QED BY <1>2, <1>3 DEF power

\* So the runner's search for the exponent finds it.
LEMMA TexelLog ==
  ASSUME NEW n \in TexelCounts
  PROVE  Log2(n) \in 16..25 /\ \E e \in 0..30 : n = 2 ^ e
<1>1. PICK e \in 16..25 : n = 2 ^ e
  BY TexelPowers
<1>2. e \in 0..30
  BY <1>1
<1>3. \E x \in 0..30 : 2 ^ x = n
  BY Zenon, <1>1, <1>2
<1>4. Log2(n) \in 0..30 /\ 2 ^ Log2(n) = n
  BY Zenon, <1>3 DEF Log2
<1> QED BY Zenon, <1>3, <1>4, TexelPowers

\* Their extents are within the limits of both kinds of images.
LEMMA ImagesFit ==
  ASSUME NEW dev \in Devices, Capable(dev), NEW c, c.n \in TexelCounts, c.m.tex_dim \in {2, 3}
  PROVE  ImageFits(dev, c)
<1> DEFINE ln == Log2(c.n)
<1>1. ln \in 16..25
  BY TexelLog
<1> HIDE DEF ln
<1>2. /\ dev.image2d \in Nat /\ dev.image2d >= 13 /\ dev.image3d \in Nat /\ dev.image3d >= 9
  BY CapableLimits
<1>3. CASE c.m.tex_dim = 2
  BY SMT, <1>1, <1>2, <1>3 DEF ImageFits, ln, Least
<1>4. CASE c.m.tex_dim = 3
  BY SMT, <1>1, <1>2, <1>4 DEF ImageFits, ln, Least
<1> QED BY <1>3, <1>4

\* Rows of texture.
LEMMA TexturesAccepted ==
  ASSUME NEW dev \in Devices, Capable(dev), NEW lv, NEW r \in TextureStage(dev, lv)
  PROVE  RunnerAccepts(dev, r.c)
<1>1. PICK m \in Texture, size \in {MiB, 256 * MiB}, wg \in {64, 256} :
        /\ m.tex_dim = 0 => size <= dev.max_range
        /\ r.c = Sweep(dev, m, wg, 4096, size \div Texel(m.format))
  BY TextureRows
<1> DEFINE texel == Texel(m.format)
           n == size \div texel
<1>2. texel \in {8, 16} /\ m.tex_dim \in {0, 2, 3}
  BY TextureFields DEF Texel
<1>3. size \in {1048576, 268435456}
  BY SMT DEF MiB
<1> HIDE DEF texel
<1>4. n \in TexelCounts /\ n \in Nat /\ n * texel <= size
  <2>1. CASE texel = 8
    BY SMT, <1>3, <2>1 DEF TexelCounts
  <2>2. CASE texel = 16
    BY SMT, <1>3, <2>2 DEF TexelCounts
  <2> QED BY <1>2, <2>1, <2>2
<1>5. m \in Manifest /\ m.family = "texture" /\ wg \in Nat \ {0}
  BY SMT, <1>1, FamilyNames DEF Manifest
<1>6. r.c = Sweep(dev, m, wg, 4096, n)
  BY SMT, <1>1 DEF texel
<1> HIDE DEF n
<1>7. Common(dev, r.c, m, wg, 4096, n, 1, 1)
  BY <1>4, <1>5, <1>6, SweepFields
<1>8. r.c \in Configuration /\ r.c.m = m /\ r.c.wg = wg /\ r.c.groups = 4096 /\ r.c.n = n
  BY <1>7 DEF Common
<1>9. Buffers(r.c) = {Threads(r.c) * 16} \cup (IF m.tex_dim = 0 THEN {n * texel} ELSE {})
  BY <1>5, <1>8 DEF Buffers, texel
<1>10. Threads(r.c) * 16 <= dev.max_range /\ r.c.wg <= dev.max_workgroup
  BY SMT, <1>8, CapableLimits DEF Threads
<1>11. m.tex_dim = 0 => n * texel <= dev.max_range
  <2> DEFINE bytes == n * texel
  <2>1. bytes \in Nat /\ bytes <= size /\ size \in Nat
    BY SMT, <1>2, <1>3, <1>4
  <2> HIDE DEF bytes
  <2>2. m.tex_dim = 0 => bytes <= dev.max_range
    BY SMT, <1>1, <2>1, CapableLimits
  <2> QED BY <2>2 DEF bytes
<1>12. \A bytes \in Buffers(r.c) : bytes <= dev.max_range
  <2> DEFINE written == Threads(r.c) * 16
             read == n * texel
  <2>1. /\ Buffers(r.c) = {written} \cup (IF m.tex_dim = 0 THEN {read} ELSE {})
        /\ written <= dev.max_range /\ (m.tex_dim = 0 => read <= dev.max_range)
    BY Zenon, <1>9, <1>10, <1>11
  <2> HIDE DEF written, read
  <2>2. CASE m.tex_dim = 0
    BY <2>1, <2>2
  <2>3. CASE m.tex_dim # 0
    BY <2>1, <2>3
  <2> QED BY <2>2, <2>3
<1>13. \E e \in 0..30 : r.c.n = 2 ^ e
  <2>1. \E e \in 0..30 : n = 2 ^ e
    BY Zenon, <1>4, TexelLog
  <2>2. r.c.n = n
    BY <1>8
  <2> QED BY Zenon, <2>1, <2>2
<1>14. m.tex_dim # 0 => ImageFits(dev, r.c)
  BY <1>2, <1>4, <1>8, ImagesFit
<1>15. /\ r.c.m.family = "texture" /\ r.c.wg <= dev.max_workgroup
       /\ r.c.m.tex_dim # 0 => ImageFits(dev, r.c)
  BY <1>5, <1>8, <1>10, <1>14
<1>16. /\ r.c.m.family # "shared" /\ r.c.m.family # "memory" /\ r.c.m.family # "matrix"
  BY <1>15
<1> QED BY Zenon, <1>12, <1>13, <1>15, <1>16 DEF RunnerAccepts

-----------------------------------------------------------------------------
(* A whole plan. *)

\* Rows of every stage are accepted.
LEMMA PlanRowsAccepted ==
  ASSUME NEW dev \in Devices, Roomy(dev), NEW lv, NEW r \in PlanRows(dev, lv)
  PROVE  RunnerAccepts(dev, r.c)
<1>. Capable(dev)
  BY DEF Roomy
<1>1. PICK j \in 1..11 : r \in Rows(ShortStages[j], dev, lv)
  BY DEF PlanRows
<1>2. \/ r \in Validate(dev, lv) \/ r \in FirstLook(dev, lv) \/ r \in CacheStage(dev, lv)
      \/ r \in MemoryStage(dev, lv) \/ r \in Compute(dev, lv) \/ r \in MatrixFeed(dev, lv)
      \/ r \in TextureStage(dev, lv) \/ r \in SharedStage(dev, lv) \/ r \in LatencyStage(dev, lv)
      \/ r \in ErtStage(dev, lv) \/ r \in MemoryType(dev, lv)
  BY <1>1 DEF Rows, ShortStages
<1> QED BY <1>2, ValidateAccepted, FirstLookAccepted, CacheAccepted, SweepsAccepted, GridsAccepted,
           FeedAccepted, TexturesAccepted, SlotsAccepted, WalksAccepted, KernelsAccepted,
           RepetitionsAccepted

\* On any device with room, whatever is selected, the native runner accepts every launch of
\* the plan: none fails for its size, its workgroup, its shared memory or its image.
THEOREM LaunchesAccepted == SelectionSpec => []LaunchesFit
<1>1. SelectionInv => LaunchesFit
  <2> SUFFICES ASSUME SelectionInv, Roomy(device), NEW r \in Planned
               PROVE  RunnerAccepts(device, r.c)
    BY DEF LaunchesFit
  <2>1. device \in Devices
    BY DEF SelectionInv, SelectionTypeOK
  <2> QED BY <2>1, PlannedRows, PlanRowsAccepted
<1> QED BY <1>1, SelectionInvHolds, PTL

-----------------------------------------------------------------------------
(* A plan of which nothing is left out. *)

\* Without selectors, every row of the stages already passed is planned.
Collected ==
  Full /\ pc \in {"idle", "collect", "planned"} =>
    /\ \A j \in 1..(at - 1) : Rows(ShortStages[j], device, level) \subseteq Planned
    /\ pc = "planned" => at = 12

\* Nothing is passed at first.
LEMMA CollectedInit == SelectionInit => Collected
<1> SUFFICES ASSUME SelectionInit PROVE Collected
  OBVIOUS
<1>1. 1..(at - 1) = {} /\ pc = "idle"
  BY DEF SelectionInit
<1> QED BY <1>1 DEF Collected

\* A sequence keeps its elements when one is appended.
LEMMA AppendedTo ==
  ASSUME NEW S, NEW s \in Seq(S), NEW e
  PROVE  LET t == Append(s, e) IN
         /\ \E i \in DOMAIN t : t[i] = e
         /\ \A i \in DOMAIN s : i \in DOMAIN t /\ t[i] = s[i]
<1> DEFINE t == Append(s, e)
           k == Len(s) + 1
<1>1. Len(s) \in Nat /\ DOMAIN s = 1..Len(s)
  OBVIOUS
<1>2. DOMAIN t = 1..k /\ t[k] = e
  BY <1>1
<1>3. k \in 1..k
  BY <1>1
<1>4. ASSUME NEW i \in DOMAIN s PROVE i \in DOMAIN t /\ t[i] = s[i]
  BY <1>1, <1>2
<1> QED BY <1>2, <1>3, <1>4

\* A stage adds all of its rows, and keeps those of the stages before it.
LEMMA StageCollected ==
  ASSUME SelectionInv, Full, Collect
  PROVE  Planned \subseteq Planned' /\ Rows(ShortStages[at], device, level) \subseteq Planned'
<1> DEFINE stage == ShortStages[at]
           rows == {r \in Rows(stage, device, level) :
                      Selects(selector.families, r.c.m.family) /\ Selects(selector.variants, r.c.m)}
           entry == [stage |-> stage, rows |-> rows]
           entries == [stage : StageNames, rows : SUBSET PlanRows(device, level)]
<1>1. selected \in Seq(entries)
  BY DEF SelectionInv
<1>2. selected' = IF Selects(selector.stages, stage) /\ rows # {}
                    THEN Append(selected, entry) ELSE selected
  BY DEF Collect
<1>3. rows = Rows(stage, device, level) /\ Selects(selector.stages, stage)
  BY DEF Full, Selects
<1> HIDE DEF rows, stage
<1>4. CASE rows = {}
  <2>1. Planned' = Planned
    BY <1>2, <1>4 DEF Planned
  <2> QED BY <1>3, <1>4, <2>1 DEF stage
<1>5. CASE rows # {}
  <2>1. selected' = Append(selected, entry)
    BY <1>2, <1>3, <1>5
  <2>2. entry.rows = rows
    OBVIOUS
  <2> HIDE DEF entry, entries
  <2>3. /\ \E i \in DOMAIN selected' : selected'[i] = entry
        /\ \A i \in DOMAIN selected : i \in DOMAIN selected' /\ selected'[i] = selected[i]
    BY <1>1, <2>1, AppendedTo
  <2>4. rows \subseteq Planned'
    BY <2>2, <2>3 DEF Planned
  <2>5. Planned \subseteq Planned'
    BY <2>3 DEF Planned
  <2> QED BY <1>3, <2>4, <2>5 DEF stage
<1> QED BY <1>4, <1>5

\* Every step keeps what is collected, a replay because nothing is planned any more;
LEMMA CollectedStep ==
  ASSUME SelectionInv, Collected, [SelectionNext]_selectionVars
  PROVE  Collected'
<1>1. at \in 1..12 /\ Len(ShortStages) = 11
  BY StageCount DEF SelectionInv, SelectionTypeOK
<1>2. CASE Request
  <2>1. pc = "idle" /\ pc' # "planned" /\ UNCHANGED <<device, level, selector, at, selected>>
    BY <1>2 DEF Request
  <2> QED BY <2>1 DEF Collected, Full, Planned
<1>3. CASE Collect
  <2>1. pc = "collect" /\ pc' = pc /\ at' = at + 1 /\ UNCHANGED <<device, level, selector>>
    BY <1>3 DEF Collect
  <2>2. CASE ~Full
    BY <2>1, <2>2 DEF Collected, Full
  <2>3. CASE Full
    <3>1. Planned \subseteq Planned' /\ Rows(ShortStages[at], device, level) \subseteq Planned'
      BY <1>3, <2>3, StageCollected
    <3>2. \A j \in 1..(at - 1) : Rows(ShortStages[j], device, level) \subseteq Planned
      BY <2>1, <2>3 DEF Collected
    <3>3. \A j \in 1..(at' - 1) : j \in 1..(at - 1) \/ j = at
      BY <1>1, <2>1
    <3>4. \A j \in 1..(at' - 1) : Rows(ShortStages[j], device, level) \subseteq Planned'
      BY <3>1, <3>2, <3>3
    <3> QED BY <2>1, <3>4 DEF Collected
  <2> QED BY <2>2, <2>3
<1>4. CASE Finish
  <2>1. pc = "collect" /\ at = 12 /\ UNCHANGED <<device, level, selector, at, selected>>
    BY <1>1, <1>4 DEF Finish
  <2> QED BY <2>1 DEF Collected, Full, Planned
<1>5. CASE Replay
  <2>1. pc' \in {"replayed", "refused"}
    BY <1>5 DEF Replay
  <2> QED BY <2>1 DEF Collected
<1>6. CASE UNCHANGED selectionVars
  BY <1>6 DEF selectionVars, Collected, Full, Planned
<1> QED BY <1>2, <1>3, <1>4, <1>5, <1>6 DEF SelectionNext

\* hence it holds always,
LEMMA CollectedHolds == SelectionSpec => []Collected
  BY CollectedInit, CollectedStep, SelectionInvHolds, PTL DEF SelectionSpec

\* and a whole plan has the rows of every stage.
LEMMA WholePlan ==
  ASSUME Collected, Full, pc = "planned"
  PROVE  PlanRows(device, level) \subseteq Planned
<1>1. at - 1 = 11
  BY DEF Collected
<1>2. \A j \in 1..11 : Rows(ShortStages[j], device, level) \subseteq Planned
  BY <1>1 DEF Collected
<1> QED BY <1>2 DEF PlanRows

-----------------------------------------------------------------------------
(* A launch for every roof. *)

\* A plan has a launch that the runner accepts and that defines the roof of the key.
Reached(dev, lv, key) ==
  \E r \in PlanRows(dev, lv) : RunnerAccepts(dev, r.c) /\ RoofKey(r.tag, r.c) = key

\* The rows of the stages that define roofs are rows of the plan.
LEMMA StagesOfPlan ==
  ASSUME NEW dev, NEW lv
  PROVE  /\ CacheStage(dev, lv) \subseteq PlanRows(dev, lv)
         /\ MemoryStage(dev, lv) \subseteq PlanRows(dev, lv)
         /\ Compute(dev, lv) \subseteq PlanRows(dev, lv)
         /\ MatrixFeed(dev, lv) \subseteq PlanRows(dev, lv)
         /\ TextureStage(dev, lv) \subseteq PlanRows(dev, lv)
         /\ SharedStage(dev, lv) \subseteq PlanRows(dev, lv)
<1>1. /\ ShortStages[3] = "cache" /\ ShortStages[4] = "memory" /\ ShortStages[5] = "compute"
      /\ ShortStages[6] = "matrix_feed" /\ ShortStages[7] = "texture" /\ ShortStages[8] = "shared"
  BY DEF ShortStages
<1>2. /\ Rows("cache", dev, lv) = CacheStage(dev, lv)
      /\ Rows("memory", dev, lv) = MemoryStage(dev, lv)
      /\ Rows("compute", dev, lv) = Compute(dev, lv)
      /\ Rows("matrix_feed", dev, lv) = MatrixFeed(dev, lv)
      /\ Rows("texture", dev, lv) = TextureStage(dev, lv)
      /\ Rows("shared", dev, lv) = SharedStage(dev, lv)
  BY DEF Rows
<1>3. {3, 4, 5, 6, 7, 8} \subseteq 1..11
  OBVIOUS
<1>4. \A j \in 1..11 : Rows(ShortStages[j], dev, lv) \subseteq PlanRows(dev, lv)
  BY DEF PlanRows
<1> HIDE DEF ShortStages
<1> QED BY <1>1, <1>2, <1>3, <1>4

\* The powers of two used below.
LEMMA PowersUsed == 2 ^ 16 = 65536 /\ 2 ^ 28 = 268435456 /\ 2 ^ 29 = 536870912
<1> DEFINE power(x) == 2 ^ x
<1>1. power(16) = 65536 /\ power(28) = 268435456 /\ power(29) = 536870912
  BY SMT
<1> QED BY <1>1

\* A variant of memory that defines roofs.
Plainly(op) ==
  [family |-> "memory", op |-> op, width |-> 4, dtype |-> "fp32", volatile_global |-> FALSE]

\* It is one of the catalogue.
LEMMA PlainVariant ==
  ASSUME NEW op \in 0..6
  PROVE  /\ Plainly(op) \in Memory /\ Plainly(op) \in Manifest
         /\ Plainly(op).op = op /\ Plainly(op).width = 4 /\ Plainly(op).dtype = "fp32"
         /\ Plainly(op).family = "memory" /\ ~Plainly(op).volatile_global
<1>1. Plainly(op) \in Memory
  BY DEF Plainly, Memory, Read, DotOp, Widths
<1>2. ~Plainly(op).volatile_global
  BY Zenon DEF Plainly
<1>3. /\ Plainly(op).op = op /\ Plainly(op).width = 4 /\ Plainly(op).dtype = "fp32"
      /\ Plainly(op).family = "memory"
  BY DEF Plainly
<1> QED BY <1>1, <1>2, <1>3 DEF Manifest

\* The roofs of memory.
LEMMA SweptCache ==
  ASSUME NEW r, r.tag = "sweep-cache", r.c.m.family = "memory", ~r.c.m.volatile_global,
         r.c.memory_mode = "device_local", CacheSized(r.c)
  PROVE  RoofKey(r.tag, r.c) = <<"cache_read_effective">>
  BY DEF RoofKey, IsControl

\* Likewise what an array in memory defines.
LEMMA SweptMemory ==
  ASSUME NEW r, r.tag = "sweep-memory", r.c.m.family = "memory", ~r.c.m.volatile_global,
         r.c.memory_mode = "device_local", r.c.role = "none", WorkingSet(r.c) >= 256 * MiB
  PROVE  RoofKey(r.tag, r.c) = <<"memory", r.c.m.dtype, r.c.m.op>>
  BY DEF RoofKey, IsControl

\* 64 KiB are in any cache's reach.
LEMMA CacheReached ==
  ASSUME NEW dev \in Devices, Capable(dev), NEW lv \in Levels
  PROVE  Reached(dev, lv, <<"cache_read_effective">>)
<1> DEFINE m == Plainly(0)
<1>1. /\ m \in Memory /\ m.op = 0 /\ m.width = 4 /\ m.dtype = "fp32" /\ m.family = "memory"
      /\ ~m.volatile_global
  <2>1. 0 \in 0..6
    OBVIOUS
  <2> QED BY Zenon, <2>1, PlainVariant
<1>2. m \in CacheReads(lv)
  BY Zenon, <1>1 DEF CacheReads, Read
<1>3. PICK size \in CacheSizes(dev) : size = 65536
  <2>1. 65536 <= Least(512 * MiB, dev.max_range)
    <3>1. dev.max_range \in Nat /\ dev.max_range >= 268435456
      BY CapableLimits
    <3> QED BY SMT, <3>1 DEF Least, MiB
  <2>2. 65536 \in {2 ^ e : e \in 12..29}
    BY PowersUsed
  <2> QED BY SMT, <2>1, <2>2 DEF CacheSizes, UpTo
<1>4. PICK wg \in IF Brief(lv) THEN {128} ELSE {64, 128, 256} : wg = 128
  BY Zenon
<1> DEFINE r == Row("sweep-cache", Cached(dev, m, size, wg))
<1>5. r \in CacheStage(dev, lv)
  <2>1. \E a \in CacheReads(lv), b \in CacheSizes(dev), c \in IF Brief(lv) THEN {128} ELSE {64, 128, 256} :
          r = Row("sweep-cache", Cached(dev, a, b, c))
    BY ONLY <1>2, size \in CacheSizes(dev), wg \in IF Brief(lv) THEN {128} ELSE {64, 128, 256}
  <2> HIDE DEF r
  <2> QED BY ONLY <2>1 DEF CacheStage
<1>6. RunnerAccepts(dev, r.c)
  BY <1>5, CacheAccepted
<1>7. r.tag = "sweep-cache" /\ r.c = Cached(dev, m, size, wg)
  BY RowParts
<1> HIDE DEF r, m
<1>8. r.c.m = m /\ r.c.memory_mode = "device_local" /\ r.c.n = CacheElements(m, size)
  <2>1. size \in Nat /\ wg \in {64, 128, 256}
    BY SMT, <1>3, <1>4
  <2>2. /\ Common(dev, r.c, m, wg, CacheGroups(m, size, wg), CacheElements(m, size), 1,
                  CacheReplicas(m, size, wg))
        /\ Usual(r.c)
    BY <1>1, <1>7, <2>1, CachedFields
  <2> QED BY <2>2 DEF Common, Usual
<1>9. r.c.n = 4096
  BY SMT, <1>1, <1>3, <1>8 DEF CacheElements
<1>10. WorkingSet(r.c) = 65536
  BY SMT, <1>1, <1>8, <1>9 DEF WorkingSet, ArraysPerOp
<1>11. CacheSized(r.c)
  BY SMT, <1>10 DEF CacheSized, MiB
<1>12. RoofKey(r.tag, r.c) = <<"cache_read_effective">>
  BY Zenon, <1>1, <1>7, <1>8, <1>11, SweptCache
<1> QED BY <1>5, <1>6, <1>12, StagesOfPlan DEF Reached

\* Of one, two or three arrays, a working set of DRAM each of whose arrays fits into 256 MiB.
LEMMA LargeSet ==
  ASSUME NEW op \in 0..6
  PROVE  \E e \in 28..29 :
           LET n == Elements(op, 2 ^ e)
           IN n \in Nat /\ n * 16 <= 256 * MiB /\ n * 4 * 4 * ArraysPerOp[op + 1] >= 256 * MiB
<1> DEFINE arrays == ArraysPerOp[op + 1]
           elements(size) == ((size \div (arrays * 16)) \div 64) * 64
           large(n) == n \in Nat /\ n * 16 <= 256 * MiB /\ n * 4 * 4 * arrays >= 256 * MiB
           power(e) == 2 ^ e
<1>1. arrays \in {1, 2, 3}
  BY DEF ArraysPerOp
<1>2. \A e : Elements(op, 2 ^ e) = elements(power(e))
  BY DEF Elements
<1>3. power(28) = 268435456 /\ power(29) = 536870912
  BY SMT, PowersUsed
<1> HIDE DEF arrays, power
<1>4. arrays \in {1, 2} => large(elements(power(28)))
  <2>1. CASE arrays = 1
    BY SMT, <1>3, <2>1 DEF MiB
  <2>2. CASE arrays = 2
    BY SMT, <1>3, <2>2 DEF MiB
  <2> QED BY <2>1, <2>2
<1>5. arrays = 3 => large(elements(power(29)))
  BY SMT, <1>3 DEF MiB
<1>6. \E e \in 28..29 : large(elements(power(e)))
  <2>1. 28 \in 28..29 /\ 29 \in 28..29
    BY SMT
  <2> HIDE DEF large, elements
  <2> QED BY <1>1, <1>4, <1>5, <2>1
<1>7. PICK e \in 28..29 : large(elements(power(e)))
  BY <1>6
<1>8. Elements(op, 2 ^ e) = elements(power(e))
  BY <1>2
<1> HIDE DEF elements
<1> QED BY <1>7, <1>8 DEF arrays

\* One pass over arrays of n elements.
Pass(dev, m, n) == Row("sweep-memory", Sweep(dev, m, 64, Least(4096, Most(1, n \div 64)), n))

\* A row of memory for each pair of a variant and a size.
LEMMA MemoryRow ==
  ASSUME NEW dev \in Devices, NEW lv \in Levels, NEW m \in Memory, m.width = 4,
         ~m.volatile_global, lv = "fast" => m.op \in {Read, Write, Copy, Triad},
         NEW size \in MemorySizes(lv), Elements(m.op, size) * 16 <= dev.max_range
  PROVE  Pass(dev, m, Elements(m.op, size)) \in MemoryStage(dev, lv)
<1> DEFINE Measured == {x \in Memory : /\ x.width = 4
                                       /\ Brief(lv) => ~x.volatile_global
                                       /\ lv = "fast" => x.op \in {Read, Write, Copy, Triad}}
           row(x, s) == Pass(dev, x, Elements(x.op, s))
           fits == {q \in Measured \X MemorySizes(lv) : Elements(q[1].op, q[2]) * 16 <= dev.max_range}
           p == <<m, size>>
<1>1. MemoryStage(dev, lv) = {row(q[1], q[2]) : q \in fits}
  BY SMT DEF MemoryStage, Pass
<1>2. m \in Measured
  BY Zenon
<1>3. p[1] = m /\ p[2] = size
  OBVIOUS
<1> HIDE DEF Measured, row
<1>4. p \in Measured \X MemorySizes(lv)
  BY <1>2
<1> HIDE DEF p
<1>5. p \in fits
  BY <1>3, <1>4
<1>6. row(m, size) \in {row(q[1], q[2]) : q \in fits}
  BY <1>3, <1>5
<1> QED BY <1>1, <1>6 DEF row

\* So every operation has a working set of memory.
LEMMA MemoryReached ==
  ASSUME NEW dev \in Devices, Capable(dev), NEW lv \in Levels, NEW op \in 0..6,
         lv = "fast" => op \in {Read, Write, Copy, Triad}
  PROVE  Reached(dev, lv, <<"memory", "fp32", op>>)
<1> DEFINE m == Plainly(op)
<1>1. /\ m \in Memory /\ m \in Manifest /\ m.op = op /\ m.width = 4 /\ m.dtype = "fp32"
      /\ m.family = "memory" /\ ~m.volatile_global
  BY Zenon, PlainVariant
<1> HIDE DEF m
<1>2. PICK e \in 28..29 :
        LET n == Elements(op, 2 ^ e)
        IN n \in Nat /\ n * 16 <= 256 * MiB /\ n * 4 * 4 * ArraysPerOp[op + 1] >= 256 * MiB
  BY LargeSet
<1> DEFINE size == 2 ^ e
           n == Elements(op, size)
           groups == Least(4096, Most(1, n \div 64))
           r == Pass(dev, m, n)
<1>3. size \in MemorySizes(lv)
  <2>1. e \in 28..29 /\ e \in 12..29
    BY SMT
  <2> QED BY Zenon, <2>1 DEF MemorySizes
<1>4. n \in Nat /\ n * 16 <= 256 * MiB /\ n * 4 * 4 * ArraysPerOp[op + 1] >= 256 * MiB
  BY Zenon, <1>2
<1> HIDE DEF size
<1>5. n * 16 <= dev.max_range
  <2> DEFINE bytes == n * 16
  <2>1. bytes \in Nat /\ bytes <= 256 * MiB
    BY <1>4
  <2> HIDE DEF bytes
  <2>2. bytes <= dev.max_range
    BY SMT, <2>1, CapableLimits DEF MiB
  <2> QED BY <2>2 DEF bytes
<1>6. r \in MemoryStage(dev, lv)
  <2> HIDE DEF n
  <2>1. n = Elements(m.op, size)
    BY <1>1 DEF n
  <2> QED BY Zenon, <1>1, <1>3, <1>5, <2>1, MemoryRow
<1>7. RunnerAccepts(dev, r.c)
  BY <1>6, SweepsAccepted
<1>8. r.tag = "sweep-memory" /\ r.c = Sweep(dev, m, 64, groups, n)
  BY SMT, RowParts DEF Pass
<1> HIDE DEF r, n
<1>9. groups \in Nat \ {0}
  <2>1. n \in Nat
    BY <1>4
  <2> QED BY SMT, <2>1 DEF Least, Most
<1> HIDE DEF groups
<1>10. Common(dev, r.c, m, 64, groups, n, 1, 1) /\ Usual(r.c)
  <2>1. n \in Nat /\ 64 \in Nat \ {0}
    BY <1>4
  <2>2. LET c == Sweep(dev, m, 64, groups, n) IN Common(dev, c, m, 64, groups, n, 1, 1) /\ Usual(c)
    BY <1>1, <1>9, <2>1, SweepFields
  <2> QED BY <1>8, <2>2
<1>11. r.c.m = m /\ r.c.memory_mode = "device_local" /\ r.c.role = "none" /\ r.c.n = n
  BY <1>10 DEF Common, Usual
<1>12. WorkingSet(r.c) = n * 4 * 4 * ArraysPerOp[op + 1]
  BY <1>1, <1>11 DEF WorkingSet
<1>13. WorkingSet(r.c) >= 256 * MiB
  <2> DEFINE bytes == n * 4 * 4 * ArraysPerOp[op + 1]
  <2>1. bytes >= 256 * MiB
    BY <1>4
  <2>2. WorkingSet(r.c) = bytes
    BY <1>12
  <2> HIDE DEF bytes
  <2> QED BY SMT, <2>1, <2>2 DEF MiB
<1>14. RoofKey(r.tag, r.c) = <<"memory", "fp32", op>>
  BY Zenon, <1>1, <1>8, <1>11, <1>13, SweptMemory
<1> QED BY <1>6, <1>7, <1>14, StagesOfPlan DEF Reached

\* A variant and one of its grids are a row of compute.
LEMMA ComputeRow ==
  ASSUME NEW dev \in Devices, NEW lv \in Levels, NEW m \in Alu \cup Dot \cup Matrix,
         m.family = "matrix" => /\ m.feed = "none" /\ Eligible(dev, m)
                                /\ lv = "fast" => m.chains \in {4, 8},
         NEW wg, NEW groups, <<wg, groups>> \in ComputeGrid(dev, m, lv)
  PROVE  Row("sweep-compute", Launch(dev, m, wg, groups)) \in Compute(dev, lv)
<1> DEFINE row(x, p) == Row("sweep-compute", Launch(dev, x, p[1], p[2]))
           variants == {x \in Alu \cup Dot \cup Matrix :
                          x.family = "matrix" => /\ x.feed = "none" /\ Eligible(dev, x)
                                                 /\ lv = "fast" => x.chains \in {4, 8}}
           grid(x) == ComputeGrid(dev, x, lv)
           p == <<wg, groups>>
<1>1. Compute(dev, lv) = UNION {{row(x, q) : q \in grid(x)} : x \in variants}
  BY Zenon DEF Compute
<1>2. m \in variants
  BY Zenon
<1>3. p[1] = wg /\ p[2] = groups /\ p \in grid(m)
  OBVIOUS
<1>4. row(m, p) = Row("sweep-compute", Launch(dev, m, wg, groups))
  BY <1>3
<1> HIDE DEF row, variants, grid, p
<1>5. row(m, p) \in UNION {{row(x, q) : q \in grid(x)} : x \in variants}
  BY <1>2, <1>3
<1> QED BY <1>1, <1>4, <1>5

\* One chain of one component, in a grid of 256 by 2048, which every level has.
LEMMA ArithmeticReached ==
  ASSUME NEW dev \in Devices, Capable(dev), NEW lv \in Levels, NEW m \in Alu \cup Dot
  PROVE  Reached(dev, lv, <<m.family, m.dtype>>)
<1>1. m.family \in {"alu", "dot"} /\ m \in Manifest
  BY FamilyNames DEF Manifest
<1>2. PICK wg, groups : wg = 256 /\ groups = 2048
  OBVIOUS
<1>3. <<wg, groups>> \in ComputeGrid(dev, m, lv)
  BY SMT, <1>1, <1>2, PlanningAssumption DEF ComputeGrid
<1> DEFINE r == Row("sweep-compute", Launch(dev, m, wg, groups))
<1>4. r \in Compute(dev, lv)
  BY <1>1, <1>3, ComputeRow
<1>5. r.tag = "sweep-compute" /\ r.c = Launch(dev, m, wg, groups)
  BY RowParts
<1> HIDE DEF r
<1>6. wg \in Nat \ {0} /\ groups \in Nat \ {0}
  BY SMT, <1>2
<1>7. Common(dev, r.c, m, wg, groups, BaseN(m), 128, 1) /\ Usual(r.c)
  <2> DEFINE c == Launch(dev, m, wg, groups)
  <2>1. Common(dev, c, m, wg, groups, BaseN(m), 128, 1) /\ Usual(c)
    BY ONLY <1>1, <1>6, LaunchFields, dev \in Devices
  <2> QED BY <1>5, <2>1
<1>8. r.c.m = m /\ r.c.groups = groups /\ r.c.memory_mode = "device_local"
  BY <1>7 DEF Common, Usual
<1>9. RunnerAccepts(dev, r.c)
  <2>1. r.c.groups # 8192
    BY SMT, <1>2, <1>8
  <2> QED BY <1>4, <2>1, GridsAccepted
<1>10. RoofKey(r.tag, r.c) = <<m.family, m.dtype>>
  BY <1>1, <1>8 DEF RoofKey, IsControl
<1> QED BY <1>4, <1>9, <1>10, StagesOfPlan DEF Reached

\* A variant and a point at which its slots are distinct are a row of shared.
LEMMA SharedRow ==
  ASSUME NEW dev \in Devices, NEW lv \in Levels, NEW m \in SharedMeasured(lv),
         NEW wg, NEW bytes, NEW stride, <<wg, bytes, stride>> \in SharedPoints(dev, lv),
         Distinct(m, wg, Count(m, bytes), stride)
  PROVE  Row("sweep-shared", Slots(dev, m, wg, Count(m, bytes), stride)) \in SharedStage(dev, lv)
<1> DEFINE row(x, p) == Row("sweep-shared", Slots(dev, x, p[1], Count(x, p[2]), p[3]))
           points(x) == {q \in SharedPoints(dev, lv) : Distinct(x, q[1], Count(x, q[2]), q[3])}
           p == <<wg, bytes, stride>>
<1>1. SharedStage(dev, lv) = UNION {{row(x, q) : q \in points(x)} : x \in SharedMeasured(lv)}
  BY Zenon DEF SharedStage
<1>2. p[1] = wg /\ p[2] = bytes /\ p[3] = stride /\ p \in SharedPoints(dev, lv)
  OBVIOUS
<1>3. row(m, p) = Row("sweep-shared", Slots(dev, m, wg, Count(m, bytes), stride))
  BY <1>2
<1>4. p \in points(m)
  BY <1>2
<1> HIDE DEF row, points, p
<1>5. row(m, p) \in UNION {{row(x, q) : q \in points(x)} : x \in SharedMeasured(lv)}
  BY <1>4
<1> QED BY <1>1, <1>3, <1>5

\* All of shared memory in 64 invocations with 8 accumulators.
LEMMA SharedReached ==
  ASSUME NEW dev \in Devices, Capable(dev), NEW lv \in Levels, NEW t \in Floats, NEW op \in {0, 2}
  PROVE  Reached(dev, lv, <<"shared", t, op>>)
<1> DEFINE m == [family |-> "shared", kind |-> "bw", dtype |-> t, width |-> 4, op |-> op,
                 accumulators |-> 8]
<1>1. /\ m \in Shared /\ m.kind = "bw" /\ m.dtype = t /\ m.width = 4 /\ m.op = op
      /\ m.accumulators = 8 /\ m.family = "shared"
  BY DEF Shared, SharedOf, Widths
<1> HIDE DEF m
<1>2. m \in SharedMeasured(lv) /\ m \in Manifest
  BY <1>1 DEF SharedMeasured, Manifest
<1>3. PICK bytes, stride, wg : bytes = dev.max_shared /\ stride = 1 /\ wg = 64
  OBVIOUS
<1>4. <<wg, bytes, stride>> \in SharedPoints(dev, lv)
  BY <1>3 DEF SharedPoints
<1> DEFINE count == Count(m, bytes)
           r == Row("sweep-shared", Slots(dev, m, wg, count, stride))
<1>5. count \in Nat /\ count >= 1024
  <2>1. bytes \in Nat /\ bytes >= 16384
    BY <1>3, CapableLimits
  <2>2. m.width * Scalar(m.dtype) \in {8, 16}
    BY <1>1 DEF Scalar
  <2> DEFINE d == m.width * Scalar(m.dtype)
  <2> HIDE DEF d
  <2>3. bytes \div d \in Nat /\ bytes \div d >= 1024
    <3>1. CASE d = 8
      BY SMT, <2>1, <3>1
    <3>2. CASE d = 16
      BY SMT, <2>1, <3>2
    <3> QED BY <2>2, <3>1, <3>2 DEF d
  <2> QED BY <2>3 DEF d, Count
<1> HIDE DEF count
<1>6. Distinct(m, wg, count, stride)
  BY SMT, <1>1, <1>3, <1>5 DEF Distinct
<1>7. r \in SharedStage(dev, lv)
  BY <1>2, <1>4, <1>6, SharedRow DEF count
<1>8. RunnerAccepts(dev, r.c)
  BY <1>7, SlotsAccepted
<1>9. r.tag = "sweep-shared" /\ r.c = Slots(dev, m, wg, count, stride)
  BY RowParts
<1> HIDE DEF r
<1>10. Common(dev, r.c, m, wg, 256, BaseN(m), 128, 1) /\ Usual(r.c)
  <2>1. wg \in Nat \ {0} /\ stride \in Nat /\ count \in Nat
    BY <1>3, <1>5
  <2> QED BY <1>2, <1>9, <2>1, SlotsFields
<1>11. r.c.m = m /\ r.c.memory_mode = "device_local"
  BY <1>10 DEF Common, Usual
<1>12. RoofKey(r.tag, r.c) = <<"shared", t, op>>
  BY <1>1, <1>11 DEF RoofKey, IsControl
<1> QED BY <1>7, <1>8, <1>12, StagesOfPlan DEF Reached

\* A variant and one of the sizes are a row of texture.
LEMMA TextureRow ==
  ASSUME NEW dev \in Devices, NEW lv \in Levels, NEW m \in Texture, NEW size \in {MiB, 256 * MiB},
         m.tex_dim = 0 => size <= dev.max_range
  PROVE  Row("sweep-texture", Sweep(dev, m, 256, 4096, size \div Texel(m.format)))
           \in TextureStage(dev, lv)
<1> DEFINE row(p, wg) == Row("sweep-texture", Sweep(dev, p[1], wg, 4096, p[2] \div Texel(p[1].format)))
           pairs == {q \in Texture \X {MiB, 256 * MiB} : q[1].tex_dim = 0 => q[2] <= dev.max_range}
           sizes == IF Brief(lv) THEN {256} ELSE {64, 256}
           p == <<m, size>>
<1>1. TextureStage(dev, lv) = {row(q, wg) : q \in pairs, wg \in sizes}
  BY SMT DEF TextureStage
<1>2. p[1] = m /\ p[2] = size /\ p \in pairs /\ 256 \in sizes
  BY SMT
<1>3. row(p, 256) = Row("sweep-texture", Sweep(dev, m, 256, 4096, size \div Texel(m.format)))
  BY SMT, <1>2
<1> HIDE DEF row, pairs, sizes, p
<1>4. row(p, 256) \in {row(q, wg) : q \in pairs, wg \in sizes}
  BY SMT, <1>2
<1> QED BY SMT, <1>1, <1>3, <1>4

\* 1 MiB and 256 MiB of texels.
LEMMA TextureReached ==
  ASSUME NEW dev \in Devices, Capable(dev), NEW lv \in Levels, NEW m \in Texture,
         NEW l \in {"cache", "dram"}
  PROVE  Reached(dev, lv, <<"texture", m.format, m.tex_dim, l>>)
<1> DEFINE size == IF l = "cache" THEN MiB ELSE 256 * MiB
           texel == Texel(m.format)
           n == size \div texel
           r == Row("sweep-texture", Sweep(dev, m, 256, 4096, n))
<1>1. size \in {MiB, 256 * MiB} /\ size <= dev.max_range
  BY SMT, CapableLimits DEF MiB
<1>2. m \in Manifest /\ m.family = "texture"
  BY FamilyNames DEF Manifest
<1>3. r \in TextureStage(dev, lv)
  BY <1>1, TextureRow
<1>4. RunnerAccepts(dev, r.c)
  BY <1>3, TexturesAccepted
<1>5. r.tag = "sweep-texture" /\ r.c = Sweep(dev, m, 256, 4096, n)
  BY SMT, RowParts
<1>6. texel \in {8, 16}
  BY DEF Texel
<1> HIDE DEF texel, r
<1>7. n \in Nat /\ n * texel = size
  <2>1. CASE texel = 8
    BY SMT, <1>1, <2>1 DEF MiB
  <2>2. CASE texel = 16
    BY SMT, <1>1, <2>2 DEF MiB
  <2> QED BY <1>6, <2>1, <2>2
<1> HIDE DEF n
<1>8. Common(dev, r.c, m, 256, 4096, n, 1, 1) /\ Usual(r.c)
  <2>1. n \in Nat /\ 256 \in Nat \ {0} /\ 4096 \in Nat \ {0}
    BY SMT, <1>7
  <2> QED BY SMT, <1>2, <1>5, <2>1, SweepFields
<1>9. r.c.m = m /\ r.c.n = n /\ r.c.memory_mode = "device_local"
  BY SMT, <1>8 DEF Common, Usual
<1>10. WorkingSet(r.c) = size
  BY SMT, <1>2, <1>7, <1>9 DEF WorkingSet, texel
<1>11. Where(WorkingSet(r.c)) = l
  <2>1. l = "cache" => size = MiB
    OBVIOUS
  <2>2. l = "dram" => size = 256 * MiB
    OBVIOUS
  <2> HIDE DEF size
  <2> QED BY SMT, <1>10, <2>1, <2>2 DEF Where, MiB
<1>12. RoofKey(r.tag, r.c) = <<"texture", m.format, m.tex_dim, l>>
  BY SMT, <1>2, <1>9, <1>11 DEF RoofKey, IsControl, TextureKey
<1> QED BY <1>3, <1>4, <1>12, StagesOfPlan DEF Reached

\* A variant of a shape.
ShapeVariant(s, chains, feed) ==
  [family |-> "matrix", shape |-> s, chains |-> chains, width |-> 1, feed |-> feed]

\* It is one of the catalogue.
LEMMA ShapeVariantFields ==
  ASSUME NEW s \in Shapes, NEW chains \in {1, 2, 4, 8}, NEW feed \in {"none", "shared", "global"}
  PROVE  LET m == ShapeVariant(s, chains, feed)
         IN /\ m \in Matrix /\ m \in Manifest /\ m.family = "matrix"
            /\ m.shape = s /\ m.chains = chains /\ m.feed = feed
  BY DEF ShapeVariant, Matrix, Manifest

\* One subgroup in each workgroup: the outputs of all take 256 MiB at most.
LEMMA GridPoint ==
  ASSUME NEW dev \in Devices, Capable(dev), NEW lv \in Levels, NEW m \in Matrix,
         NEW groups, (groups = 4096 /\ m.chains = 4) \/ (groups = 16384 /\ m.chains = 1)
  PROVE  <<dev.subgroup, groups>> \in MatrixGrid(dev, m, lv)
<1> DEFINE out == OutBytes(m)
           room == Least(MatrixOutput, dev.max_range)
           w == dev.subgroup
           p == <<w, groups>>
           ws == IF Brief(lv) THEN {w} ELSE {w, 4 * w}
           gs == IF Brief(lv) THEN {4096, 16384} ELSE {64, 512, 4096, 16384}
<1>1. w \in Nat \ {0} /\ w <= dev.max_workgroup
  BY CapableLimits
<1>2. room \in Nat /\ room = 268435456
  BY SMT, CapableLimits DEF Least, MatrixOutput, MiB
<1>3. out \in Nat \ {0} /\ out <= m.chains * 16384
  BY SMT, ShapeBounds
<1>4. groups \in Nat
  BY SMT
<1> HIDE DEF out, room, w
<1>5. groups * out \in Nat /\ groups * out <= room
  <2>1. CASE groups = 4096 /\ m.chains = 4
    BY SMT, <1>2, <1>3, <2>1
  <2>2. CASE groups = 16384 /\ m.chains = 1
    BY SMT, <1>2, <1>3, <2>2
  <2> QED BY <2>1, <2>2
<1>6. groups <= room \div out
  <2>1. room \in Nat
    BY SMT, <1>2
  <2> QED BY SMT, <1>3, <1>4, <1>5, <2>1, FitsInto
<1>7. w \div w = 1
  BY <1>1
<1>8. groups * (w \div w) <= room \div out
  BY SMT, <1>4, <1>6, <1>7
<1>9. w \in ws /\ groups \in gs
  BY SMT
<1>10. p \in ws \X gs /\ p[1] = w /\ p[2] = groups
  BY SMT, <1>9
<1> HIDE DEF p, ws, gs
<1>11. p \in {q \in ws \X gs : /\ q[1] <= dev.max_workgroup
                               /\ q[2] * (q[1] \div w) <= room \div out}
  BY SMT, <1>1, <1>8, <1>10
<1> QED BY SMT, <1>11 DEF MatrixGrid, p, ws, gs, w, room, out

\* From registers.
LEMMA RegistersReached ==
  ASSUME NEW dev \in Devices, Capable(dev), NEW lv \in Levels, NEW s \in Shapes,
         Eligible(dev, ShapeVariant(s, 4, "none"))
  PROVE  \E r \in PlanRows(dev, lv) :
           /\ RunnerAccepts(dev, r.c) /\ r.tag = "sweep-compute"
           /\ RoofKey(r.tag, r.c) = <<"matrix", s.dtype>>
           /\ r.c.m.family = "matrix" /\ r.c.m.feed = "none" /\ r.c.m.shape = s
<1> DEFINE m == ShapeVariant(s, 4, "none")
<1>1. /\ m \in Matrix /\ m \in Manifest /\ m.family = "matrix"
      /\ m.shape = s /\ m.chains = 4 /\ m.feed = "none" /\ Eligible(dev, m)
  BY ShapeVariantFields
<1> HIDE DEF m
<1>2. PICK groups : groups = 4096
  OBVIOUS
<1> DEFINE w == dev.subgroup
           r == Row("sweep-compute", Launch(dev, m, w, groups))
<1>3. <<w, groups>> \in ComputeGrid(dev, m, lv)
  BY <1>1, <1>2, GridPoint DEF ComputeGrid
<1>4. r \in Compute(dev, lv)
  BY <1>1, <1>3, ComputeRow
<1>5. r.tag = "sweep-compute" /\ r.c = Launch(dev, m, w, groups)
  BY RowParts
<1> HIDE DEF r
<1>6. w \in Nat \ {0} /\ groups \in Nat \ {0}
  BY SMT, <1>2, CapableLimits
<1>7. Common(dev, r.c, m, w, groups, BaseN(m), 128, 1) /\ Usual(r.c)
  BY <1>1, <1>5, <1>6, LaunchFields
<1>8. r.c.m = m /\ r.c.groups = groups /\ r.c.memory_mode = "device_local"
  BY <1>7 DEF Common, Usual
<1>9. RunnerAccepts(dev, r.c)
  <2>1. r.c.groups # 8192
    BY SMT, <1>2, <1>8
  <2> QED BY <1>4, <2>1, GridsAccepted
<1>10. RoofKey(r.tag, r.c) = <<"matrix", s.dtype>>
  BY <1>1, <1>8 DEF RoofKey, IsControl
<1> QED BY <1>1, <1>4, <1>5, <1>8, <1>9, <1>10, StagesOfPlan

\* A variant with a feed, tiles and a grid are a row of matrix_feed.
LEMMA FeedRow ==
  ASSUME NEW dev \in Devices, NEW lv \in Levels, NEW m \in Matrix, m.feed # "none",
         Eligible(dev, m), NEW tiles \in FeedTiles(dev, m), NEW wg, NEW groups,
         <<wg, groups>> \in MatrixGrid(dev, m, lv), groups = 16384
  PROVE  Row("sweep-matrix-feed", Feed(dev, m, wg, groups, tiles)) \in MatrixFeed(dev, lv)
<1> DEFINE row(x, t, p) == Row("sweep-matrix-feed", Feed(dev, x, p[1], p[2], t))
           variants == {x \in Matrix : x.feed # "none" /\ Eligible(dev, x)}
           grid(x) == {q \in MatrixGrid(dev, x, lv) : q[2] >= IF lv = "fast" THEN 16384 ELSE 4096}
           p == <<wg, groups>>
<1>1. MatrixFeed(dev, lv) =
        UNION {{row(x, t, q) : t \in FeedTiles(dev, x), q \in grid(x)} : x \in variants}
  BY SMT DEF MatrixFeed
<1>2. p[1] = wg /\ p[2] = groups /\ p \in MatrixGrid(dev, m, lv) /\ m \in variants
  BY SMT
<1>3. p \in grid(m)
  <2>1. p[2] >= IF lv = "fast" THEN 16384 ELSE 4096
    BY SMT, <1>2
  <2> QED BY <1>2, <2>1
<1>4. row(m, tiles, p) = Row("sweep-matrix-feed", Feed(dev, m, wg, groups, tiles))
  BY SMT, <1>2
<1> HIDE DEF row, variants, grid, p
<1>5. row(m, tiles, p) \in UNION {{row(x, t, q) : t \in FeedTiles(dev, x), q \in grid(x)} : x \in variants}
  BY SMT, <1>2, <1>3
<1> QED BY SMT, <1>1, <1>4, <1>5

\* With any of its tiles.
LEMMA FeedReached ==
  ASSUME NEW dev \in Devices, Capable(dev), NEW lv \in Levels, NEW s \in Shapes,
         NEW feed \in {"shared", "global"}, Eligible(dev, ShapeVariant(s, 1, feed)),
         NEW tiles \in FeedTiles(dev, ShapeVariant(s, 1, feed)), NEW l,
         l = IF feed = "shared" THEN "shared" ELSE Where(tiles * TileBytes(s))
  PROVE  \E r \in PlanRows(dev, lv) :
           /\ RunnerAccepts(dev, r.c) /\ r.tag = "sweep-matrix-feed"
           /\ RoofKey(r.tag, r.c) = <<"matrix", s.dtype, l>>
           /\ r.c.m.family = "matrix" /\ r.c.m.feed = feed /\ r.c.m.shape = s
<1> DEFINE m == ShapeVariant(s, 1, feed)
<1>1. /\ m \in Matrix /\ m \in Manifest /\ m.family = "matrix"
      /\ m.shape = s /\ m.chains = 1 /\ m.feed = feed /\ Eligible(dev, m)
      /\ tiles \in FeedTiles(dev, m)
  BY ShapeVariantFields
<1> HIDE DEF m
<1>2. PICK groups : groups = 16384
  OBVIOUS
<1> DEFINE w == dev.subgroup
           r == Row("sweep-matrix-feed", Feed(dev, m, w, groups, tiles))
<1>3. <<w, groups>> \in MatrixGrid(dev, m, lv)
  BY <1>1, <1>2, GridPoint
<1>4. r \in MatrixFeed(dev, lv)
  BY <1>1, <1>2, <1>3, FeedRow
<1>5. r.tag = "sweep-matrix-feed" /\ r.c = Feed(dev, m, w, groups, tiles)
  BY RowParts
<1> HIDE DEF r
<1>6. w \in Nat \ {0} /\ groups \in Nat \ {0} /\ tiles \in Nat
  BY SMT, <1>1, <1>2, CapableLimits, FeedTilesType
<1>7. Common(dev, r.c, m, w, groups, tiles, 128, 1) /\ Usual(r.c)
  BY <1>1, <1>5, <1>6, FeedFields
<1>8. r.c.m = m /\ r.c.n = tiles /\ r.c.memory_mode = "device_local"
  BY <1>7 DEF Common, Usual
<1>9. RunnerAccepts(dev, r.c)
  BY <1>4, FeedAccepted
<1>10. FeedKey(r.c) = <<"matrix", s.dtype, l>>
  BY <1>1, <1>8 DEF FeedKey, WorkingSet
<1>11. RoofKey(r.tag, r.c) = <<"matrix", s.dtype, l>>
  BY <1>1, <1>8, <1>10 DEF RoofKey, IsControl
<1> QED BY <1>1, <1>4, <1>5, <1>8, <1>9, <1>11, StagesOfPlan

\* The larger operand of a shape is a power of two, and as much as half of the pair.
LEMMA TileSizes ==
  ASSUME NEW s \in Shapes
  PROVE  LET top == Most(s.m * s.k, s.k * s.n) * Operand(s)
         IN /\ top \in {32, 64, 128, 256, 512, 1024, 2048, 4096}
            /\ TileBytes(s) \in Nat \ {0} /\ top <= TileBytes(s) /\ TileBytes(s) <= 8192
<1> DEFINE a == s.m * s.k
           b == s.k * s.n
           o == Operand(s)
<1>1. /\ s.m \in {4, 8, 16, 64} /\ s.n \in {8, 16, 32, 64} /\ s.k \in {8, 16, 32}
  BY ShapeFields
<1>2. o \in {1, 2}
  BY DEF Operand
<1>3. a \in {32, 64, 128, 256, 512, 1024, 2048} /\ b \in {64, 128, 256, 512, 1024, 2048}
  BY SMT, <1>1
<1>4. TileBytes(s) = (a + b) * o /\ Most(s.m * s.k, s.k * s.n) * Operand(s) = Most(a, b) * o
  BY DEF TileBytes
<1> HIDE DEF a, b, o
<1>5. Most(a, b) \in {64, 128, 256, 512, 1024, 2048} /\ Most(a, b) <= a + b
      /\ a + b <= 4096 /\ a + b \in Nat \ {0}
  BY SMT, <1>3 DEF Most
<1>6. /\ Most(a, b) * o \in {32, 64, 128, 256, 512, 1024, 2048, 4096}
      /\ (a + b) * o \in Nat \ {0} /\ Most(a, b) * o <= (a + b) * o /\ (a + b) * o <= 8192
  BY SMT, <1>2, <1>5
<1> QED BY <1>4, <1>6

\* The pairs of tiles for the caches are in them.
LEMMA NearTiles ==
  ASSUME NEW dev, NEW s \in Shapes
  PROVE  \E tiles \in FeedTiles(dev, ShapeVariant(s, 1, "global")) :
           Where(tiles * TileBytes(s)) = "cache"
<1> DEFINE pair == TileBytes(s)
           tiles == Most(1, MiB \div pair)
           m == ShapeVariant(s, 1, "global")
<1>1. pair \in Nat \ {0} /\ pair <= 8192
  BY TileSizes
<1>2. m.shape = s /\ m.feed = "global"
  BY ShapeVariantFields
<1>3. tiles \in FeedTiles(dev, m)
  BY <1>2 DEF FeedTiles
<1>4. tiles * pair <= MiB
  <2> HIDE DEF pair
  <2>1. MiB \div pair \in Nat /\ (MiB \div pair) * pair <= MiB
    BY SMT, <1>1, QuotientBound DEF MiB
  <2>2. 1 * pair <= MiB
    BY SMT, <1>1 DEF MiB
  <2>3. tiles = 1 \/ tiles = MiB \div pair
    BY DEF Most
  <2> QED BY <2>1, <2>2, <2>3
<1>5. tiles * pair \in Int
  <2> HIDE DEF pair
  <2>1. MiB \div pair \in Int
    BY SMT, <1>1 DEF MiB
  <2> QED BY SMT, <1>1, <2>1 DEF Most
<1> DEFINE set == tiles * pair
<1> HIDE DEF set
<1>6. Where(set) = "cache"
  BY SMT, <1>4, <1>5 DEF Where, MiB, set
<1> QED BY <1>3, <1>6 DEF set

\* 256 MiB of pairs, rounded up, are no more of the larger operand than a buffer of 256 MiB
\* holds: an operand divides it.
LEMMA FarTiles ==
  ASSUME NEW dev \in Devices, Capable(dev), NEW s \in Shapes
  PROVE  \E tiles \in FeedTiles(dev, ShapeVariant(s, 1, "global")) :
           Where(tiles * TileBytes(s)) = "dram"
<1> DEFINE pair == TileBytes(s)
           top == Most(s.m * s.k, s.k * s.n) * Operand(s)
           far == (256 * MiB + pair - 1) \div pair
           m == ShapeVariant(s, 1, "global")
<1>1. /\ pair \in Nat \ {0} /\ top <= pair
      /\ top \in {32, 64, 128, 256, 512, 1024, 2048, 4096}
  BY TileSizes
<1>2. m.shape = s /\ m.feed = "global"
  BY ShapeVariantFields
<1>3. Least(dev.max_range \div top, far) \in FeedTiles(dev, m)
  BY <1>2 DEF FeedTiles
<1>4. dev.max_range \in Nat /\ 256 * MiB <= dev.max_range
  BY SMT, CapableLimits DEF MiB
<1> HIDE DEF pair, top
<1>5. PICK memory \in Nat : memory = 256 * MiB
  BY SMT DEF MiB
<1>6. PICK q \in Nat : q * top = memory
  <2>1. memory = 268435456
    BY SMT, <1>5 DEF MiB
  <2>2. memory \div top \in Nat /\ (memory \div top) * top = memory
    BY SMT, <1>1, <2>1
  <2> QED BY ONLY <2>2
<1>7. far = (memory + pair - 1) \div pair
  BY <1>5
<1> HIDE DEF far
<1>8. far \in Nat /\ far * pair <= memory + pair - 1 /\ memory + pair - 1 < (far + 1) * pair
  BY SMT, <1>1, <1>7
<1>9. far * pair >= memory
  BY SMT, <1>1, <1>8
<1>10. far <= q
  <2>1. top \in Nat
    BY SMT, <1>1
  <2>2. memory <= q * pair /\ q * pair \in Nat
    BY SMT, <1>1, <1>6, <2>1
  <2>3. far * pair < (q + 1) * pair
    BY SMT, <1>1, <1>8, <2>2
  <2>4. far < q + 1
    BY SMT, <1>1, <1>8, <2>3
  <2> QED BY SMT, <1>8, <2>4
<1>11. q <= dev.max_range \div top
  <2>1. top \in Nat \ {0}
    BY SMT, <1>1
  <2> QED BY SMT, <1>4, <1>5, <1>6, <2>1, FitsInto
<1>12. dev.max_range \div top \in Int
  BY SMT, <1>1, <1>4
<1>13. Least(dev.max_range \div top, far) = far
  BY SMT, <1>8, <1>10, <1>11, <1>12 DEF Least
<1> DEFINE set == far * pair
<1>14. set \in Int /\ set >= memory
  BY SMT, <1>1, <1>8, <1>9
<1> HIDE DEF set
<1>15. Where(set) = "dram"
  BY <1>5, <1>14 DEF Where
<1> QED BY <1>3, <1>13, <1>15 DEF set, pair

\* Whether a variant is eligible is a matter of its shape.
LEMMA EligibleShape ==
  ASSUME NEW dev, NEW m, m.family = "matrix", Eligible(dev, m), NEW s, m.shape = s,
         s \in Shapes, NEW chains, NEW feed
  PROVE  Eligible(dev, ShapeVariant(s, chains, feed))
  BY DEF Eligible, ShapeVariant

\* A shape that the device lists makes its variants eligible.
LEMMA ListedShape ==
  ASSUME NEW dev, NEW x \in dev.shapes, NEW s, IsShape(x, s), NEW chains, NEW feed
  PROVE  Eligible(dev, ShapeVariant(s, chains, feed))
<1>1. ShapeVariant(s, chains, feed).shape = s
  BY DEF ShapeVariant
<1> QED BY <1>1 DEF Eligible

\* A launch of a compiled shape that the runner accepts.
Launched(dev, lv, feed, s) ==
  \E r \in PlanRows(dev, lv) :
    /\ RunnerAccepts(dev, r.c) /\ r.tag \in {"sweep-compute", "sweep-matrix-feed"}
    /\ r.c.m.family = "matrix" /\ r.c.m.feed = feed /\ r.c.m.shape = s

\* The three launches of a shape: from registers and with both feeds, one of which has tiles
\* of two sizes.
LEMMA ShapeReached ==
  ASSUME NEW dev \in Devices, Capable(dev), NEW lv \in Levels, NEW s \in Shapes,
         \A chains, feed : Eligible(dev, ShapeVariant(s, chains, feed))
  PROVE  /\ Reached(dev, lv, <<"matrix", s.dtype>>)
         /\ \A l \in {"shared", "cache", "dram"} : Reached(dev, lv, <<"matrix", s.dtype, l>>)
         /\ \A feed \in {"none", "shared", "global"} : Launched(dev, lv, feed, s)
<1> DEFINE Fed(feed, l) ==
             \E r \in PlanRows(dev, lv) :
               /\ RunnerAccepts(dev, r.c) /\ r.tag = "sweep-matrix-feed"
               /\ RoofKey(r.tag, r.c) = <<"matrix", s.dtype, l>>
               /\ r.c.m.family = "matrix" /\ r.c.m.feed = feed /\ r.c.m.shape = s
<1>1. \E r \in PlanRows(dev, lv) :
        /\ RunnerAccepts(dev, r.c) /\ r.tag = "sweep-compute"
        /\ RoofKey(r.tag, r.c) = <<"matrix", s.dtype>>
        /\ r.c.m.family = "matrix" /\ r.c.m.feed = "none" /\ r.c.m.shape = s
  BY RegistersReached
<1>2. Fed("shared", "shared")
  <2>1. ShapeVariant(s, 1, "shared").feed = "shared"
    BY ShapeVariantFields
  <2>2. MatrixFeedTiles \in FeedTiles(dev, ShapeVariant(s, 1, "shared"))
    BY <2>1 DEF FeedTiles
  <2> QED BY <2>2, FeedReached
<1>3. Fed("global", "cache")
  <2>1. PICK tiles \in FeedTiles(dev, ShapeVariant(s, 1, "global")) :
          Where(tiles * TileBytes(s)) = "cache"
    BY NearTiles
  <2> QED BY <2>1, FeedReached
<1>4. Fed("global", "dram")
  <2>1. PICK tiles \in FeedTiles(dev, ShapeVariant(s, 1, "global")) :
          Where(tiles * TileBytes(s)) = "dram"
    BY FarTiles
  <2> QED BY <2>1, FeedReached
<1>5. Reached(dev, lv, <<"matrix", s.dtype>>)
  BY Zenon, <1>1 DEF Reached
<1>6. \A l, feed : Fed(feed, l) => Reached(dev, lv, <<"matrix", s.dtype, l>>)
  BY Zenon DEF Reached
<1>7. \A l \in {"shared", "cache", "dram"} : Reached(dev, lv, <<"matrix", s.dtype, l>>)
  <2> HIDE DEF Fed
  <2> QED BY <1>2, <1>3, <1>4, <1>6
<1>8. \A l, feed : Fed(feed, l) => Launched(dev, lv, feed, s)
  BY Zenon DEF Launched
<1>9. Launched(dev, lv, "none", s)
  BY Zenon, <1>1 DEF Launched
<1>10. \A feed \in {"none", "shared", "global"} : Launched(dev, lv, feed, s)
  <2> HIDE DEF Fed
  <2> QED BY <1>2, <1>3, <1>8, <1>9
<1> QED BY Zenon, <1>5, <1>7, <1>10

\* Every roof that is promised has its launch.
LEMMA PromiseKept ==
  ASSUME NEW dev \in Devices, Capable(dev), NEW lv \in Levels, NEW key \in Promised(dev, lv)
  PROVE  Reached(dev, lv, key)
<1>1. ASSUME NEW t \in Floats, key = <<"alu", t>> PROVE Reached(dev, lv, key)
  <2> DEFINE m == [family |-> "alu", dtype |-> t, width |-> 1, chains |-> 1]
  <2>1. m \in Alu /\ m.family = "alu" /\ m.dtype = t
    BY DEF Alu, Widths
  <2> HIDE DEF m
  <2> QED BY <1>1, <2>1, ArithmeticReached
<1>2. CASE key = <<"dot", "int8">>
  <2> DEFINE m == [family |-> "dot", dtype |-> "int8", width |-> 1, chains |-> 1,
                   dots_per_step |-> 8]
  <2>1. m \in Dot /\ m.family = "dot" /\ m.dtype = "int8"
    BY DEF Dot
  <2> HIDE DEF m
  <2> QED BY <1>2, <2>1, ArithmeticReached
<1>3. CASE key = <<"cache_read_effective">>
  BY <1>3, CacheReached
<1>4. ASSUME NEW op \in IF lv = "fast" THEN {Read, Write, Copy, Triad} ELSE Read..DotOp,
             key = <<"memory", "fp32", op>>
      PROVE  Reached(dev, lv, key)
  <2>1. op \in 0..6 /\ (lv = "fast" => op \in {Read, Write, Copy, Triad})
    BY SMT DEF Read, Write, Copy, Triad, DotOp
  <2> QED BY <1>4, <2>1, MemoryReached
<1>5. ASSUME NEW t \in Floats, NEW op \in {0, 2}, key = <<"shared", t, op>>
      PROVE  Reached(dev, lv, key)
  BY <1>5, SharedReached
<1>6. ASSUME NEW f \in {"rgba16f", "rgba32f"}, NEW d \in {0, 2, 3}, NEW l \in {"cache", "dram"},
             key = <<"texture", f, d, l>>
      PROVE  Reached(dev, lv, key)
  <2> DEFINE m == [family |-> "texture", format |-> f, width |-> 4, tex_dim |-> d]
  <2>1. m \in Texture /\ m.format = f /\ m.tex_dim = d
    BY DEF Texture
  <2> HIDE DEF m
  <2> QED BY <1>6, <2>1, TextureReached
<1>7. ASSUME NEW m \in Matrix, Eligible(dev, m),
             \/ key = <<"matrix", m.shape.dtype>>
             \/ \E l \in {"shared", "cache", "dram"} : key = <<"matrix", m.shape.dtype, l>>
      PROVE  Reached(dev, lv, key)
  <2>1. PICK s : s = m.shape
    OBVIOUS
  <2>2. m.family = "matrix" /\ s \in Shapes
    BY <2>1 DEF Matrix
  <2>3. \A chains, feed : Eligible(dev, ShapeVariant(s, chains, feed))
    BY <1>7, <2>1, <2>2, EligibleShape
  <2>4. /\ Reached(dev, lv, <<"matrix", s.dtype>>)
        /\ \A l \in {"shared", "cache", "dram"} : Reached(dev, lv, <<"matrix", s.dtype, l>>)
    BY <2>2, <2>3, ShapeReached
  <2> QED BY <1>7, <2>1, <2>4
<1> DEFINE ops == IF lv = "fast" THEN {Read, Write, Copy, Triad} ELSE Read..DotOp
           eligible == {x \in Matrix : Eligible(dev, x)}
           ofShape(m) == {<<"matrix", m.shape.dtype>>}
                         \cup {<<"matrix", m.shape.dtype, l>> : l \in {"shared", "cache", "dram"}}
           alu == {<<"alu", t>> : t \in Floats}
           single == {<<"dot", "int8">>, <<"cache_read_effective">>}
           memory == {<<"memory", "fp32", op>> : op \in ops}
           shared == {<<"shared", t, op>> : t \in Floats, op \in {0, 2}}
           texture == {<<"texture", f, d, l>> :
                         f \in {"rgba16f", "rgba32f"}, d \in {0, 2, 3}, l \in {"cache", "dram"}}
           matrix == UNION {ofShape(m) : m \in eligible}
<1>8. Promised(dev, lv) = alu \cup single \cup memory \cup shared \cup texture \cup matrix
  BY DEF Promised
<1> HIDE DEF Reached
<1>9. CASE key \in alu
  BY <1>1, <1>9
<1>10. CASE key \in single
  BY <1>2, <1>3, <1>10
<1>11. CASE key \in memory
  <2> HIDE DEF ops
  <2>1. PICK op \in ops : key = <<"memory", "fp32", op>>
    BY <1>11
  <2> QED BY <1>4, <2>1 DEF ops
<1>12. CASE key \in shared
  <2>1. PICK t \in Floats, op \in {0, 2} : key = <<"shared", t, op>>
    BY <1>12
  <2> QED BY <1>5, <2>1
<1>13. CASE key \in texture
  <2>1. PICK f \in {"rgba16f", "rgba32f"}, d \in {0, 2, 3}, l \in {"cache", "dram"} :
          key = <<"texture", f, d, l>>
    BY <1>13
  <2> QED BY <1>6, <2>1
<1>14. CASE key \in matrix
  <2> HIDE DEF ofShape
  <2>1. PICK m \in eligible : key \in ofShape(m)
    BY <1>14
  <2>2. m \in Matrix /\ Eligible(dev, m)
    OBVIOUS
  <2> HIDE DEF eligible
  <2>3. \/ key = <<"matrix", m.shape.dtype>>
        \/ \E l \in {"shared", "cache", "dram"} : key = <<"matrix", m.shape.dtype, l>>
    BY <2>1 DEF ofShape
  <2> QED BY <1>7, <2>2, <2>3
<1> HIDE DEF alu, single, memory, shared, texture, matrix
<1> QED BY <1>8, <1>9, <1>10, <1>11, <1>12, <1>13, <1>14

\* Every shape that is compiled is launched with each feed.
LEMMA ShapesKept ==
  ASSUME NEW dev \in Devices, Capable(dev), NEW lv \in Levels, NEW x \in dev.shapes,
         x.scope = SubgroupScope, x \notin NotCompiled(dev), NEW feed \in {"none", "shared", "global"}
  PROVE  \E r \in PlanRows(dev, lv) :
           /\ RunnerAccepts(dev, r.c) /\ r.tag \in {"sweep-compute", "sweep-matrix-feed"}
           /\ r.c.m.family = "matrix" /\ r.c.m.feed = feed /\ IsShape(x, r.c.m.shape)
<1>1. PICK s \in Shapes : IsShape(x, s)
  BY DEF NotCompiled
<1>2. \A chains, f : Eligible(dev, ShapeVariant(s, chains, f))
  BY <1>1, ListedShape
<1>3. Launched(dev, lv, feed, s)
  BY <1>2, ShapeReached
<1> QED BY <1>1, <1>3 DEF Launched

(* Of any device that is Capable, whatever its shapes, its subgroup and its limits, a whole
   plan of any level has a launch that the runner accepts for every roof that is promised,
   and for every shape that is compiled, from registers and with both feeds. *)
THEOREM RoofsReachable == SelectionSpec => []EveryRoofIsReachable
<1>1. SelectionInv /\ Collected => EveryRoofIsReachable
  <2> SUFFICES ASSUME SelectionInv, Collected, pc = "planned", Full, Capable(device)
               PROVE  EveryRoofIsReachable
    BY DEF EveryRoofIsReachable
  <2> DEFINE accepted == {r \in Planned : RunnerAccepts(device, r.c)}
  <2>1. device \in Devices /\ level \in Levels
    BY DEF SelectionInv, SelectionTypeOK
  <2>2. PlanRows(device, level) \subseteq Planned
    BY WholePlan
  <2>3. \A r \in PlanRows(device, level) : RunnerAccepts(device, r.c) => r \in accepted
    BY <2>2
  <2>4. Promised(device, level) \subseteq {RoofKey(r.tag, r.c) : r \in accepted}
    <3> SUFFICES ASSUME NEW key \in Promised(device, level)
                 PROVE  \E r \in accepted : key = RoofKey(r.tag, r.c)
      OBVIOUS
    <3>1. Reached(device, level, key)
      BY <2>1, PromiseKept
    <3>2. PICK r \in PlanRows(device, level) :
            RunnerAccepts(device, r.c) /\ RoofKey(r.tag, r.c) = key
      BY <3>1 DEF Reached
    <3> HIDE DEF accepted
    <3> QED BY <2>3, <3>2
  <2>5. ASSUME NEW x \in device.shapes, x.scope = SubgroupScope, x \notin NotCompiled(device),
               NEW feed \in {"none", "shared", "global"}
        PROVE  \E r \in accepted :
                 /\ r.tag \in {"sweep-compute", "sweep-matrix-feed"}
                 /\ r.c.m.family = "matrix" /\ r.c.m.feed = feed /\ IsShape(x, r.c.m.shape)
    <3>1. PICK r \in PlanRows(device, level) :
            /\ RunnerAccepts(device, r.c) /\ r.tag \in {"sweep-compute", "sweep-matrix-feed"}
            /\ r.c.m.family = "matrix" /\ r.c.m.feed = feed /\ IsShape(x, r.c.m.shape)
      BY <2>1, <2>5, ShapesKept
    <3> HIDE DEF accepted
    <3> QED BY <2>3, <3>1
  <2> HIDE DEF accepted
  <2> QED BY <2>4, <2>5 DEF EveryRoofIsReachable, accepted
<1> QED BY <1>1, SelectionInvHolds, CollectedHolds, PTL

-----------------------------------------------------------------------------
(* Calibration. *)

(* What is still running has more loops than were rejected, and the floor does not
   allow it to go back. *)
Running ==
  phase # "done" /\ rejected # 0 => loops > rejected /\ floor > rejected

Measured == phase = "decide" => seconds # 0

IInv == TypeOK /\ Running /\ Measured /\ (rejected # 0 => loops >= rejected)

-----------------------------------------------------------------------------
(* Arithmetic. *)

(* The product of positive numbers is positive. *)
LEMMA PositiveProduct ==
  ASSUME NEW a \in Nat \ {0}, NEW b \in Nat \ {0}
  PROVE  a * b \in Nat \ {0}
  OBVIOUS

(* CeilDiv yields an integer. *)
LEMMA CeilDivInt ==
  ASSUME NEW a \in Int, NEW b \in Nat \ {0}
  PROVE  CeilDiv(a, b) \in Int
  BY DEF CeilDiv

(* A scaled workload is a positive number. *)
LEMMA ScaledBounds ==
  ASSUME NEW x \in Nat \ {0}, Target \in Nat \ {0}, seconds \in Nat \ {0}
  PROVE  Scaled(x) \in Nat \ {0}
<1> DEFINE q == CeilDiv(x * 6 * Target, 5 * seconds)
           low == CeilDiv(x, 8)
<1>1. x * 6 * Target \in Int
  BY PositiveProduct
<1>2. 5 * seconds \in Nat \ {0}
  OBVIOUS
<1>3. q \in Int
  BY <1>1, <1>2, CeilDivInt
<1>4. low \in Nat \ {0}
  BY DEF CeilDiv
<1>5. Scaled(x) = Clamp(q, low, 8 * x)
  BY DEF Scaled
<1> HIDE DEF q, low
<1> QED
  BY <1>3, <1>4, <1>5 DEF Clamp, Most, Least

(* The floor only rises, and stays within the limit. *)
LEMMA FloorRises ==
  ASSUME IInv, FixedPart \in Int, FixedWhole \in Int
  PROVE  Floor \in Minimum..limit /\ Floor >= floor
<1> DEFINE q == CeilDiv(23 * loops * FixedPart, 2 * (FixedWhole - FixedPart))
<1>0. limit \in Nat /\ floor \in Minimum..limit /\ Minimum \in Nat /\ loops \in Nat
  BY ConstantsAssumption DEF IInv, TypeOK, Minimum
<1>1. CASE FixedPart > 0 /\ FixedPart < FixedWhole
  <2>1. 2 * (FixedWhole - FixedPart) \in Nat \ {0}
    BY <1>1
  <2>2. 23 * loops * FixedPart \in Int
    BY <1>0
  <2>3. q \in Int
    BY <2>1, <2>2, CeilDivInt
  <2>4. Floor = Least(limit, Most(floor, q))
    BY <1>1 DEF Floor
  <2> HIDE DEF q
  <2> QED
    BY <1>0, <2>3, <2>4 DEF Least, Most
<1>2. CASE ~(FixedPart > 0 /\ FixedPart < FixedWhole)
  BY <1>0, <1>2 DEF Floor
<1> QED
  BY <1>1, <1>2

(* What is measured are positive times. *)
LEMMA ReadingsPositive ==
  ASSUME ConstantsAssumption, IInv, NEW l \in Nat \ {0}
  PROVE  Readings(l) \subseteq Nat \ {0}
<1>1. batch \in Nat \ {0} /\ clock.launch \in Nat /\ clock.body \in Nat \ {0}
  BY DEF IInv, TypeOK, MaxBatch, ConstantsAssumption
<1>2. l * clock.body \in Nat \ {0}
  BY <1>1, PositiveProduct
<1>3. clock.launch + l * clock.body \in Nat \ {0}
  BY <1>1, <1>2
<1>4. Time(l) \in Nat \ {0}
  BY <1>1, <1>3, PositiveProduct DEF Time
<1>5. Outlier \in Nat \ {0} /\ ErraticTimes \subseteq Nat \ {0}
  BY DEF ConstantsAssumption
<1>6. \A a, b, c \in Nat \ {0} : Median3(a, b, c) \in Nat \ {0}
  BY DEF Median3, Most, Least
<1> HIDE DEF ConstantsAssumption
<1> QED
  BY <1>4, <1>5, <1>6 DEF Readings

(* The parts of the fixed cost are integers. *)
LEMMA FixedInt ==
  ASSUME IInv
  PROVE  FixedWhole \in Int /\ FixedPart \in Int
<1>1. loops \in Nat /\ seconds \in Nat /\ half \in Nat
  BY ConstantsAssumption DEF IInv, TypeOK, Minimum
<1>2. loops - loops \div 2 \in Int
  BY <1>1
<1>3. FixedWhole \in Int
  BY <1>1, <1>2 DEF FixedWhole
<1>4. loops * (seconds - half) \in Int
  BY <1>1
<1> QED
  BY <1>3, <1>4 DEF FixedPart

-----------------------------------------------------------------------------
(* The end of a round: whatever workload is next, within the bounds and above what was
   rejected, or the same as now. *)
LEMMA Advances ==
  ASSUME IInv, phase = "decide", UNCHANGED given,
         floor' \in Minimum..limit, rejected' \in 0..limit,
         NEW l \in Minimum..limit, NEW b \in 1..MaxBatch,
         NEW why \in {"target_reached", "quality_floor_reached", "workload_limit",
                      "fixed_cost_limit", "increase_loops", "reduce_batch"},
         l = loops /\ b = batch => why \notin {"increase_loops", "reduce_batch"},
         rejected' # 0 => loops >= rejected',
         rejected' # 0 => (l = loops /\ b = batch) \/ (l > rejected' /\ floor' > rejected'),
         Advance(l, b, why)
  PROVE  IInv'
<1> USE DEF IInv, TypeOK, Running, Measured, given, course, Minimum
<1>1. CASE l = loops /\ b = batch
  BY <1>1 DEF Advance, Stops
<1>2. CASE ~(l = loops /\ b = batch) /\ round = MaxRounds - 1
  BY <1>2 DEF Advance, Stops
<1>3. CASE ~(l = loops /\ b = batch) /\ round # MaxRounds - 1
  <2>1. round' \in 0..(MaxRounds - 1)
    BY <1>3 DEF Advance, MaxRounds
  <2>2. loops' = l /\ batch' = b /\ phase' = "measure" /\ seconds' = 0 /\ half' = 0
        /\ reason' = reason
    BY <1>3 DEF Advance
  <2>3. heading' \in {"none", "more", "less"} /\ turns' \in Nat
    BY <1>3 DEF Advance, Heads
  <2> QED
    BY <1>3, <2>1, <2>2, <2>3
<1> QED
  BY <1>1, <1>2, <1>3

-----------------------------------------------------------------------------
(* The constants have their types in every initial state and workload. *)
LEMMA InitInv == Init => IInv
<1> SUFFICES ASSUME Init PROVE IInv
  OBVIOUS
<1>1. limit \in Nat /\ limit >= 2
  BY ConstantsAssumption DEF Init
<1>2. Minimum \in 1..2 /\ Minimum <= limit
  BY <1>1 DEF Minimum
<1>3. loops \in Minimum..limit
  <2>1. PICK l \in StartLoops : loops = Clamp(l, Minimum, limit)
    BY DEF Init
  <2>2. l \in Nat
    BY ConstantsAssumption
  <2> QED
    BY <1>1, <1>2, <2>1, <2>2 DEF Clamp, Most, Least
<1>4. batch \in 1..MaxBatch
  <2>1. PICK b \in StartBatches : batch = Clamp(b, 1, MaxBatch)
    BY DEF Init
  <2>2. b \in Nat
    BY ConstantsAssumption
  <2> QED
    BY <2>1, <2>2 DEF Clamp, Most, Least, MaxBatch
<1>5. floor \in Minimum..limit /\ round \in 0..(MaxRounds - 1)
  BY <1>1, <1>2 DEF Init, MaxRounds
<1> QED
  BY <1>1, <1>3, <1>4, <1>5 DEF Init, IInv, TypeOK, Running, Measured

LEMMA MeasureInv == IInv /\ Measure => IInv'
<1> SUFFICES ASSUME IInv, Measure PROVE IInv'
  OBVIOUS
<1>1. loops \in Nat \ {0} /\ (differential => loops \div 2 \in Nat \ {0})
  BY ConstantsAssumption DEF IInv, TypeOK, Minimum
<1>2. seconds' \in Nat \ {0}
  BY <1>1, ReadingsPositive, ConstantsAssumption DEF Measure
<1>3. half' \in Nat
  <2>1. CASE differential
    BY <1>1, <2>1, ReadingsPositive, ConstantsAssumption DEF Measure
  <2>2. CASE ~differential
    BY <2>2 DEF Measure
  <2> QED
    BY <2>1, <2>2
<1> QED
  BY <1>2, <1>3 DEF Measure, IInv, TypeOK, Running, Measured, given, course, Minimum

LEMMA GrowInv == IInv /\ GrowForFixedCost => IInv'
<1> SUFFICES ASSUME IInv, GrowForFixedCost PROVE IInv'
  OBVIOUS
<1> DEFINE q == CeilDiv(25 * loops * FixedPart, 2 * FixedWhole)
           wanted == Clamp(q, CeilDiv(9 * loops, 8), 8 * loops)
           l == Least(limit, wanted)
<1>0. /\ limit \in Nat /\ loops \in Minimum..limit /\ floor \in Minimum..limit
      /\ Minimum \in Nat \ {0} /\ batch \in 1..MaxBatch /\ rejected \in 0..limit
      /\ phase = "decide" /\ seconds \in Nat \ {0}
      /\ (rejected # 0 => loops > rejected /\ floor > rejected)
  BY ConstantsAssumption DEF IInv, TypeOK, Minimum, GrowForFixedCost, Running, Measured
<1>1. FixedWhole \in Nat \ {0}
  <2>1. loops - loops \div 2 \in Nat \ {0}
    BY <1>0
  <2> QED
    BY <1>0, <2>1, PositiveProduct DEF FixedWhole
<1>2. 25 * loops * FixedPart \in Int /\ 2 * FixedWhole \in Nat \ {0}
  BY <1>0, <1>1, FixedInt
<1>3. q \in Int
  BY <1>2, CeilDivInt
<1>4. CeilDiv(9 * loops, 8) \in Int /\ CeilDiv(9 * loops, 8) > loops
      /\ CeilDiv(9 * loops, 8) <= 8 * loops
  BY <1>0 DEF CeilDiv
<1>5. wanted \in Int /\ wanted > loops
  <2> HIDE DEF q
  <2> QED
    BY <1>0, <1>3, <1>4 DEF Clamp, Most, Least
<1>6. /\ Advance(l, batch, "fixed_cost_limit")
      /\ floor' = Least(limit, Most(floor, loops + 1))
      /\ rejected' = Most(rejected, loops) /\ UNCHANGED given
  BY DEF GrowForFixedCost
<1> HIDE DEF wanted
<1>7. l \in Minimum..limit /\ (l = loops \/ l > loops) /\ (l = loops => limit = loops)
  BY <1>0, <1>5 DEF Least
<1>8. rejected' = loops
  BY <1>0, <1>6 DEF Most
<1>9. floor' \in Minimum..limit /\ (limit # loops => floor' > loops)
  BY <1>0, <1>6 DEF Most, Least
<1> HIDE DEF l
<1> QED
  BY <1>0, <1>6, <1>7, <1>8, <1>9, Advances

LEMMA AcceptInv == IInv /\ Accept => IInv'
  BY ConstantsAssumption
  DEF IInv, TypeOK, Running, Measured, Accept, Stops, given, course, Minimum

LEMMA ReduceBatchInv == IInv /\ ReduceBatch => IInv'
<1> SUFFICES ASSUME IInv, ReduceBatch PROVE IInv'
  OBVIOUS
<1> DEFINE scaled == Most(1, Scaled(batch))
           b == IF scaled = batch THEN batch - 1 ELSE scaled
<1>0. /\ batch \in 1..MaxBatch /\ batch > 1 /\ seconds \in Nat \ {0} /\ Target \in Nat \ {0}
      /\ loops \in Minimum..limit /\ floor \in Minimum..limit /\ rejected \in 0..limit
      /\ limit \in Nat /\ Minimum \in Nat \ {0} /\ phase = "decide" /\ TooLong
      /\ (rejected # 0 => loops > rejected /\ floor > rejected)
  BY ConstantsAssumption
  DEF IInv, TypeOK, Minimum, MaxBatch, ReduceBatch, Running, Measured
<1>1. Scaled(batch) \in Nat \ {0} /\ Scaled(batch) <= batch
  <2> DEFINE q == CeilDiv(batch * 6 * Target, 5 * seconds)
  <2>1. Scaled(batch) \in Nat \ {0}
    <3>1. batch \in Nat \ {0}
      BY <1>0 DEF MaxBatch
    <3> QED
      BY <1>0, <3>1, ScaledBounds
  <2>2. q <= batch
    <3>1. 6 * Target <= 5 * seconds
      BY <1>0 DEF TooLong
    <3>2. batch * (6 * Target) <= batch * (5 * seconds)
      BY <1>0, <3>1 DEF MaxBatch
    <3> DEFINE a == batch * 6 * Target
               d == 5 * seconds
    <3>3. a \in Nat /\ d \in Nat \ {0} /\ a <= d * batch
      BY <1>0, <3>2 DEF MaxBatch
    <3> HIDE DEF a, d
    <3>4. a + d - 1 < d * (batch + 1)
      BY <3>3, <1>0 DEF MaxBatch
    <3>5. (a + d - 1) \div d <= batch
      BY <3>3, <3>4, <1>0 DEF MaxBatch
    <3> QED
      BY <3>5 DEF CeilDiv, a, d
  <2>3. q \in Int
    <3>1. batch * 6 * Target \in Int /\ 5 * seconds \in Nat \ {0}
      BY <1>0 DEF MaxBatch
    <3> QED
      BY <3>1, CeilDivInt
  <2>4. CeilDiv(batch, 8) \in Nat /\ CeilDiv(batch, 8) <= batch
    BY <1>0 DEF CeilDiv, MaxBatch
  <2>5. Scaled(batch) = Clamp(q, CeilDiv(batch, 8), 8 * batch)
    BY DEF Scaled
  <2> HIDE DEF q
  <2> QED
    BY <1>0, <2>1, <2>2, <2>3, <2>4, <2>5 DEF Clamp, Most, Least, MaxBatch
<1>2. b \in 1..MaxBatch /\ b # batch
  BY <1>0, <1>1 DEF Most, MaxBatch
<1>3. Advance(loops, b, "reduce_batch") /\ UNCHANGED <<given, floor, rejected>>
  BY DEF ReduceBatch
<1> HIDE DEF b
<1> QED
  BY <1>0, <1>2, <1>3, Advances DEF given, Minimum

LEMMA ReduceLoopsInv == IInv /\ ReduceLoops => IInv'
<1> SUFFICES ASSUME IInv, ReduceLoops PROVE IInv'
  OBVIOUS
<1> DEFINE wanted == Least(loops, Most(Floor, Scaled(loops)))
           l == IF wanted = loops /\ loops > Floor THEN loops - 1 ELSE wanted
           why == IF Floor > Minimum THEN "quality_floor_reached" ELSE "workload_limit"
<1>0. /\ batch \in 1..MaxBatch /\ seconds \in Nat \ {0} /\ Target \in Nat \ {0}
      /\ loops \in Minimum..limit /\ floor \in Minimum..limit /\ rejected \in 0..limit
      /\ limit \in Nat /\ Minimum \in Nat \ {0} /\ phase = "decide"
      /\ (rejected # 0 => loops > rejected /\ floor > rejected)
  BY ConstantsAssumption
  DEF IInv, TypeOK, Minimum, ReduceLoops, Running, Measured
<1>1. Floor \in Minimum..limit /\ Floor >= floor
  BY FixedInt, FloorRises
<1>2. Scaled(loops) \in Nat \ {0}
  <2>1. loops \in Nat \ {0}
    BY <1>0
  <2> QED
    BY <1>0, <2>1, ScaledBounds
<1>3. wanted \in Minimum..loops /\ (wanted = loops \/ wanted >= Floor)
  BY <1>0, <1>1, <1>2 DEF Least, Most
<1>4. Advance(l, batch, why) /\ floor' = Floor /\ UNCHANGED <<given, rejected>>
  BY DEF ReduceLoops
<1> HIDE DEF wanted
<1>5. l \in Minimum..limit /\ (l = loops \/ l >= Floor)
  BY <1>0, <1>1, <1>3
<1>6. why \in {"quality_floor_reached", "workload_limit"}
  OBVIOUS
<1> HIDE DEF l, why
<1> QED
  BY <1>0, <1>1, <1>4, <1>5, <1>6, Advances DEF given, Minimum

LEMMA IncreaseInv == IInv /\ Increase => IInv'
<1> SUFFICES ASSUME IInv, Increase PROVE IInv'
  OBVIOUS
<1> DEFINE more == Least(limit, Most(loops + 1, Scaled(loops)))
           b == Least(MaxBatch, Most(batch + 1, Scaled(batch)))
<1>0. /\ batch \in 1..MaxBatch /\ seconds \in Nat \ {0} /\ Target \in Nat \ {0}
      /\ loops \in Minimum..limit /\ floor \in Minimum..limit /\ rejected \in 0..limit
      /\ limit \in Nat /\ Minimum \in Nat \ {0} /\ phase = "decide"
      /\ (rejected # 0 => loops > rejected /\ floor > rejected)
  BY ConstantsAssumption
  DEF IInv, TypeOK, Minimum, Increase, Running, Measured
<1>1. loops \in Nat \ {0} /\ batch \in Nat \ {0}
  BY <1>0 DEF MaxBatch
<1>2. Scaled(loops) \in Nat \ {0} /\ Scaled(batch) \in Nat \ {0}
  BY <1>0, <1>1, ScaledBounds
<1>3. more \in Minimum..limit /\ more >= loops
  BY <1>0, <1>2 DEF Least, Most
<1>4. b \in 1..MaxBatch
  BY <1>0, <1>2 DEF Least, Most, MaxBatch
<1>5. UNCHANGED <<given, floor, rejected>>
  BY DEF Increase
<1>6. CASE more # loops
  <2>1. Advance(more, batch, "increase_loops")
    BY <1>6 DEF Increase
  <2> HIDE DEF more
  <2> QED
    BY <1>0, <1>3, <1>5, <1>6, <2>1, Advances DEF given, Minimum
<1>7. CASE more = loops
  <2>1. Advance(loops, b, "workload_limit")
    BY <1>7 DEF Increase
  <2> HIDE DEF more, b
  <2> QED
    BY <1>0, <1>4, <1>5, <2>1, Advances DEF given, Minimum
<1> QED
  BY <1>6, <1>7

LEMMA RecalibrateInv == IInv /\ Recalibrate => IInv'
<1> SUFFICES ASSUME IInv, Recalibrate PROVE IInv'
  OBVIOUS
<1>1. 0 \in 0..(MaxRounds - 1)
  BY DEF MaxRounds
<1>2. floor' \in Minimum..limit /\ limit \in Nat
  BY ConstantsAssumption DEF IInv, TypeOK, Recalibrate, Minimum
<1> QED
  BY <1>1, <1>2 DEF IInv, TypeOK, Running, Measured, Recalibrate, Minimum

-----------------------------------------------------------------------------

(* The inductive invariant. *)
THEOREM Inductive == Spec => []IInv
<1>1. IInv /\ [Next]_vars => IInv'
  <2> SUFFICES ASSUME IInv, [Next]_vars PROVE IInv'
    OBVIOUS
  <2>1. CASE UNCHANGED vars
    BY <2>1 DEF vars, given, IInv, TypeOK, Running, Measured, Minimum
  <2>2. CASE Next
    BY <2>2, MeasureInv, GrowInv, AcceptInv, ReduceBatchInv, ReduceLoopsInv,
       IncreaseInv, RecalibrateInv
    DEF Next, Decide
  <2> QED
    BY <2>1, <2>2
<1> QED
  BY <1>1, InitInv, PTL DEF Spec

(* Loops, batch and floor keep to their bounds, for every target, limit, starting
   workload and clock (calibration.h:12-15). *)
THEOREM TypeCorrect == Spec => []TypeOK
<1>1. IInv => TypeOK
  BY DEF IInv
<1> QED
  BY <1>1, Inductive, PTL

(* A calibration never shrinks back into a workload that it has rejected for overhead
   (calibration.h:46-47). *)
THEOREM NeverBack == Spec => []NeverBackIntoRejected
<1>1. IInv => NeverBackIntoRejected
  BY DEF IInv, Running, NeverBackIntoRejected
<1> QED
  BY <1>1, Inductive, PTL

-----------------------------------------------------------------------------
(* What is measured of a steady clock, and what is accepted. *)

(* A steady clock is measured exactly, and only an accepted workload is on target. *)
Steady ==
  /\ phase # "done" => reason = "none"
  /\ phase = "decide" /\ clock.steady =>
       /\ seconds = Time(loops)
       /\ differential => half = Time(loops \div 2)
  /\ TargetIsReal

(* The median of three readings is the time, whichever of them is an outlier. *)
LEMMA OutlierDropped ==
  ASSUME NEW t \in Nat, NEW o \in Nat
  PROVE  /\ Median3(t, t, t) = t /\ Median3(o, t, t) = t
         /\ Median3(t, o, t) = t /\ Median3(t, t, o) = t
  BY DEF Median3, Most, Least

LEMMA TimeInt ==
  ASSUME IInv, NEW l \in Nat
  PROVE  /\ batch \in Nat /\ clock.launch \in Nat /\ clock.body \in Nat
         /\ Time(l) = batch * (clock.launch + l * clock.body) /\ Time(l) \in Nat
<1>1. batch \in Nat /\ clock.launch \in Nat /\ clock.body \in Nat
  BY ConstantsAssumption DEF IInv, TypeOK, MaxBatch
<1>2. l * clock.body \in Nat
  BY <1>1
<1>3. clock.launch + l * clock.body \in Nat
  BY <1>1, <1>2
<1>4. batch * (clock.launch + l * clock.body) \in Nat
  BY <1>1, <1>3
<1> QED BY <1>1, <1>4 DEF Time

LEMMA SteadyReadings ==
  ASSUME IInv, clock.steady, NEW l \in Nat
  PROVE  Readings(l) = {Time(l)}
<1>1. Outlier \in Nat
  BY ConstantsAssumption
<1> QED BY <1>1, TimeInt, OutlierDropped DEF Readings

(* The fixed cost of two exact times is the launch: of l loops and of h, with h < l, in
   batches of b, on a clock of a per launch and c per loop. *)
LEMMA LaunchShare ==
  ASSUME NEW l \in Nat, NEW h \in Nat, h < l, NEW b \in Nat, NEW a \in Nat, NEW c \in Nat,
         NEW s \in Nat, s = b * (a + l * c), NEW t \in Nat, t = b * (a + h * c),
         ~(10 * (s * (l - h) - l * (s - t)) > s * (l - h))
  PROVE  10 * b * a <= s
<1> DEFINE d == l - h
           f == b * a
<1>1. d \in Nat \ {0} /\ f \in Nat
  OBVIOUS
<1>2. s * (l - h) - l * (s - t) = f * d
  OBVIOUS
<1>3. 10 * (f * d) <= s * d
  BY <1>1, <1>2
<1> HIDE DEF d, f
<1>4. (10 * f) * d <= s * d
  BY <1>1, <1>3
<1>5. 10 * f <= s
  BY <1>1, <1>4
<1> QED BY <1>5 DEF f

LEMMA SteadyMeasure ==
  ASSUME IInv, Steady, Measure
  PROVE  Steady'
<1>1. loops \in Nat /\ loops \div 2 \in Nat
  BY ConstantsAssumption DEF IInv, TypeOK, Minimum
<1>2. phase = "measure" /\ phase' = "decide" /\ reason = "none" /\ reason' = "none"
      /\ loops' = loops /\ batch' = batch /\ clock' = clock /\ differential' = differential
  BY DEF Measure, Steady, given
<1>3. clock.steady => seconds' = Time(loops) /\ (differential => half' = Time(loops \div 2))
  BY <1>1, SteadyReadings DEF Measure
<1> QED BY <1>2, <1>3 DEF Steady, TargetIsReal, Time

LEMMA SteadyAccept ==
  ASSUME IInv, Steady, Accept
  PROVE  Steady'
<1>1. /\ phase = "decide" /\ ~TooCostly /\ InTarget
      /\ phase' = "done" /\ UNCHANGED <<loops, batch, clock, differential>>
  BY DEF Accept, Stops, given
<1>2. SUFFICES ASSUME clock.steady
               PROVE  /\ Time(loops) >= Target /\ 2 * Time(loops) <= 3 * Target
                      /\ differential => 10 * batch * clock.launch <= Time(loops)
  BY <1>1 DEF Steady, TargetIsReal, Time
<1>3. seconds = Time(loops) /\ (differential => half = Time(loops \div 2))
  BY <1>1, <1>2 DEF Steady
<1>4. ASSUME differential PROVE 10 * batch * clock.launch <= Time(loops)
  <2>1. loops \in Nat /\ loops \div 2 \in Nat /\ loops \div 2 < loops
    BY <1>4, ConstantsAssumption DEF IInv, TypeOK, Minimum
  <2>2. ~(10 * (seconds * (loops - loops \div 2) - loops * (seconds - half))
          > seconds * (loops - loops \div 2))
    BY <1>1, <1>4 DEF TooCostly, FixedPart, FixedWhole
  <2> DEFINE h == loops \div 2
  <2>3. /\ batch \in Nat /\ clock.launch \in Nat /\ clock.body \in Nat
        /\ seconds = batch * (clock.launch + loops * clock.body) /\ seconds \in Nat
        /\ half = batch * (clock.launch + h * clock.body) /\ half \in Nat
    BY <1>3, <1>4, <2>1, TimeInt
  <2>4. h \in Nat /\ h < loops /\ loops \in Nat
    BY <2>1
  <2>5. ~(10 * (seconds * (loops - h) - loops * (seconds - half)) > seconds * (loops - h))
    BY <2>2
  <2> HIDE DEF h
  <2>6. 10 * batch * clock.launch <= seconds
    BY <2>3, <2>4, <2>5, LaunchShare
  <2> QED BY <1>3, <2>6
<1> QED BY <1>1, <1>3, <1>4 DEF InTarget

LEMMA SteadyAdvance ==
  ASSUME Steady, phase = "decide", UNCHANGED given, NEW l, NEW b, NEW why,
         why # "target_reached", Advance(l, b, why)
  PROVE  Steady'
<1>1. reason = "none"
  BY DEF Steady
<1>2. reason' # "target_reached" /\ (phase' # "done" => phase' = "measure" /\ reason' = "none")
  BY <1>1 DEF Advance, Stops
<1> QED BY <1>2 DEF Steady, TargetIsReal

(* A steady clock is measured exactly in every calibration. *)
LEMMA SteadyAlways == Spec => []Steady
<1>1. Init => Steady
  BY DEF Init, Steady, TargetIsReal
<1>2. IInv /\ Steady /\ [Next]_vars => Steady'
  <2> SUFFICES ASSUME IInv, Steady, [Next]_vars PROVE Steady'
    OBVIOUS
  <2>1. CASE Measure
    BY <2>1, SteadyMeasure
  <2>2. CASE Accept
    BY <2>2, SteadyAccept
  <2>3. CASE GrowForFixedCost
    BY <2>3, SteadyAdvance DEF GrowForFixedCost
  <2>4. CASE ReduceBatch
    BY <2>4, SteadyAdvance DEF ReduceBatch, given
  <2>5. CASE ReduceLoops
    BY <2>5, SteadyAdvance DEF ReduceLoops, given
  <2>6. CASE Increase
    BY <2>6, SteadyAdvance DEF Increase, given
  <2>7. CASE Recalibrate
    BY <2>7 DEF Recalibrate, Steady, TargetIsReal
  <2>8. CASE UNCHANGED vars
    BY <2>8 DEF vars, given, Steady, TargetIsReal, Time
  <2> QED BY <2>1, <2>2, <2>3, <2>4, <2>5, <2>6, <2>7, <2>8 DEF Next, Decide
<1> QED BY <1>1, <1>2, Inductive, PTL DEF Spec

(* A workload of a steady clock that is reported as on target is on target, at a fixed
   cost of at most 10 % (calibration.h:16-20). *)
THEOREM TargetReal == Spec => []TargetIsReal
<1>1. Steady => TargetIsReal
  BY DEF Steady
<1> QED BY <1>1, SteadyAlways, PTL

-----------------------------------------------------------------------------
(* More arithmetic. *)

(* Products of naturals and their order. *)
LEMMA ProductNat ==
  ASSUME NEW a \in Nat, NEW b \in Nat
  PROVE  a * b \in Nat
  OBVIOUS

(* They keep the order, *)
LEMMA ProductOrder ==
  ASSUME NEW a \in Nat, NEW b \in Nat, NEW c \in Nat, a <= b
  PROVE  a * c <= b * c /\ c * a <= c * b
  OBVIOUS

(* and a positive factor can be cancelled. *)
LEMMA Cancel ==
  ASSUME NEW a \in Int, NEW b \in Int, NEW c \in Nat \ {0}
  PROVE  (a * c > b * c) <=> a > b
<1>1. a > b => a * c > b * c
  <2>1. ASSUME a > b PROVE (a - b) * c > 0
    <3>1. a - b \in Nat \ {0}
      BY <2>1
    <3> QED BY <3>1
  <2> QED BY <2>1
<1>2. a <= b => a * c <= b * c
  <2>1. ASSUME a <= b PROVE (b - a) * c >= 0
    <3>1. b - a \in Nat
      BY <2>1
    <3> QED BY <3>1
  <2> QED BY <2>1
<1> QED BY <1>1, <1>2

(* What CeilDiv yields, times the divisor. *)
LEMMA CeilDivBounds ==
  ASSUME NEW n \in Nat, NEW m \in Nat \ {0}
  PROVE  /\ CeilDiv(n, m) \in Nat
         /\ CeilDiv(n, m) * m >= n
         /\ CeilDiv(n, m) * m < n + m
<1> DEFINE k == n + m - 1
           q == k \div m
<1>1. k \in Nat
  OBVIOUS
<1>2. q \in Int
  BY <1>1
<1>3. q * m <= k /\ k < (q + 1) * m
  BY <1>1, <1>2
<1>4. q >= 0
  <2>1. ASSUME q < 0 PROVE FALSE
    <3>1. -1 - q \in Nat
      BY <1>2, <2>1
    <3>2. (-1 - q) * m \in Nat
      BY <3>1
    <3> HIDE DEF q
    <3>3. (q + 1) * m = -((-1 - q) * m)
      BY <1>2
    <3> QED BY <1>1, <1>3, <3>2, <3>3, <1>2
  <2> HIDE DEF q
  <2> QED BY <1>2, <2>1
<1>5. CeilDiv(n, m) = q
  BY DEF CeilDiv
<1> HIDE DEF q
<1>6. (q + 1) * m = q * m + m
  BY <1>2
<1> QED BY <1>2, <1>3, <1>4, <1>5, <1>6

(* More loops at a lower share: going from l to m >= l loops takes at most m / l of the time. *)
LEMMA Grows ==
  ASSUME NEW a \in Nat, NEW c \in Nat, NEW l \in Nat, NEW m \in Nat, l <= m
  PROVE  l * (a + m * c) <= m * (a + l * c)
<1>1. l * (a + m * c) = l * a + (l * m) * c
  OBVIOUS
<1>2. m * (a + l * c) = m * a + (l * m) * c
  OBVIOUS
<1>3. l * a <= m * a
  BY ProductOrder
<1> QED BY <1>1, <1>2, <1>3

(* The fixed cost is above 10 % just when the launch is: of l loops and of h, with h < l,
   in batches of b, on a clock of a per launch and c per loop. *)
LEMMA CostShare ==
  ASSUME NEW l \in Nat, NEW h \in Nat, h < l, NEW b \in Nat \ {0}, NEW a \in Nat, NEW c \in Nat,
         NEW s \in Nat, s = b * (a + l * c), NEW t \in Nat, t = b * (a + h * c)
  PROVE  /\ s * (l - h) - l * (s - t) = (b * (l - h)) * a
         /\ s * (l - h) = (b * (l - h)) * (a + l * c)
         /\ b * (l - h) \in Nat \ {0}
<1> DEFINE d == l - h
<1>1. d \in Nat \ {0}
  OBVIOUS
<1>2. s * d - l * (s - t) = (b * d) * a /\ s * d = (b * d) * (a + l * c)
  OBVIOUS
<1>3. b * d \in Nat \ {0}
  <2> HIDE DEF d
  <2> QED BY <1>1
<1> QED BY <1>2, <1>3

(* A batch of x dispatches of d takes at least the target u if it is scaled to 1.2 u. *)
LEMMA ScaledIsEnough ==
  ASSUME NEW d \in Nat \ {0}, NEW b \in Nat \ {0}, NEW x \in Nat, NEW u \in Nat,
         x * (5 * (b * d)) >= b * 6 * u
  PROVE  x * d >= u
<1> DEFINE y == x * d
<1>1. y \in Nat
  OBVIOUS
<1>2. x * (5 * (b * d)) = (5 * y) * b
  OBVIOUS
<1>3. b * 6 * u = (6 * u) * b
  OBVIOUS
<1> HIDE DEF y
<1>4. ~((6 * u) * b > (5 * y) * b)
  BY <1>1, <1>2, <1>3
<1>5. 6 * u <= 5 * y
  BY <1>1, <1>4, Cancel
<1> QED BY <1>1, <1>5 DEF y

(* One less than three or more dispatches of more than 1.5 u is enough, one less than two
   is more than 0.75 u. *)
LEMMA OneLess ==
  ASSUME NEW d \in Nat \ {0}, NEW b \in Nat, b >= 2, NEW u \in Nat, 2 * (b * d) > 3 * u
  PROVE  (b - 1) * d >= u \/ (b = 2 /\ 4 * d > 3 * u)
<1>1. CASE b = 2
  BY <1>1
<1>2. CASE b >= 3
  <2> DEFINE y == (b - 1) * d
             z == b * d
  <2>1. y \in Nat /\ z \in Nat
    BY <1>2
  <2>2. 3 * y >= 2 * z
    <3>1. b - 3 \in Nat
      BY <1>2
    <3>2. (b - 3) * d \in Nat
      BY <3>1
    <3>3. 3 * y - 2 * z = (b - 3) * d
      OBVIOUS
    <3> HIDE DEF y, z
    <3> QED BY <2>1, <3>2, <3>3
  <2>3. 2 * z > 3 * u
    OBVIOUS
  <2> HIDE DEF y, z
  <2>4. y >= u
    BY <2>1, <2>2, <2>3
  <2> QED BY <2>4 DEF y
<1> QED BY <1>1, <1>2

(* Fewer loops, scaled to 1.2 u, take at least u; *)
LEMMA FewerIsEnough ==
  ASSUME NEW a \in Nat, NEW c \in Nat, NEW l \in Nat \ {0}, NEW m \in Nat, m <= l, NEW u \in Nat,
         NEW s \in Nat \ {0}, s = a + l * c, m * (5 * s) >= l * 6 * u
  PROVE  a + m * c >= u
<1> DEFINE y == a + m * c
<1>1. y \in Nat
  OBVIOUS
<1>2. m * s <= l * y
  BY Grows
<1> HIDE DEF y
<1>3. 5 * (m * s) >= (6 * u) * l /\ m * s \in Nat
  OBVIOUS
<1>4. (6 * u) * l <= (5 * y) * l
  BY <1>1, <1>2, <1>3
<1>5. 6 * u <= 5 * y
  BY <1>1, <1>4, Cancel
<1> QED BY <1>1, <1>5 DEF y

(* and one loop less than three or more that took 1.5 u is enough too. *)
LEMMA OneLoopLess ==
  ASSUME NEW a \in Nat, NEW c \in Nat, NEW l \in Nat, l >= 3, NEW u \in Nat,
         2 * (a + l * c) > 3 * u
  PROVE  a + (l - 1) * c >= u
<1> DEFINE y == a + (l - 1) * c
           z == a + l * c
<1>1. y \in Nat /\ z \in Nat /\ c <= z /\ y = z - c /\ 3 * c <= z
  <2>1. l - 3 \in Nat
    OBVIOUS
  <2>2. (l - 3) * c \in Nat
    BY <2>1
  <2>3. l * c = (l - 3) * c + 3 * c /\ (l - 1) * c = l * c - c
    OBVIOUS
  <2> QED BY <2>2, <2>3
<1>2. 2 * z > 3 * u
  OBVIOUS
<1> HIDE DEF y, z
<1>3. y >= u
  BY <1>1, <1>2
<1> QED BY <1>3 DEF y

(* From three loops or more, between 0.75 u and u, scaling to 1.2 u does not overshoot. *)
LEMMA NoOvershoot ==
  ASSUME NEW a \in Nat, NEW c \in Nat, NEW l \in Nat, l >= 3, NEW m \in Nat, m >= l, NEW u \in Nat,
         NEW s \in Nat, s = a + l * c, s < u, 4 * s > 3 * u,
         m = l + 1 \/ m * (5 * s) < l * 6 * u + 5 * s
  PROVE  2 * (a + m * c) <= 3 * u
<1> DEFINE y == a + m * c
           p == m * s
<1>0. y \in Nat /\ p \in Nat
  OBVIOUS
<1>1. l * y <= p
  BY Grows
<1>2. SUFFICES 2 * p <= (3 * u) * l
  <2> HIDE DEF y, p
  <2>1. (2 * y) * l <= (3 * u) * l
    BY <1>0, <1>1, <1>2
  <2>2. 2 * y <= 3 * u
    BY <1>0, <2>1, Cancel
  <2> QED BY <2>2 DEF y
<1>3. CASE m = l + 1
  <2>1. p <= (l + 1) * u
    <3>1. p = (l + 1) * s
      BY <1>3
    <3> QED BY <3>1, ProductOrder
  <2>2. (l - 2) * u >= 0
    <3>1. l - 2 \in Nat
      OBVIOUS
    <3> QED BY <3>1
  <2> HIDE DEF p
  <2> QED BY <1>0, <2>1, <2>2
<1>4. CASE m # l + 1
  <2>1. 5 * p < 6 * (l * u) + 5 * s /\ l * u \in Nat
    <3>1. 5 * p = m * (5 * s)
      OBVIOUS
    <3>2. l * 6 * u = 6 * (l * u) /\ l * u \in Nat
      OBVIOUS
    <3> HIDE DEF p
    <3> QED BY <1>4, <3>1, <3>2
  <2>2. CASE l >= 4
    <3>1. l * u >= 4 * u
      BY <2>2, ProductOrder
    <3> HIDE DEF p
    <3>2. 2 * p <= 3 * (l * u)
      BY <1>0, <2>1, <3>1
    <3> QED BY <3>2
  <2>3. CASE l = 3
    <3>1. 5 * p < 18 * u + 5 * s
      BY <2>1, <2>3
    <3>2. CASE m >= 6
      <4>1. p >= 6 * s
        BY <3>2, ProductOrder
      <4> HIDE DEF p
      <4> QED BY <1>0, <3>1, <4>1
    <3>3. CASE m \in 3..5
      <4>1. p = 3 * s \/ p = 4 * s \/ p = 5 * s
        BY <3>3
      <4> HIDE DEF p
      <4> QED BY <1>0, <2>3, <3>1, <4>1
    <3> HIDE DEF p
    <3> QED BY <2>3, <3>2, <3>3
  <2> QED BY <2>2, <2>3
<1> QED BY <1>3, <1>4

-----------------------------------------------------------------------------
(* How often a calibration turns. *)

Exact == differential /\ clock.steady

(* The launch is at most 10 %, one batch lasts the target, one dispatch alone is nearly
   enough, and this is not a workload of two loops that may be grown. *)
Cheap == 9 * clock.launch <= loops * clock.body
Enough == batch * Dispatch >= Target
Near == batch = 1 /\ 4 * Dispatch > 3 * Target
Grown == loops >= 3 \/ loops = limit

(* What each turn leaves behind it: once the fixed cost is low it stays low, a workload
   that was reduced is enough or nearly so, and one that was reduced in loops is enough. *)
Approach ==
  /\ heading = "none" => turns = 0
  /\ heading = "more" =>
       \/ turns = 0 /\ Grown
       \/ turns = 1 /\ Cheap /\ Near
       \/ turns = 2 /\ Cheap /\ Near /\ loops >= 3 /\ 2 * Dispatch <= 3 * Target
  /\ heading = "less" =>
       /\ Cheap /\ (Enough \/ Near)
       /\ \/ turns = 0
          \/ turns = 1 /\ (Grown \/ (batch = 1 /\ Enough))
          \/ turns = 2 /\ batch = 1 /\ Enough

Course == (Exact /\ ~NoBatchFits) => Approach

(* A decision goes to the next workload or leaves the workload as it is. *)
LEMMA Moves ==
  ASSUME NEW l, NEW b, NEW why, Advance(l, b, why)
  PROVE  \/ UNCHANGED <<loops, batch, heading, turns>>
         \/ /\ loops' = l /\ batch' = b /\ (l # loops \/ b # batch)
            /\ heading' = IF l > loops \/ b > batch THEN "more" ELSE "less"
            /\ turns' = IF heading \in {"none", heading'} THEN turns ELSE turns + 1
<1>1. CASE l = loops /\ b = batch
  BY <1>1 DEF Advance, Stops, course
<1>2. CASE ~(l = loops /\ b = batch) /\ round = MaxRounds - 1
  BY <1>2 DEF Advance, Stops, course
<1>3. CASE ~(l = loops /\ b = batch) /\ round # MaxRounds - 1
  BY <1>3 DEF Advance, Heads
<1> QED BY <1>1, <1>2, <1>3

(* The numbers of a decision. *)
LEMMA Numbers ==
  ASSUME IInv, Steady, phase = "decide", Exact
  PROVE  /\ loops \in Nat /\ loops >= 2 /\ loops <= limit /\ limit \in Nat
         /\ batch \in Nat \ {0} /\ batch <= MaxBatch
         /\ clock.launch \in Nat /\ clock.body \in Nat \ {0}
         /\ Target \in Nat \ {0}
         /\ Dispatch \in Nat \ {0}
         /\ seconds = batch * Dispatch /\ seconds \in Nat \ {0}
         /\ half = batch * (clock.launch + (loops \div 2) * clock.body) /\ half \in Nat
<1>1. /\ loops \in Nat /\ loops >= 2 /\ loops <= limit /\ limit \in Nat
      /\ batch \in Nat \ {0} /\ batch <= MaxBatch
      /\ clock.launch \in Nat /\ clock.body \in Nat \ {0} /\ Target \in Nat \ {0}
      /\ half \in Nat /\ seconds \in Nat \ {0}
  BY ConstantsAssumption DEF IInv, TypeOK, Minimum, MaxBatch, Measured, Exact
<1>2. loops * clock.body \in Nat \ {0}
  BY <1>1, PositiveProduct
<1>3. Dispatch \in Nat \ {0}
  BY <1>1, <1>2 DEF Dispatch
<1>4. seconds = batch * Dispatch
  BY DEF Steady, Exact, Time, Dispatch
<1>5. half = batch * (clock.launch + (loops \div 2) * clock.body)
  BY DEF Steady, Exact, Time
<1> QED BY <1>1, <1>3, <1>4, <1>5

(* The share that is measured is that of the launch. *)
LEMMA Shares ==
  ASSUME IInv, Steady, phase = "decide", Exact
  PROVE  \E k \in Nat \ {0} : /\ FixedPart = k * clock.launch
                              /\ FixedWhole = k * Dispatch
                              /\ FixedWhole - FixedPart = k * (loops * clock.body)
<1> DEFINE h == loops \div 2
           k == batch * (loops - h)
<1>1. h \in Nat /\ h < loops
  BY Numbers
<1>2. /\ seconds * (loops - h) - loops * (seconds - half) = k * clock.launch
      /\ seconds * (loops - h) = k * (clock.launch + loops * clock.body)
      /\ k \in Nat \ {0}
  <2>1. /\ loops \in Nat /\ batch \in Nat \ {0} /\ clock.launch \in Nat /\ clock.body \in Nat
        /\ seconds \in Nat /\ seconds = batch * (clock.launch + loops * clock.body)
        /\ half \in Nat /\ half = batch * (clock.launch + h * clock.body)
    BY Numbers DEF Dispatch
  <2> HIDE DEF h
  <2> QED BY <1>1, <2>1, CostShare
<1>3. FixedPart = k * clock.launch /\ FixedWhole = k * Dispatch
  BY <1>2 DEF FixedPart, FixedWhole, Exact, Dispatch
<1>4. FixedWhole - FixedPart = k * (loops * clock.body)
  <2>1. loops * clock.body \in Nat /\ clock.launch \in Nat
    BY Numbers
  <2>2. k * (clock.launch + loops * clock.body) = k * clock.launch + k * (loops * clock.body)
    <3> HIDE DEF k
    <3> QED BY <1>2, <2>1
  <2> HIDE DEF k
  <2>3. k * clock.launch \in Int /\ k * (loops * clock.body) \in Int
    BY <1>2, <2>1
  <2> QED BY <1>3, <2>2, <2>3 DEF Dispatch
<1> HIDE DEF k
<1> QED BY <1>2, <1>3, <1>4

(* It is too high just when the launch takes more than 10 %. *)
LEMMA CheapOrCostly ==
  ASSUME IInv, Steady, phase = "decide", Exact
  PROVE  TooCostly <=> ~Cheap
<1>1. PICK k \in Nat \ {0} : FixedPart = k * clock.launch /\ FixedWhole = k * Dispatch
  BY Shares
<1>2. clock.launch \in Nat /\ Dispatch \in Nat /\ loops * clock.body \in Nat
      /\ Dispatch = clock.launch + loops * clock.body
  BY Numbers DEF Dispatch
<1>3. 10 * FixedPart = (10 * clock.launch) * k /\ FixedWhole = Dispatch * k
  BY <1>1, <1>2
<1>4. TooCostly <=> 10 * clock.launch > Dispatch
  BY <1>2, <1>3, Cancel DEF TooCostly
<1> QED BY <1>2, <1>4 DEF Cheap

(* The floor keeps the fixed cost low. *)
LEMMA FloorIsCheap ==
  ASSUME IInv, Steady, phase = "decide", Exact,
         NEW l \in Nat, l >= Floor
  PROVE  9 * clock.launch <= l * clock.body \/ l >= limit
<1> DEFINE q == CeilDiv(23 * loops * FixedPart, 2 * (FixedWhole - FixedPart))
<1>0. PICK k \in Nat \ {0} : /\ FixedPart = k * clock.launch
                             /\ FixedWhole - FixedPart = k * (loops * clock.body)
  BY Shares
<1>1. clock.launch \in Nat /\ clock.body \in Nat \ {0} /\ loops \in Nat \ {0} /\ limit \in Nat
      /\ floor \in Nat
  BY Numbers, ConstantsAssumption DEF IInv, TypeOK, Minimum
<1>2. CASE clock.launch = 0
  <2>1. l * clock.body \in Nat
    BY <1>1
  <2> QED BY <1>2, <2>1
<1>3. CASE clock.launch # 0
  <2>1. FixedPart \in Nat \ {0}
    BY <1>0, <1>1, <1>3, PositiveProduct
  <2>2. loops * clock.body \in Nat \ {0}
    BY <1>1, PositiveProduct
  <2>3. FixedWhole - FixedPart \in Nat \ {0}
    BY <1>0, <2>2, PositiveProduct
  <2>4. FixedPart > 0 /\ FixedPart < FixedWhole
    BY <2>1, <2>3, FixedInt
  <2>5. 23 * loops * FixedPart \in Nat /\ 2 * (FixedWhole - FixedPart) \in Nat \ {0}
    BY <1>1, <2>1, <2>3
  <2>6. q \in Nat /\ q * (2 * (FixedWhole - FixedPart)) >= 23 * loops * FixedPart
    BY <2>5, CeilDivBounds
  <2>7. Floor = Least(limit, Most(floor, q))
    BY <2>4 DEF Floor
  <2> HIDE DEF q
  <2>8. l >= limit \/ l >= q
    BY <1>1, <2>6, <2>7 DEF Least, Most
  <2>9. ASSUME l >= q PROVE 9 * clock.launch <= l * clock.body
    <3> DEFINE w == k * loops
    <3>1. w \in Nat \ {0}
      BY <1>1, PositiveProduct
    <3>2. 23 * loops * FixedPart = (23 * clock.launch) * w
      BY <1>0, <1>1
    <3>3. q * (2 * (FixedWhole - FixedPart)) = (2 * (q * clock.body)) * w
      <4>1. FixedWhole - FixedPart = w * clock.body
        BY <1>0, <1>1
      <4> HIDE DEF w
      <4> QED BY <1>1, <2>6, <3>1, <4>1
    <3> HIDE DEF w
    <3>4. q * clock.body \in Nat
      BY <1>1, <2>6
    <3>5. 23 * clock.launch <= 2 * (q * clock.body)
      BY <1>1, <2>6, <3>1, <3>2, <3>3, <3>4, Cancel
    <3>6. q * clock.body <= l * clock.body /\ l * clock.body \in Nat
      BY <1>1, <2>6, <2>9, ProductOrder
    <3> QED BY <1>1, <3>4, <3>5, <3>6
  <2> QED BY <2>8, <2>9
<1> QED BY <1>2, <1>3

(* What is wanted against the fixed cost are more loops. *)
LEMMA WantedIsMore ==
  ASSUME IInv, Steady, phase = "decide", Exact
  PROVE  LET wanted == Clamp(CeilDiv(25 * loops * FixedPart, 2 * FixedWhole),
                             CeilDiv(9 * loops, 8), 8 * loops)
         IN wanted \in Int /\ wanted > loops
<1> DEFINE q == CeilDiv(25 * loops * FixedPart, 2 * FixedWhole)
<1>0. loops \in Nat \ {0}
  BY Numbers
<1>1. q \in Int
  <2>1. PICK k \in Nat \ {0} : FixedPart = k * clock.launch /\ FixedWhole = k * Dispatch
    BY Shares
  <2>2. Dispatch \in Nat \ {0} /\ clock.launch \in Nat
    BY Numbers
  <2>3. FixedWhole \in Nat \ {0}
    BY <2>1, <2>2, PositiveProduct
  <2>4. 25 * loops * FixedPart \in Int /\ 2 * FixedWhole \in Nat \ {0}
    BY <1>0, <2>1, <2>2, <2>3
  <2> QED BY <2>4, CeilDivInt
<1>2. CeilDiv(9 * loops, 8) \in Nat /\ CeilDiv(9 * loops, 8) > loops
      /\ CeilDiv(9 * loops, 8) <= 8 * loops
  BY <1>0 DEF CeilDiv
<1> HIDE DEF q
<1>3. Clamp(q, CeilDiv(9 * loops, 8), 8 * loops) \in Int
      /\ Clamp(q, CeilDiv(9 * loops, 8), 8 * loops) > loops
  BY <1>0, <1>1, <1>2 DEF Clamp, Most, Least
<1> QED BY <1>3 DEF q

(* A device on which no batch fits stays so. *)
LEMMA NoneFitsStays ==
  ASSUME IInv, Steady, Exact, NoBatchFits, Decide
  PROVE  NoBatchFits'
<1>0. phase = "decide"
  BY DEF Decide, GrowForFixedCost, Accept, ReduceBatch, ReduceLoops, Increase
<1>1. SUFFICES loops' = loops
  BY DEF Decide, GrowForFixedCost, Accept, ReduceBatch, ReduceLoops, Increase, given,
         NoBatchFits, Dispatch
<1>2. /\ loops = limit /\ limit \in Nat \ {0} /\ batch \in Nat \ {0} /\ Target \in Nat
      /\ Dispatch \in Nat /\ Dispatch < Target /\ seconds = batch * Dispatch
      /\ seconds \in Nat \ {0}
  BY <1>0, Numbers DEF NoBatchFits
<1>3. CASE GrowForFixedCost
  <2> DEFINE w == Clamp(CeilDiv(25 * loops * FixedPart, 2 * FixedWhole),
                        CeilDiv(9 * loops, 8), 8 * loops)
  <2>1. w > loops /\ w \in Int
    BY <1>0, WantedIsMore
  <2>2. Advance(Least(limit, w), batch, "fixed_cost_limit")
    BY <1>3 DEF GrowForFixedCost
  <2> HIDE DEF w
  <2>3. Least(limit, w) = loops
    BY <1>2, <2>1 DEF Least
  <2> QED BY <2>2, <2>3, Moves
<1>4. CASE Accept
  BY <1>4 DEF Accept, Stops
<1>5. CASE ReduceBatch
  <2>1. PICK b, why : Advance(loops, b, why)
    BY <1>5 DEF ReduceBatch
  <2> QED BY <2>1, Moves
<1>6. CASE ReduceLoops
  BY <1>2, <1>6 DEF ReduceLoops, TooLong
<1>7. CASE Increase
  <2>1. Scaled(loops) \in Nat
    BY <1>2, ConstantsAssumption, ScaledBounds
  <2>2. Least(limit, Most(loops + 1, Scaled(loops))) = loops
    BY <1>2, <2>1 DEF Least, Most
  <2>3. PICK b, why : Advance(loops, b, why)
    BY <1>7, <2>2 DEF Increase
  <2> QED BY <2>3, Moves
<1> QED BY <1>3, <1>4, <1>5, <1>6, <1>7 DEF Decide

(* What a step owes to Course: its device is still the same one, and a batch fits it. *)
LEMMA CourseStep ==
  ASSUME IInv, Steady, Course, Decide,
         ASSUME Exact, Approach, ~NoBatchFits, ~NoBatchFits', phase = "decide", UNCHANGED clock,
                ~UNCHANGED <<loops, batch, heading, turns>>
         PROVE  Approach'
  PROVE  Course'
<1>1. SUFFICES ASSUME Exact', ~NoBatchFits' PROVE Approach'
  BY DEF Course
<1>2. phase = "decide" /\ UNCHANGED given
  BY DEF Decide, GrowForFixedCost, Accept, ReduceBatch, ReduceLoops, Increase
<1>3. Exact
  BY <1>1, <1>2 DEF Exact, given
<1>4. ~NoBatchFits
  BY <1>1, <1>3, NoneFitsStays
<1>5. Approach
  BY <1>3, <1>4 DEF Course
<1>6. CASE UNCHANGED <<loops, batch, heading, turns>>
  BY <1>2, <1>5, <1>6 DEF Approach, Cheap, Enough, Near, Grown, Dispatch, given
<1>7. UNCHANGED clock
  BY <1>2 DEF given
<1> QED BY <1>1, <1>2, <1>3, <1>4, <1>5, <1>6, <1>7

(* From growing against the fixed cost. *)
LEMMA GrowCourse ==
  ASSUME IInv, Steady, Course, GrowForFixedCost
  PROVE  Course'
<1> SUFFICES ASSUME Exact, Approach, ~NoBatchFits, ~NoBatchFits', phase = "decide",
                    UNCHANGED clock, ~UNCHANGED <<loops, batch, heading, turns>>
             PROVE  Approach'
  BY CourseStep DEF Decide
<1> DEFINE w == Clamp(CeilDiv(25 * loops * FixedPart, 2 * FixedWhole),
                      CeilDiv(9 * loops, 8), 8 * loops)
           l == Least(limit, w)
<1>1. Advance(l, batch, "fixed_cost_limit") /\ TooCostly
  BY DEF GrowForFixedCost
<1>2. ~Cheap
  BY <1>1, CheapOrCostly
<1>3. w \in Int /\ w > loops /\ loops \in Nat /\ loops >= 2 /\ loops <= limit /\ limit \in Nat
  BY WantedIsMore, Numbers
<1> HIDE DEF w
<1>4. l \in Nat /\ (l = loops \/ l > loops)
  BY <1>3 DEF Least
<1> HIDE DEF l
<1>5. loops' = l /\ l > loops /\ heading' = "more"
      /\ turns' = IF heading \in {"none", "more"} THEN turns ELSE turns + 1
  BY <1>1, <1>3, <1>4, Moves
<1>6. heading # "less" /\ turns = 0
  <2>1. heading \in {"none", "more", "less"}
    BY DEF IInv, TypeOK
  <2> QED BY <1>2, <2>1 DEF Approach
<1>7. turns' = 0 /\ Grown'
  <2>1. heading \in {"none", "more"}
    BY <1>6 DEF IInv, TypeOK
  <2>2. turns' = 0
    BY <1>5, <1>6, <2>1
  <2>3. loops' >= 3
    BY <1>3, <1>4, <1>5
  <2> QED BY <2>2, <2>3 DEF Grown
<1> QED BY <1>5, <1>7 DEF Approach

(* What Scaled yields against a target that is exceeded: nothing more, and still enough. *)
LEMMA ScaledDown ==
  ASSUME NEW x \in Nat \ {0}, Target \in Nat \ {0}, seconds \in Nat \ {0}, TooLong
  PROVE  /\ Scaled(x) \in Nat \ {0} /\ Scaled(x) <= x
         /\ Scaled(x) * (5 * seconds) >= x * 6 * Target
<1> DEFINE n == x * 6 * Target
           m == 5 * seconds
           q == CeilDiv(n, m)
<1>1. n \in Nat /\ m \in Nat \ {0} /\ n <= x * m
  <2>1. 6 * Target <= 5 * seconds
    BY DEF TooLong
  <2>2. x * (6 * Target) <= x * (5 * seconds)
    BY <2>1, ProductOrder
  <2> QED BY <2>2
<1>2. Scaled(x) = Clamp(q, CeilDiv(x, 8), 8 * x)
  BY DEF Scaled
<1> HIDE DEF n, m
<1>3. q \in Nat /\ q * m >= n /\ q * m < n + m
  BY <1>1, CeilDivBounds
<1>4. CeilDiv(x, 8) \in Nat \ {0} /\ CeilDiv(x, 8) <= x
  BY DEF CeilDiv
<1> HIDE DEF q
<1>5. q <= x
  <2>1. q * m < (x + 1) * m
    <3>1. (x + 1) * m = x * m + m
      BY <1>1
    <3>2. q * m \in Nat /\ x * m \in Nat
      BY <1>1, <1>3
    <3> QED BY <1>1, <1>3, <3>1, <3>2
  <2>2. x + 1 > q
    BY <1>1, <1>3, <2>1, Cancel
  <2> QED BY <1>3, <2>2
<1>6. Scaled(x) \in Nat \ {0} /\ Scaled(x) <= x /\ Scaled(x) >= q
  BY <1>2, <1>3, <1>4, <1>5 DEF Clamp, Most, Least
<1>7. Scaled(x) * m >= q * m
  BY <1>1, <1>3, <1>6, ProductOrder
<1>8. Scaled(x) * m >= n
  <2>1. Scaled(x) * m \in Nat /\ q * m \in Nat
    BY <1>1, <1>3, <1>6
  <2> QED BY <1>1, <1>3, <1>7, <2>1
<1> QED BY <1>6, <1>8 DEF n, m

(* From reducing the batch. *)
LEMMA ReduceBatchCourse ==
  ASSUME IInv, Steady, Course, ReduceBatch
  PROVE  Course'
<1> SUFFICES ASSUME Exact, Approach, ~NoBatchFits, ~NoBatchFits', phase = "decide",
                    UNCHANGED clock, ~UNCHANGED <<loops, batch, heading, turns>>
             PROVE  Approach'
  BY CourseStep DEF Decide
<1> DEFINE scaled == Most(1, Scaled(batch))
           b == IF scaled = batch THEN batch - 1 ELSE scaled
<1>1. Advance(loops, b, "reduce_batch") /\ ~TooCostly /\ TooLong /\ batch > 1
  BY DEF ReduceBatch
<1>2. Cheap
  BY <1>1, CheapOrCostly
<1>3. /\ batch \in Nat \ {0} /\ seconds \in Nat \ {0} /\ Target \in Nat \ {0}
      /\ Dispatch \in Nat \ {0} /\ seconds = batch * Dispatch /\ limit' = limit
      /\ heading \in {"none", "more", "less"} /\ turns \in Nat
  BY Numbers DEF IInv, TypeOK, ReduceBatch, given
<1>4. /\ Scaled(batch) \in Nat \ {0} /\ Scaled(batch) <= batch
      /\ Scaled(batch) * (5 * seconds) >= batch * 6 * Target
  BY <1>1, <1>3, ScaledDown
<1>5. scaled = Scaled(batch)
  BY <1>4 DEF Most
<1>6. b \in Nat /\ b >= 1 /\ b < batch
  BY <1>1, <1>3, <1>4, <1>5
<1>7. b * Dispatch >= Target \/ (b = 1 /\ 4 * Dispatch > 3 * Target)
  <2>1. CASE scaled = batch
    <3>1. 2 * (batch * Dispatch) > 3 * Target
      BY <1>1, <1>3 DEF TooLong
    <3> QED BY <1>1, <1>3, <2>1, <3>1, OneLess
  <2>2. CASE scaled # batch
    <3> DEFINE x == Scaled(batch)
    <3>1. b = x
      BY <1>5, <2>2
    <3>2. x \in Nat /\ x * (5 * (batch * Dispatch)) >= batch * 6 * Target
      BY <1>3, <1>4
    <3> HIDE DEF x
    <3>3. x * Dispatch >= Target
      BY <1>3, <3>2, ScaledIsEnough
    <3> HIDE DEF b
    <3> QED BY <3>1, <3>3
  <2> QED BY <2>1, <2>2
<1> HIDE DEF b
<1>8. loops' = loops /\ batch' = b /\ heading' = "less"
      /\ turns' = IF heading \in {"none", "less"} THEN turns ELSE turns + 1
  <2>1. ~(loops > loops) /\ ~(b > batch)
    BY <1>3, <1>6, Numbers
  <2> QED BY <1>1, <2>1, Moves
<1>9. Dispatch' = Dispatch /\ Cheap' /\ Grown' = Grown
  BY <1>2, <1>3, <1>8 DEF Dispatch, Cheap, Grown
<1>10. Enough' \/ Near'
  BY <1>7, <1>8, <1>9 DEF Enough, Near
<1>11. batch # 1
  BY <1>1
<1>12. turns' = 0 \/ (turns' = 1 /\ Grown)
  BY <1>3, <1>8, <1>11 DEF Approach, Near
<1> QED BY <1>8, <1>9, <1>10, <1>12 DEF Approach

(* From reducing the loops. *)
LEMMA ReduceLoopsCourse ==
  ASSUME IInv, Steady, Course, ReduceLoops
  PROVE  Course'
<1> SUFFICES ASSUME Exact, Approach, ~NoBatchFits, ~NoBatchFits', phase = "decide",
                    UNCHANGED clock, ~UNCHANGED <<loops, batch, heading, turns>>
             PROVE  Approach'
  BY CourseStep DEF Decide
<1> DEFINE wanted == Least(loops, Most(Floor, Scaled(loops)))
           l == IF wanted = loops /\ loops > Floor THEN loops - 1 ELSE wanted
           why == IF Floor > Minimum THEN "quality_floor_reached" ELSE "workload_limit"
<1>1. Advance(l, batch, why) /\ ~TooCostly /\ TooLong /\ batch = 1
  BY DEF ReduceLoops
<1>2. Cheap
  BY <1>1, CheapOrCostly
<1>3. /\ loops \in Nat \ {0} /\ loops >= 2 /\ loops <= limit /\ limit \in Nat
      /\ seconds \in Nat \ {0} /\ Target \in Nat \ {0}
      /\ clock.launch \in Nat /\ clock.body \in Nat
      /\ Dispatch \in Nat \ {0} /\ seconds = Dispatch
      /\ heading \in {"none", "more", "less"} /\ turns \in Nat
  BY <1>1, Numbers DEF IInv, TypeOK
<1>4. /\ Scaled(loops) \in Nat \ {0} /\ Scaled(loops) <= loops
      /\ Scaled(loops) * (5 * seconds) >= loops * 6 * Target
  BY <1>1, <1>3, ScaledDown
<1>5. Floor \in Nat /\ Floor >= 2 /\ Floor <= limit
  BY <1>3, FixedInt, FloorRises DEF Minimum, Exact
<1>6. /\ l \in Nat /\ l <= loops
      /\ l = loops \/ (l = loops - 1 /\ l >= Floor) \/ (l >= Floor /\ l >= Scaled(loops))
  BY <1>3, <1>4, <1>5 DEF Least, Most
<1> HIDE DEF l, why
<1>7. loops' = l /\ batch' = 1 /\ l < loops /\ heading' = "less"
      /\ turns' = IF heading \in {"none", "less"} THEN turns ELSE turns + 1
  <2>1. ~(l > loops) /\ ~(batch > batch)
    BY <1>1, <1>3, <1>6
  <2> QED BY <1>1, <1>3, <1>6, <2>1, Moves
<1>8. Cheap'
  <2>1. l >= Floor
    BY <1>6, <1>7, <1>3
  <2>2. 9 * clock.launch <= l * clock.body \/ l >= limit
    BY <1>6, <2>1, FloorIsCheap
  <2>3. ~(l >= limit)
    BY <1>3, <1>6, <1>7
  <2> QED BY <1>7, <2>2, <2>3 DEF Cheap
<1>9. clock.launch + l * clock.body >= Target
  <2>1. 2 * (clock.launch + loops * clock.body) > 3 * Target
    BY <1>1, <1>3 DEF TooLong, Dispatch
  <2>2. CASE l = loops - 1 /\ l >= Floor
    <3>1. loops >= 3
      BY <1>3, <1>5, <2>2
    <3> QED BY <1>3, <2>1, <2>2, <3>1, OneLoopLess
  <2>3. CASE l >= Scaled(loops)
    <3>1. l * (5 * seconds) >= Scaled(loops) * (5 * seconds)
      BY <1>3, <1>4, <1>6, <2>3, ProductOrder
    <3>2. l * (5 * seconds) >= loops * 6 * Target
      <4>1. /\ l * (5 * seconds) \in Nat /\ Scaled(loops) * (5 * seconds) \in Nat
            /\ loops * 6 * Target \in Nat
        BY <1>3, <1>4, <1>6
      <4> QED BY <1>4, <3>1, <4>1
    <3>3. seconds = clock.launch + loops * clock.body
      BY <1>3 DEF Dispatch
    <3> QED BY <1>3, <1>6, <3>2, <3>3, FewerIsEnough
  <2> QED BY <1>6, <1>7, <1>3, <2>2, <2>3
<1>10. Enough'
  <2>1. Dispatch' = clock.launch + l * clock.body
    BY <1>7 DEF Dispatch
  <2>2. Dispatch' \in Nat
    BY <1>3, <1>6, <2>1, ProductNat
  <2> QED BY <1>7, <1>9, <2>1, <2>2 DEF Enough
<1>11. ~(2 * Dispatch <= 3 * Target)
  BY <1>1, <1>3 DEF TooLong
<1>12. turns' \in 0..2
  BY <1>3, <1>7, <1>11 DEF Approach
<1> QED BY <1>7, <1>8, <1>10, <1>12 DEF Approach

(* What Scaled yields against a target that is missed: no more than is asked for, or what
   there was. *)
LEMMA ScaledUp ==
  ASSUME NEW x \in Nat \ {0}, Target \in Nat \ {0}, seconds \in Nat \ {0}
  PROVE  /\ Scaled(x) \in Nat \ {0}
         /\ Scaled(x) <= x \/ Scaled(x) * (5 * seconds) < x * 6 * Target + 5 * seconds
<1> DEFINE n == x * 6 * Target
           m == 5 * seconds
           q == CeilDiv(n, m)
<1>1. n \in Nat /\ m \in Nat \ {0}
  BY ProductNat
<1>2. Scaled(x) = Clamp(q, CeilDiv(x, 8), 8 * x)
  BY DEF Scaled
<1> HIDE DEF n, m
<1>3. q \in Nat /\ q * m >= n /\ q * m < n + m
  BY <1>1, CeilDivBounds
<1>4. CeilDiv(x, 8) \in Nat \ {0} /\ CeilDiv(x, 8) <= x
  BY DEF CeilDiv
<1> HIDE DEF q
<1>5. Scaled(x) \in Nat \ {0} /\ (Scaled(x) <= x \/ Scaled(x) <= q)
  BY <1>2, <1>3, <1>4 DEF Clamp, Most, Least
<1>6. ASSUME Scaled(x) <= q PROVE Scaled(x) * m < n + m
  <2>1. Scaled(x) * m <= q * m
    BY <1>1, <1>3, <1>5, <1>6, ProductOrder
  <2>2. Scaled(x) * m \in Nat /\ q * m \in Nat
    BY <1>1, <1>3, <1>5
  <2> QED BY <1>1, <1>3, <2>1, <2>2
<1> QED BY <1>5, <1>6 DEF n, m

(* From increasing. *)
LEMMA IncreaseCourse ==
  ASSUME IInv, Steady, Course, Increase
  PROVE  Course'
<1> SUFFICES ASSUME Exact, Approach, ~NoBatchFits, ~NoBatchFits', phase = "decide",
                    UNCHANGED clock, ~UNCHANGED <<loops, batch, heading, turns>>
             PROVE  Approach'
  BY CourseStep DEF Decide
<1> DEFINE l == Most(loops + 1, Scaled(loops))
           more == Least(limit, l)
           b == Least(MaxBatch, Most(batch + 1, Scaled(batch)))
<1>1. /\ ~TooCostly /\ seconds < Target
      /\ IF more # loops THEN Advance(more, batch, "increase_loops")
                         ELSE Advance(loops, b, "workload_limit")
  BY DEF Increase
<1>2. Cheap
  BY <1>1, CheapOrCostly
<1>3. /\ loops \in Nat \ {0} /\ loops >= 2 /\ loops <= limit /\ limit \in Nat
      /\ batch \in Nat \ {0} /\ batch <= MaxBatch
      /\ seconds \in Nat \ {0} /\ Target \in Nat \ {0}
      /\ clock.launch \in Nat /\ clock.body \in Nat
      /\ Dispatch \in Nat \ {0} /\ seconds = batch * Dispatch
      /\ heading \in {"none", "more", "less"} /\ turns \in Nat /\ limit' = limit
  BY Numbers DEF IInv, TypeOK, Increase, given
<1>4. ~Enough
  BY <1>1, <1>3 DEF Enough
<1>5. /\ Scaled(loops) \in Nat \ {0}
      /\ Scaled(loops) <= loops \/ Scaled(loops) * (5 * seconds) < loops * 6 * Target + 5 * seconds
  BY <1>3, ScaledUp
<1>6. /\ l \in Nat /\ l > loops
      /\ l = loops + 1 \/ l * (5 * seconds) < loops * 6 * Target + 5 * seconds
  BY <1>3, <1>5 DEF Most
<1>7. CASE more = loops
  <2>1. loops = limit
    BY <1>3, <1>6, <1>7 DEF Least
  <2>2. Scaled(batch) \in Nat
    BY <1>3, ScaledUp
  <2>3. b \in Nat /\ b >= batch
    BY <1>3, <2>2 DEF Least, Most, MaxBatch
  <2>4. Advance(loops, b, "workload_limit")
    BY <1>1, <1>7
  <2> HIDE DEF b, more, l
  <2>5. loops' = loops /\ heading' = "more"
        /\ turns' = IF heading \in {"none", "more"} THEN turns ELSE turns + 1
    <3>1. batch # b => b > batch
      BY <1>3, <2>3
    <3> QED BY <2>4, <3>1, Moves
  <2>6. ~Near
    BY <1>3, <1>4, <2>1 DEF Near, NoBatchFits, Enough
  <2>7. heading # "less" /\ turns = 0
    BY <1>3, <1>4, <2>6 DEF Approach
  <2>8. turns' = 0 /\ Grown'
    BY <1>3, <2>1, <2>5, <2>7 DEF Grown
  <2> QED BY <2>5, <2>8 DEF Approach
<1>8. CASE more # loops
  <2>1. more \in Nat /\ more > loops /\ more <= l
    BY <1>3, <1>6, <1>8 DEF Least
  <2>2. Advance(more, batch, "increase_loops")
    BY <1>1, <1>8
  <2>3. loops < limit
    BY <1>3, <1>6, <1>8, <2>1 DEF Least
  <2> HIDE DEF more, l
  <2>4. loops' = more /\ batch' = batch /\ heading' = "more"
        /\ turns' = IF heading \in {"none", "more"} THEN turns ELSE turns + 1
    BY <1>8, <2>1, <2>2, Moves
  <2>5. loops' \in Nat /\ loops' >= 3
    BY <1>3, <2>1, <2>4
  <2>6. Dispatch' = clock.launch + more * clock.body /\ Dispatch' \in Nat /\ Dispatch' >= Dispatch
    <3>1. loops * clock.body <= more * clock.body /\ more * clock.body \in Nat
          /\ loops * clock.body \in Nat
      BY <1>3, <2>1, ProductOrder, ProductNat
    <3>2. Dispatch' = clock.launch + more * clock.body
      BY <2>4 DEF Dispatch
    <3>3. Dispatch = clock.launch + loops * clock.body
      BY DEF Dispatch
    <3> QED BY <1>3, <3>1, <3>2, <3>3
  <2>7. Cheap'
    <3>1. loops * clock.body <= more * clock.body /\ more * clock.body \in Nat
          /\ loops * clock.body \in Nat
      BY <1>3, <2>1, ProductOrder, ProductNat
    <3> QED BY <1>2, <1>3, <2>4, <3>1 DEF Cheap
  <2>8. Near => Near'
    BY <1>3, <2>4, <2>6 DEF Near
  <2>9. loops >= 3 /\ Near => 2 * Dispatch' <= 3 * Target
    <3> SUFFICES ASSUME loops >= 3, Near PROVE 2 * Dispatch' <= 3 * Target
      OBVIOUS
    <3>1. seconds = clock.launch + loops * clock.body /\ 4 * seconds > 3 * Target
      BY <1>3 DEF Near, Dispatch
    <3>2. 2 * (clock.launch + l * clock.body) <= 3 * Target
      BY <1>1, <1>3, <1>6, <3>1, NoOvershoot
    <3>3. more * clock.body <= l * clock.body /\ l * clock.body \in Nat
          /\ more * clock.body \in Nat
      BY <1>3, <1>6, <2>1, ProductOrder, ProductNat
    <3> QED BY <1>3, <2>6, <3>2, <3>3
  <2>10. CASE heading = "none"
    <3>1. turns' = 0
      BY <2>4, <2>10 DEF Approach
    <3> QED BY <2>4, <2>5, <3>1 DEF Approach, Grown
  <2>11. CASE heading = "more"
    <3>1. turns' = turns
      BY <2>4, <2>11
    <3>2. \/ turns' = 0 /\ Grown'
          \/ turns' = 1 /\ Cheap' /\ Near'
          \/ turns' = 2 /\ Cheap' /\ Near' /\ loops' >= 3 /\ 2 * Dispatch' <= 3 * Target
      BY <2>5, <2>7, <2>8, <2>9, <2>11, <3>1 DEF Approach, Grown
    <3> QED BY <2>4, <3>2 DEF Approach
  <2>12. CASE heading = "less"
    <3>1. turns' = turns + 1 /\ Near
      BY <1>4, <2>4, <2>12 DEF Approach
    <3>2. turns = 0 \/ (turns = 1 /\ loops >= 3)
      BY <1>4, <2>3, <2>12, <1>3 DEF Approach, Grown
    <3>3. \/ turns' = 1 /\ Cheap' /\ Near'
          \/ turns' = 2 /\ Cheap' /\ Near' /\ loops' >= 3 /\ 2 * Dispatch' <= 3 * Target
      BY <2>5, <2>7, <2>8, <2>9, <3>1, <3>2
    <3> QED BY <2>4, <3>3 DEF Approach
  <2> QED BY <1>3, <2>10, <2>11, <2>12
<1> QED BY <1>7, <1>8

(* On a device whose time is launch + loops * body for each dispatch, a differential
   calibration changes its mind twice at most, for every target, limit and starting
   workload, with an outlier in every triplet of readings, unless no batch fits. *)
THEOREM TurnsTwiceAtMost == Spec => []TurnsTwice
<1>1. Init => Course
  BY DEF Init, Course, Approach
<1>2. IInv /\ Steady /\ Course /\ [Next]_vars => Course'
  <2> SUFFICES ASSUME IInv, Steady, Course, [Next]_vars PROVE Course'
    OBVIOUS
  <2> USE DEF Course, Approach, Exact, NoBatchFits, Cheap, Enough, Near, Grown, Dispatch
  <2>1. CASE Measure
    BY <2>1 DEF Measure, given, course
  <2>2. CASE Accept
    BY <2>2 DEF Accept, Stops, given, course
  <2>3. CASE Recalibrate
    BY <2>3 DEF Recalibrate
  <2>4. CASE UNCHANGED vars
    BY <2>4 DEF vars
  <2>5. CASE GrowForFixedCost \/ ReduceBatch \/ ReduceLoops \/ Increase
    BY <2>5, GrowCourse, ReduceBatchCourse, ReduceLoopsCourse, IncreaseCourse
  <2> QED BY <2>1, <2>2, <2>3, <2>4, <2>5 DEF Next, Decide
<1>3. IInv /\ Course => TurnsTwice
  <2> SUFFICES ASSUME IInv, Course, Exact, ~NoBatchFits PROVE turns <= 2
    BY DEF TurnsTwice, Exact
  <2>1. heading \in {"none", "more", "less"} /\ turns \in Nat
    BY DEF IInv, TypeOK
  <2> QED BY <2>1 DEF Course, Approach
<1> QED BY <1>1, <1>2, <1>3, Inductive, SteadyAlways, PTL DEF Spec
=============================================================================
