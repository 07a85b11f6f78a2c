---------------------------------- MODULE Roofs ----------------------------------
(***************************************************************************)
(* What becomes of a planned configuration: whether the native runner      *)
(* accepts its launch (roofline.cpp), what work the accounting counts      *)
(* (accounting in measure.py) and the shaders do, and which roof its       *)
(* result defines, for the choice of roofs (roof_key in stages.py) and for *)
(* the report (analyze and metric in report.py).                           *)
(*                                                                         *)
(* Bytes are compared by division where their product would not fit into   *)
(* the integers of the model checker.                                      *)
(***************************************************************************)
EXTENDS Planning

Threads(c) == c.wg * c.groups

\* Mutant of Subgroups: every invocation is one.
Lanes(c) == c.groups * c.wg
Subgroups(c) == c.groups * (c.wg \div c.subgroup)

-----------------------------------------------------------------------------
(* The launch. *)

Log2(n) == CHOOSE e \in 0..30 : 2 ^ e = n

\* Extents are powers of two, those of a 3D image at most 256 wide.
ImageFits(dev, c) ==
  LET ln == Log2(c.n)
      w == Least(ln, IF c.m.tex_dim = 3 THEN Least(8, dev.image3d) ELSE dev.image2d)
      h == IF c.m.tex_dim = 3 THEN Least(ln - w, dev.image3d) ELSE ln - w
  IN /\ c.m.tex_dim = 2 => h <= dev.image2d
     /\ c.m.tex_dim = 3 => ln - w - h <= dev.image3d

\* The bytes of the storage buffers but the output of a matrix launch; an image mode
\* reads no storage buffer.
Buffers(c) ==
  LET m == c.m
      chains == IF m.family \in {"alu", "dot"} THEN m.chains ELSE 1
  IN CASE m.family = "matrix" ->
            LET tiles == IF m.feed = "none" THEN 1 ELSE Most(1, c.n)
            IN {tiles * m.shape.m * m.shape.k * Operand(m.shape),
                tiles * m.shape.k * m.shape.n * Operand(m.shape)}
       [] m.family = "latency" -> {c.n * 4}
       [] m.family = "ert"     -> {c.n * 16}
       [] m.family = "texture" ->
            {Threads(c) * 16} \cup (IF m.tex_dim = 0 THEN {c.n * Texel(m.format)} ELSE {})
       [] OTHER -> {c.n * m.width * 4, Threads(c) * m.width * chains * 4}
                   \cup (IF m.family = "shared" THEN {c.shared_count * m.width * 4} ELSE {})

RunnerAccepts(dev, c) ==
  LET m == c.m IN
    /\ c.wg <= dev.max_workgroup
    /\ \A bytes \in Buffers(c) : bytes <= dev.max_range
    /\ m.family = "shared" =>
         /\ m.kind = "bw" => c.shared_count >= c.wg * m.accumulators /\ (m.op = 2 => c.stride = 1)
         /\ c.shared_count * m.width * Scalar(m.dtype) <= dev.max_shared
         /\ m.op # 0 => c.wg * c.stride <= c.shared_count
    /\ m.family = "memory" /\ m.op = DotOp => c.wg \in {2 ^ e : e \in 0..8}
    /\ m.family = "matrix" =>
         /\ c.wg > 0 /\ c.wg % dev.subgroup = 0 /\ c.subgroup = dev.subgroup
         /\ Subgroups(c) <= Least(MatrixOutput, dev.max_range) \div OutBytes(m)
    /\ m.family = "texture" => \E e \in 0..30 : c.n = 2 ^ e
    /\ m.family = "texture" /\ m.tex_dim # 0 => ImageFits(dev, c)

-----------------------------------------------------------------------------
(* The work of one trip of the loops: how many elements, invocations or subgroups there
   are, and what is done for each: memory accesses or arithmetic instructions, and loads of
   matrices. *)

Counted(c) ==
  LET m == c.m IN
    CASE m.family = "memory"  -> <<c.n * c.replicas, ArraysPerOp[m.op + 1]>>
      [] m.family = "alu"     -> <<Threads(c), 16 * m.chains>>
      [] m.family = "dot"     -> <<Threads(c), m.chains * m.dots_per_step>>
      [] m.family = "shared"  ->
           <<Threads(c), (IF m.kind = "bw" THEN m.accumulators ELSE 1)
                         * (IF m.op \in {0, 2} THEN 1 ELSE 2)>>
      [] m.family = "matrix"  -> <<Subgroups(c), m.chains>>
      [] m.family = "texture" -> <<c.n, 1>>
      [] m.family = "latency" -> <<1, 16>>
      [] m.family = "ert"     -> <<c.n, m.flops_per_element>>

\* The invocation id of ert.comp visits id, id + elems * nt, ..., and elems elements, nt
\* apart, each time; those beyond the last are the last one again.
ErtVisits(c) ==
  LET block == c.m.elems * Threads(c)
      starts == (c.n \div block) * Threads(c) + Least(c.n % block, Threads(c))
  IN c.m.elems * starts

\* A grid-stride loop of memory.comp visits each element once for every replica of the grid.
Visits(dev, c) ==
  LET m == c.m
      grid == Threads(c) \div c.replicas
  IN CASE m.family = "memory"  -> c.n * (Threads(c) \div grid)
       [] m.family = "matrix"  -> c.groups * (c.wg \div dev.subgroup)
       [] m.family = "texture" -> c.n
       [] m.family = "latency" -> 1
       [] m.family = "ert"     -> ErtVisits(c)
       [] OTHER                -> Threads(c)

Executed(dev, c) == <<Visits(dev, c), Audited(c.m)>>

-----------------------------------------------------------------------------
(* The roof of a result. *)

WorkingSet(c) ==
  CASE c.m.family = "memory"  -> c.n * c.m.width * 4 * ArraysPerOp[c.m.op + 1]
    [] c.m.family = "texture" -> c.n * Texel(c.m.format)
    [] c.m.family = "matrix"  -> c.n * TileBytes(c.m.shape)

Where(ws) == IF ws >= 256 * MiB THEN "dram" ELSE IF ws <= 4 * MiB THEN "cache" ELSE "mid"

CacheSized(c) == 32768 <= WorkingSet(c) /\ WorkingSet(c) <= 4 * MiB

None == <<>>

\* Comparison variants never define a roof.
IsControl(c) ==
  \/ c.m.family = "memory" /\ c.m.volatile_global
  \/ c.memory_mode # "device_local"
  \/ c.m.family = "shared" /\ c.m.kind # "bw"

FeedKey(c) ==
  <<"matrix", c.m.shape.dtype, IF c.m.feed = "shared" THEN "shared" ELSE Where(WorkingSet(c))>>

TextureKey(c) ==
  IF Where(WorkingSet(c)) = "mid" THEN None
  ELSE <<"texture", c.m.format, c.m.tex_dim, Where(WorkingSet(c))>>

RoofKey(tag, c) ==
  LET m == c.m IN
    CASE m.family \in {"latency", "ert"} \/ IsControl(c) -> None
      [] m.family = "matrix" /\ m.feed # "none" -> FeedKey(c)
      [] m.family = "matrix" /\ m.feed = "none" -> <<"matrix", m.shape.dtype>>
      [] m.family = "texture" -> TextureKey(c)
      [] m.family = "memory" /\ ~IsControl(c) ->
           IF tag = "sweep-cache" \/ c.role = "cache"
             THEN IF CacheSized(c) THEN <<"cache_read_effective">> ELSE None
             ELSE IF WorkingSet(c) >= 256 * MiB THEN <<"memory", m.dtype, m.op>> ELSE None
      [] m.family \in {"alu", "dot"} -> <<m.family, m.dtype>>
      [] m.family = "shared" /\ ~IsControl(c) -> <<"shared", m.dtype, m.op>>

\* A matrix unit fed from DRAM is rated by the bytes streamed.
Streams(c) == c.m.family = "matrix" /\ c.m.feed # "none" /\ FeedKey(c)[3] = "dram"

\* Mutant of RatedBy: matrix units are rated by operations, however they are fed.
RatedByOps(c) ==
  CASE c.m.family \in {"alu", "dot", "matrix"} -> "ops"
    [] c.m.family = "shared" -> "shared"
    [] OTHER -> "global"

\* The work that rate() divides by the median time.
RatedBy(c) ==
  CASE c.m.family \in {"alu", "dot", "matrix"} -> IF Streams(c) THEN "global" ELSE "ops"
    [] c.m.family = "shared" -> "shared"
    [] OTHER -> "global"

\* metric, of a row that analyze keeps: the name of the roof, the work, and whether the
\* suffix of the name is one of CONTROL_SUFFIXES.
Metric(c, cached) ==
  LET m == c.m
      Is(key, work, control) == [key |-> key, work |-> work, control |-> control]
  IN CASE m.family \in {"latency", "ert"} -> Is(None, "none", FALSE)
       [] m.family \in {"alu", "dot"} -> Is(<<m.family, m.dtype>>, "ops", FALSE)
       [] m.family = "matrix" ->
            IF m.feed = "none" THEN Is(<<"matrix", m.shape.dtype>>, "ops", FALSE)
            ELSE Is(FeedKey(c), IF Streams(c) THEN "global" ELSE "ops", FALSE)
       [] m.family = "texture" -> Is(TextureKey(c), "global", FALSE)
       [] m.family = "shared" ->
            Is(<<"shared", m.dtype, CASE m.kind = "bw" /\ m.op = 0 -> "read"
                                      [] m.kind = "bw" /\ m.op # 0 -> "write"
                                      [] m.kind # "bw" /\ m.op = 0 -> "read_1acc"
                                      [] OTHER -> "read_write_sync">>,
               "shared", m.kind # "bw")
       [] m.family = "memory" ->
            IF cached THEN Is(<<"cache_read_effective">>, "global", FALSE)
            ELSE Is(<<"global", m.op, m.volatile_global, c.memory_mode>>, "global",
                    m.volatile_global \/ c.memory_mode # "device_local")

\* analyze: a memory result counts only where its working set says which level it measured.
Reported(tag, c) ==
  LET cached == c.role = "cache" \/ tag = "sweep-cache"
      kept == c.m.family = "memory" /\ c.role # "cache" =>
                IF tag = "sweep-cache" THEN CacheSized(c) ELSE WorkingSet(c) >= 256 * MiB
  IN IF kept THEN Metric(c, cached) ELSE [key |-> None, work |-> "none", control |-> FALSE]
=============================================================================
