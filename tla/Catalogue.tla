------------------------------- MODULE Catalogue -------------------------------
(***************************************************************************)
(* The shader variants (catalogue in shaders.py) and what the build checks *)
(* of their instructions (expected in spirv_audit.py).                     *)
(*                                                                         *)
(* A variant is a record of what its metadata says; its name, which is     *)
(* made of the same values, is left out.  A missing entry of the metadata  *)
(* is the value that its readers use by default.                           *)
(***************************************************************************)
EXTENDS Integers, Sequences

Floats == {"fp32", "fp16"}
Widths == {1, 2, 4}

\* read, write, copy, scale, add, triad, dot
Read == 0
Write == 1
Copy == 2
Scale == 3
Add == 4
Triad == 5
DotOp == 6

Memory ==
  [family : {"memory"}, op : Read..DotOp, width : Widths, dtype : {"fp32"},
   volatile_global : {FALSE}]
  \cup [family : {"memory"}, op : Read..Triad, width : {4}, dtype : {"fp32"},
        volatile_global : {TRUE}]

Alu == [family : {"alu"}, dtype : Floats, width : Widths, chains : {1, 2, 4, 8, 16}]

SharedOf(kind, ops, accumulators) ==
  [family : {"shared"}, kind : {kind}, dtype : Floats, width : Widths, op : ops,
   accumulators : accumulators]

Shared ==
  SharedOf("bw", {0, 2}, {8}) \cup SharedOf("bw", {0}, {4, 16, 32})
  \cup SharedOf("crosslane", {0, 1}, {1})

Dot == [family : {"dot"}, dtype : {"int8"}, width : {1}, chains : {1, 2, 4, 8},
        dots_per_step : {8}]

Latency == {[family |-> "latency", dtype |-> "uint32", width |-> 1]}

\* tex_dim 0 is the storage buffer.
Texture == [family : {"texture"}, format : {"rgba16f", "rgba32f"}, width : {4},
            tex_dim : {0, 2, 3}]

Flops == {1, 2, 4, 8, 16, 32, 64, 128, 256, 512, 1024}

ErtOf(flops, elems, full) ==
  [family : {"ert"}, width : {4}, dtype : {"fp32"}, flops_per_element : flops,
   elems : elems, full_unroll : {full}]

Ert == ErtOf(Flops, {4, 8, 16}, FALSE) \cup ErtOf({f \in Flops : f > 32}, {4}, TRUE)

Shape(m, n, k, dtype) == [m |-> m, n |-> n, k |-> k, dtype |-> dtype]

Shapes ==
  {Shape(64, n, 16, "fp16") : n \in {16, 32, 64}}
  \cup {Shape(64, n, 32, "int8") : n \in {16, 32, 64}}
  \cup {Shape(8, 16, 16, t) : t \in {"fp16", "fp16_fp32"}}
  \cup {Shape(4, 8, 8, t) : t \in {"fp16", "fp16_fp32"}}
  \cup {Shape(16, 32, 32, t) : t \in {"fp16", "fp16_fp32"}}
  \cup {Shape(16, 16, 16, t) : t \in {"fp16", "fp16_fp32", "int8"}}
  \cup {Shape(8, 16, 32, "int8"), Shape(4, 16, 16, "int8"), Shape(16, 16, 32, "int8")}

MatrixFeedTiles == 4

Matrix == [family : {"matrix"}, shape : Shapes, chains : {1, 2, 4, 8}, width : {1},
           feed : {"none", "shared", "global"}]

Manifest == Memory \cup Alu \cup Shared \cup Dot \cup Latency \cup Texture \cup Ert \cup Matrix

Families == {m.family : m \in Manifest}

-----------------------------------------------------------------------------
(* Sizes. *)

Scalar(dtype) == IF dtype = "fp16" THEN 2 ELSE 4      \* bytes
Operand(shape) == IF shape.dtype = "int8" THEN 1 ELSE 2
Accumulator(shape) == IF shape.dtype = "fp16" THEN 2 ELSE 4
Texel(format) == IF format = "rgba16f" THEN 8 ELSE 16

\* A pair of tiles A and B.
TileBytes(s) == (s.m * s.k + s.k * s.n) * Operand(s)

\* What a subgroup stores.
OutBytes(m) == m.chains * m.shape.m * m.shape.n * Accumulator(m.shape)

ArraysPerOp == <<1, 1, 2, 2, 3, 3, 2>>

-----------------------------------------------------------------------------
(* The instructions of one trip of a variant's loop, which the build checks. *)

\* Without the stores that follow the loop of read and dot.
Accesses(op) == <<1, 0, 1, 1, 2, 2, 2>>[op + 1] + (IF op \in {Read, DotOp} THEN 0 ELSE 1)

Steps(m) == IF m.flops_per_element <= 32 \/ m.full_unroll THEN m.flops_per_element ELSE 32

\* expected, of one element, invocation or subgroup: memory accesses or arithmetic
\* instructions.  The shared controls, which are not audited, are read in their shader.
Audited(m) ==
  CASE m.family = "memory"  -> Accesses(m.op)
    [] m.family = "alu"     -> 16 * m.chains
    [] m.family = "dot"     -> m.chains * m.dots_per_step
    [] m.family = "matrix"  -> m.chains
    [] m.family = "shared"  -> IF m.kind = "bw" THEN m.accumulators ELSE 1 + m.op
    [] m.family = "texture" -> 1
    [] m.family = "latency" -> 16
    [] m.family = "ert"     -> Steps(m) * (m.flops_per_element \div Steps(m))
=============================================================================
