------------------------------- MODULE MCSelection -------------------------------
(* Devices like those of the studies and the tests, and selectors of the command line. *)
EXTENDS Selection, Functions

Device(gpu, subgroup, workgroup, range, shared, page, images, shapes) ==
  [gpu |-> gpu, subgroup |-> subgroup, max_workgroup |-> workgroup, max_range |-> range,
   max_shared |-> shared, page_size |-> page, image2d |-> images[1], image3d |-> images[2],
   shapes |-> shapes]

Supports(m, n, k, dtype, scope) ==
  LET t == Component(dtype)
  IN [m |-> m, n |-> n, k |-> k, a |-> t.ab, b |-> t.ab, c |-> t.acc, result |-> t.acc,
      scope |-> scope]

Tested == Device("tested", 32, 1024, 512 * MiB, 32768, 4096, <<14, 11>>, {})

Phone == Device("phone", 16, 1024, 256 * MiB, 32768, 16384, <<14, 11>>,
                {Supports(16, 32, 32, t, 3) : t \in {"fp16", "fp16_fp32"}}
                \cup {Supports(4, 16, 16, "int8", 3)})

\* The same GPU under a driver that offers less.
PhoneUpdated == [Phone EXCEPT !.max_workgroup = 128, !.max_shared = 16384]

Wide == Device("wide", 64, 1024, 512 * MiB, 32768, 4096, <<14, 11>>,
               {Supports(64, n, 16, "fp16", 3) : n \in {16, 32, 64}}
               \cup {Supports(64, n, 32, "int8", 3) : n \in {16, 32, 64}})

\* Shapes of another scope, and one of the subgroup that no variant is compiled for.
Desktop == Device("desktop", 32, 1024, 2147483647, 49152, 4096, <<15, 14>>,
                  {Supports(16, 16, 16, t, 3) : t \in {"fp16", "fp16_fp32"}}
                  \cup {Supports(16, 8, 16, "fp16", 3), Supports(16, 16, 32, "int8", 2)})

Minimal == Device("minimal", 16, 128, 128 * MiB, 16384, 4096, <<12, 8>>, {})

MCDevices == {Tested, Phone, PhoneUpdated, Wide, Desktop, Minimal}
MCLevels == {"quick", "fast", "full"}

Everything == [families |-> {}, variants |-> {}, stages |-> {}]

MCSelectors ==
  {Everything,
   [Everything EXCEPT !.families = {"matrix"}, !.stages = {"matrix_feed"}],
   [Everything EXCEPT !.families = {"alu"}, !.stages = {"memory"}],
   [Everything EXCEPT !.variants = {m \in Memory : m.op = Triad /\ m.width = 4}],
   [Everything EXCEPT !.families = {"typo"}]}

\* tests/test_workflow.py, `expected = {"quick": 212, "fast": 262, "standard": 1679}`, on a
\* device like Tested.  No two rows of a stage are the same, or one of them would be missing.
RowsPlanned(lv) ==
  FoldFunction(LAMBDA stage, n : Cardinality(Rows(stage, Tested, lv)) + n, 0, ShortStages)

ASSUME PlansAreAsTested ==
  <<RowsPlanned("quick"), RowsPlanned("fast"), RowsPlanned("full")>> = <<212, 262, 1679>>
=============================================================================
