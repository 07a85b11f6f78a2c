--------------------------- MODULE Provenance_proofs ---------------------------
(***************************************************************************)
(* Proofs about Provenance: for any shaders, builds, sessions and bounds,  *)
(* a row names the shader and, if it is short, the runner that measured    *)
(* it, and its runner is archived.                                         *)
(*                                                                         *)
(* The files of build/ do not change between the opening of a session and  *)
(* the end of its deployment (MayBuild): the invariant follows the copies  *)
(* through that interval and keeps, while the session measures, that the   *)
(* device holds what the session read when it opened.                      *)
(***************************************************************************)
EXTENDS Provenance, TLAPS

Deploying == pc \in {"push", "check", "describe", "shader_shas", "archive", "fill"}

\* What is not to be copied any more is on the device; the device of a measuring
\* session has the runners that the session digested.
RunnerInv ==
  /\ Deploying =>
       /\ \A b \in Binaries : known[b] = local[b]
       /\ \A f \in Files \ topush : device[f] = local[f]
  /\ pc \in {"check", "describe", "shader_shas", "archive", "fill"} => topush = {}
  /\ pc = "measure" =>
       /\ \A b \in Binaries : device[b] = known[b]
       /\ \A f \in Files : device[f] \in Versions
  /\ ShortRowsNameTheirRunner

\* Once its shaders are compiled, a build that did not fail has described them.
ManifestInv ==
  building \in {"idle", "runners"} => \A v \in Variants : manifest[v] = local[v]

ShaderInv ==
  "failed" \notin Faults =>
    /\ ManifestInv
    /\ pc = "digest" \/ Deploying => \A v \in Variants : known[v] = local[v]
    /\ pc = "measure" => \A v \in Variants : device[v] = known[v]
    /\ RowsNameTheirShader

\* Only a session that fills it leaves an archive empty.
ArchiveInv ==
  "crash" \notin Faults =>
    /\ \A a \in archive : a[2] = a[1] \/ (pc = "fill" /\ a = <<known["roofline"], None>>)
    /\ pc = "measure" => <<known["roofline"], known["roofline"]>> \in archive
    /\ ArchiveKept

Inv == TypeOK /\ RunnerInv /\ ShaderInv /\ ArchiveInv

-----------------------------------------------------------------------------
(* The invariant holds initially and is kept by every action. *)

LEMMA InitInv == Init => Inv
  BY ConstantsAssumption DEF Init, Inv, TypeOK, RunnerInv, ShaderInv, ManifestInv,
     ArchiveInv, ArchiveKept, RowsNameTheirShader, ShortRowsNameTheirRunner, Versions,
     None, Deploying, Files, Binaries

\* A build works between sessions and while one measures: what the session read and
\* copied is not disturbed.
LEMMA BuildInv ==
  ASSUME Inv,
         StartBuild \/ StartRunners \/ WriteManifest \/ EndBuild \/ BuildFails
           \/ \E f \in Files : Compile(f)
  PROVE  Inv'
<1> USE DEF MayBuild, sessionVars
<1>1. pc \in {"closed", "measure"} /\ UNCHANGED sessionVars
  BY DEF StartBuild, StartRunners, WriteManifest, EndBuild, BuildFails, Compile
<1>2. TypeOK'
  <2> USE <1>1, ConstantsAssumption DEF Inv, TypeOK, Row, Versions
  <2>1. CASE StartBuild \/ StartRunners
    BY <2>1 DEF StartBuild, StartRunners
  <2>2. CASE WriteManifest \/ EndBuild \/ BuildFails
    BY <2>2 DEF WriteManifest, EndBuild, BuildFails, Files
  <2>3. CASE \E f \in Files : Compile(f)
    BY <2>3 DEF Compile
  <2> QED BY <2>1, <2>2, <2>3
<1>3. RunnerInv'
  BY <1>1 DEF Inv, RunnerInv, Deploying, ShortRowsNameTheirRunner
<1>4. ShaderInv'
  <2> SUFFICES ASSUME "failed" \notin Faults PROVE ManifestInv'
    BY <1>1 DEF Inv, ShaderInv, Deploying, RowsNameTheirShader
  <2> USE <1>1 DEF Inv, TypeOK, ShaderInv, ManifestInv
  <2>1. CASE StartBuild \/ StartRunners
    BY <2>1 DEF StartBuild, StartRunners, MayUse
  <2>2. CASE WriteManifest \/ EndBuild \/ BuildFails
    BY <2>2 DEF WriteManifest, EndBuild, BuildFails
  <2>3. CASE \E f \in Files : Compile(f)
    BY <2>3, ConstantsAssumption DEF Compile, Files
  <2> QED BY <2>1, <2>2, <2>3
<1>5. ArchiveInv'
  BY <1>1 DEF Inv, ArchiveInv, ArchiveKept
<1> QED BY <1>2, <1>3, <1>4, <1>5 DEF Inv

\* Opening a session.
LEMMA OpenInv ==
  ASSUME Inv, ReadManifest \/ DigestRunners
  PROVE  Inv'
<1> USE DEF buildVars
<1>1. TypeOK'
  BY ConstantsAssumption DEF Inv, TypeOK, ReadManifest, DigestRunners, Files
<1>2. RunnerInv'
  BY DEF Inv, RunnerInv, Deploying, ShortRowsNameTheirRunner, ReadManifest,
     DigestRunners, TypeOK, Files
<1>3. ShaderInv'
  BY ConstantsAssumption DEF Inv, TypeOK, ShaderInv, ManifestInv, Deploying,
     RowsNameTheirShader, ReadManifest, DigestRunners, MayUse, Files
<1>4. ArchiveInv'
  BY DEF Inv, ArchiveInv, ArchiveKept, ReadManifest, DigestRunners
<1> QED BY <1>1, <1>2, <1>3, <1>4 DEF Inv

\* A copy of one file.
LEMMA PushInv ==
  ASSUME Inv, NEW f \in Files, Push(f)
  PROVE  Inv'
<1> USE DEF buildVars
<1>1. TypeOK'
  BY DEF Inv, TypeOK, Push
<1>2. RunnerInv'
  BY DEF Inv, TypeOK, RunnerInv, Deploying, ShortRowsNameTheirRunner, Push
<1>3. ShaderInv'
  BY DEF Inv, ShaderInv, ManifestInv, Deploying, RowsNameTheirShader, Push
<1>4. ArchiveInv'
  BY DEF Inv, ArchiveInv, ArchiveKept, Push
<1> QED BY <1>1, <1>2, <1>3, <1>4 DEF Inv

\* The rest of the deployment changes neither what was read nor what was copied.
LEMMA DeployInv ==
  ASSUME Inv, CheckRunners \/ DescribeRunners \/ DescribeShaders
  PROVE  Inv'
<1> USE DEF buildVars, CheckRunners, DescribeRunners, DescribeShaders
<1>1. TypeOK'
  BY DEF Inv, TypeOK, Files
<1>2. RunnerInv'
  BY DEF Inv, RunnerInv, Deploying, ShortRowsNameTheirRunner
<1>3. ShaderInv'
  BY DEF Inv, ShaderInv, ManifestInv, Deploying, RowsNameTheirShader
<1>4. ArchiveInv'
  BY DEF Inv, ArchiveInv, ArchiveKept
<1> QED BY <1>1, <1>2, <1>3, <1>4 DEF Inv

\* When the archive is there the device holds what the session read.
LEMMA ArchivingInv ==
  ASSUME Inv, BeginArchive \/ FillArchive
  PROVE  Inv'
<1> USE DEF buildVars, BeginArchive, FillArchive
<1>1. known["roofline"] \in Versions /\ local["roofline"] = known["roofline"]
  BY DEF Inv, TypeOK, RunnerInv, Deploying, Files, Binaries
<1>2. TypeOK'
  BY <1>1 DEF Inv, TypeOK, None
<1>3. RunnerInv'
  BY DEF Inv, TypeOK, RunnerInv, Deploying, ShortRowsNameTheirRunner, Files
<1>4. ShaderInv'
  BY DEF Inv, RunnerInv, ShaderInv, ManifestInv, Deploying, RowsNameTheirShader, Files
<1>5. ArchiveInv'
  <2> SUFFICES ASSUME "crash" \notin Faults PROVE ArchiveInv'
    BY DEF ArchiveInv
  <2> DEFINE k == known["roofline"]
  <2>1. k # None
    BY <1>1, ConstantsAssumption DEF Versions, None
  <2>2. CASE BeginArchive
    <3>1. \A a \in archive : a[2] = a[1] /\ a = <<a[1], a[2]>>
      BY <2>2 DEF Inv, TypeOK, ArchiveInv
    <3>2. CASE \E a \in archive : a[1] = k
      BY <2>2, <3>1, <3>2 DEF Inv, ArchiveInv, ArchiveKept
    <3>3. CASE ~\E a \in archive : a[1] = k
      BY <2>2, <3>1, <3>3 DEF Inv, ArchiveInv, ArchiveKept
    <3> QED BY <3>2, <3>3
  <2>3. CASE FillArchive
    BY <1>1, <2>1, <2>3 DEF Inv, ArchiveInv, ArchiveKept
  <2> QED BY <2>2, <2>3
<1> QED BY <1>2, <1>3, <1>4, <1>5 DEF Inv

\* What Record adds to the rows, if anything.
LEMMA Recorded ==
  ASSUME NEW row, Record(row)
  PROVE  \A r \in rows' : r \in rows \/ r = row
  BY DEF Record

\* A measurement on the device of this session.
LEMMA MeasureInv ==
  ASSUME Inv, (\E v \in Variants : Measure(v)) \/ MeasureSustained
  PROVE  Inv'
<1> USE DEF buildVars
<1>1. pc = "measure" /\ UNCHANGED <<buildVars, sessions, pc, known, device, topush,
                                    described, archive, sustainer>>
  BY DEF Measure, MeasureSustained
<1>2. PICK v \in Variants, x \in Binaries, n \in Versions, p \in Versions,
           q \in Versions \cup {None} :
        /\ Record(MakeRow(v, x, n, p, q))
        /\ p = known[v]
        /\ x = "roofline" => n = known["roofline"]
  <2>1. ASSUME NEW v \in Variants, Measure(v)
        PROVE  /\ Record(MakeRow(v, "roofline", known["roofline"], known[v], None))
               /\ known[v] \in Versions /\ known["roofline"] \in Versions
    BY <2>1 DEF Measure, Inv, TypeOK, Files, Binaries
  <2>2. ASSUME MeasureSustained
        PROVE  \E r \in rows :
                 /\ Record(MakeRow(r.variant, "roofline_sustained", sustainer, r.spirv,
                                   r.runner))
                 /\ r.spirv = known[r.variant]
                 /\ r \in Row /\ sustainer \in Versions
    BY <2>2 DEF MeasureSustained, Current, Inv, TypeOK
  <2> QED BY <2>1, <2>2 DEF Binaries, Row
<1> DEFINE new == MakeRow(v, x, n, p, q)
<1>3. /\ new.executable = x /\ new.runner = n /\ new.spirv = p
      /\ new.variant = v /\ new.ranRunner = device[x] /\ new.ranSpirv = device[v]
  BY DEF MakeRow, Ran
<1>4. new \in Row
  <2>1. device[x] \in Versions /\ device[v] \in Versions
    BY <1>1 DEF Inv, RunnerInv, Files
  <2> QED BY <2>1 DEF MakeRow, Ran, Row
<1>5. \A r \in rows' : r \in rows \/ r = new
  BY <1>2, Recorded
<1> HIDE DEF new
<1>6. TypeOK'
  BY <1>1, <1>4, <1>5 DEF Inv, TypeOK
<1>7. RunnerInv'
  <2>1. x = "roofline" => n = device[x]
    BY <1>1, <1>2 DEF Inv, RunnerInv, Binaries
  <2>2. ShortRowsNameTheirRunner'
    BY <1>3, <1>5, <2>1 DEF Inv, RunnerInv, ShortRowsNameTheirRunner
  <2> QED BY <1>1, <2>2 DEF Inv, RunnerInv, Deploying
<1>8. ShaderInv'
  <2> SUFFICES ASSUME "failed" \notin Faults PROVE RowsNameTheirShader'
    BY <1>1 DEF Inv, ShaderInv, ManifestInv, Deploying
  <2> QED BY <1>1, <1>2, <1>3, <1>5 DEF Inv, ShaderInv, RowsNameTheirShader
<1>9. ArchiveInv'
  BY <1>1, <1>2, <1>3, <1>5 DEF Inv, ArchiveInv, ArchiveKept
<1> QED BY <1>6, <1>7, <1>8, <1>9 DEF Inv

\* A session ends or dies.
LEMMA EndInv ==
  ASSUME Inv, BeginSustain \/ Close \/ Crash
  PROVE  Inv'
<1> USE DEF buildVars, BeginSustain, Close, Crash
<1>1. TypeOK'
  <2>1. local["roofline_sustained"] \in Versions
    BY DEF Inv, TypeOK, Files, Binaries
  <2> QED BY <2>1 DEF Inv, TypeOK
<1>2. RunnerInv'
  BY DEF Inv, RunnerInv, Deploying, ShortRowsNameTheirRunner
<1>3. ShaderInv'
  BY DEF Inv, ShaderInv, ManifestInv, Deploying, RowsNameTheirShader
<1>4. ArchiveInv'
  BY DEF Inv, ArchiveInv, ArchiveKept
<1> QED BY <1>1, <1>2, <1>3, <1>4 DEF Inv

LEMMA StepInv == Inv /\ [Next]_vars => Inv'
<1> SUFFICES ASSUME Inv, [Next]_vars PROVE Inv'
  OBVIOUS
<1>1. CASE UNCHANGED vars
  BY <1>1 DEF vars, buildVars, sessionVars, Inv, TypeOK, RunnerInv, ShaderInv,
     ManifestInv, ArchiveInv, ArchiveKept, RowsNameTheirShader,
     ShortRowsNameTheirRunner, Deploying
<1>2. CASE Next
  BY <1>2, BuildInv, OpenInv, PushInv, DeployInv, ArchivingInv, MeasureInv, EndInv
     DEF Next
<1> QED BY <1>1, <1>2

LEMMA Inductive == Spec => []Inv
  BY InitInv, StepInv, PTL DEF Spec

-----------------------------------------------------------------------------
(* Results. *)

\* The state keeps its types, with every fault.
THEOREM TypeCorrect == Spec => []TypeOK
<1>1. Inv => TypeOK
  BY DEF Inv
<1> QED BY <1>1, Inductive, PTL

\* A short row was measured by the runner it names, with every fault.
THEOREM ShortRunners == Spec => []ShortRowsNameTheirRunner
<1>1. Inv => ShortRowsNameTheirRunner
  BY DEF Inv, RunnerInv
<1> QED BY <1>1, Inductive, PTL

\* Unless a session uses what a failed build left, every row was measured with the
\* shader it names.
THEOREM RowShaders ==
  ASSUME "failed" \notin Faults
  PROVE  Spec => []RowsNameTheirShader
<1>1. Inv => RowsNameTheirShader
  BY DEF Inv, ShaderInv
<1> QED BY <1>1, Inductive, PTL

\* Unless a session dies while it deploys, the runner of every row is archived.
THEOREM ArchivesKept ==
  ASSUME "crash" \notin Faults
  PROVE  Spec => []ArchiveKept
<1>1. Inv => ArchiveKept
  BY DEF Inv, ArchiveInv
<1> QED BY <1>1, Inductive, PTL

\* With every fault: what an archive holds is the runner it is named after, or nothing, and
\* there is one for the runner of the session that measures.
HoldInv ==
  /\ \A a \in archive : a[2] \in {a[1], None}
  /\ pc \in {"fill", "measure"} => \E a \in archive : a[1] = known["roofline"]
  /\ ArchiveIsOfItsRunner

LEMMA HoldKept == ASSUME Inv, HoldInv, [Next]_vars PROVE HoldInv'
<1> USE DEF HoldInv, ArchiveIsOfItsRunner
<1>1. CASE BeginArchive
  <2>1. rows' = rows /\ known' = known
    BY <1>1 DEF BeginArchive
  <2>2. \A a \in archive : a \in archive'
    BY <1>1 DEF BeginArchive
  <2>3. \E a \in archive' : a[1] = known["roofline"]
    <3>1. <<known["roofline"], None>>[1] = known["roofline"]
      OBVIOUS
    <3> QED BY <1>1, <3>1 DEF BeginArchive
  <2>4. \A a \in archive' : a[2] \in {a[1], None}
    BY <1>1 DEF BeginArchive
  <2> QED BY <2>1, <2>2, <2>3, <2>4
<1>2. CASE FillArchive
  <2>1. local["roofline"] = known["roofline"]
    BY <1>2 DEF FillArchive, Inv, RunnerInv, Deploying, Binaries
  <2>2. <<known["roofline"], known["roofline"]>> \in archive'
    BY <1>2, <2>1 DEF FillArchive
  <2>3. \A a \in archive' : a[2] \in {a[1], None}
    BY <1>2, <2>1 DEF FillArchive
  <2>4. \A a \in archive : \E b \in archive' : b[1] = a[1]
    BY <1>2, <2>2 DEF FillArchive
  <2>5. \A r \in rows : r.executable = "roofline" =>
          \E a \in archive' : a[1] = r.runner /\ a[2] \in {r.runner, None}
    BY <2>3, <2>4
  <2>6. rows' = rows /\ known' = known
    BY <1>2 DEF FillArchive
  <2> QED BY <2>2, <2>3, <2>5, <2>6
<1>3. CASE (\E v \in Variants : Measure(v)) \/ MeasureSustained
  <2>1. pc = "measure" /\ pc' = pc /\ UNCHANGED <<known, archive>>
    BY <1>3 DEF Measure, MeasureSustained
  <2>2. \E row : Record(row) /\ (row.executable = "roofline" => row.runner = known["roofline"])
    <3>1. ASSUME NEW v \in Variants, Measure(v)
          PROVE  Record(MakeRow(v, "roofline", known["roofline"], known[v], None))
      BY <3>1 DEF Measure
    <3>2. \A v, p, q : MakeRow(v, "roofline", known["roofline"], p, q).runner = known["roofline"]
      BY DEF MakeRow
    <3>3. ASSUME MeasureSustained
          PROVE  \E r \in rows : Record(MakeRow(r.variant, "roofline_sustained", sustainer,
                                               r.spirv, r.runner))
      BY <3>3 DEF MeasureSustained
    <3>4. \A v, p, q : MakeRow(v, "roofline_sustained", sustainer, p, q).executable # "roofline"
      BY DEF MakeRow
    <3> QED BY <1>3, <3>1, <3>2, <3>3, <3>4
  <2>3. \A r \in rows' : r.executable = "roofline" => r \in rows \/ r.runner = known["roofline"]
    BY <2>2, Recorded
  <2>4. \A r \in rows' : r.executable = "roofline" =>
          \E a \in archive : a[1] = r.runner /\ a[2] \in {r.runner, None}
    BY <2>1, <2>3
  <2> QED BY <2>1, <2>4
<1>4. CASE ~(BeginArchive \/ FillArchive \/ MeasureSustained \/ \E v \in Variants : Measure(v))
  <2>1. UNCHANGED <<archive, rows>>
    BY <1>4 DEF Next, StartBuild, StartRunners, WriteManifest, EndBuild, BuildFails, Compile, Push,
       ReadManifest, DigestRunners, CheckRunners, DescribeRunners, DescribeShaders, BeginSustain,
       Close, Crash, sessionVars, vars
  <2>2. pc' \in {"fill", "measure"} => pc' = pc /\ known' = known
    BY <1>4 DEF Next, StartBuild, StartRunners, WriteManifest, EndBuild, BuildFails, Compile, Push,
       ReadManifest, DigestRunners, CheckRunners, DescribeRunners, DescribeShaders, BeginSustain,
       Close, Crash, sessionVars, vars
  <2> QED BY <2>1, <2>2
<1> QED BY <1>1, <1>2, <1>3, <1>4

\* The archive that bears the name of a row's runner is there and holds that runner or, if a
\* session died, nothing.
THEOREM ArchivesAreOfTheirRunners == Spec => []ArchiveIsOfItsRunner
<1>1. Init => HoldInv
  BY DEF Init, HoldInv, ArchiveIsOfItsRunner
<1>2. HoldInv => ArchiveIsOfItsRunner
  BY DEF HoldInv
<1> QED BY <1>1, <1>2, HoldKept, Inductive, PTL DEF Spec
=============================================================================
