------------------------------- MODULE Provenance -------------------------------
(***************************************************************************)
(* Which build a result row names and which build measured it.             *)
(*                                                                         *)
(* `build` compiles the shaders one by one, records their digests in the   *)
(* shader manifest at the end, then links the two runners (build.py,       *)
(* shaders.py).  A session reads the manifest and the digests of the       *)
(* runners when it opens, copies the files to the device, describes the    *)
(* build in the results directory and archives it, and puts what it read   *)
(* at the beginning into every row (session.py); `sustain` digests its     *)
(* runner again (stages.py).  Readers admit the rows that name the build   *)
(* the results directory describes (admission.py).  Nothing keeps a build  *)
(* and a session apart.                                                    *)
(*                                                                         *)
(* A file is the version of the source it was last compiled from, which    *)
(* stands for its digest too.                                              *)
(***************************************************************************)
EXTENDS Naturals, FiniteSets

CONSTANTS
  Variants,     \* shader variants
  MaxBuilds,    \* bound: builds after the first, each of a new version
  MaxSessions,  \* bound: sessions of the results directory
  Faults        \* which of AllFaults may happen

\* "rebuild": a build while a session measures; "failed": a session after a build
\* that failed; "crash": a session that dies before it measures.
AllFaults == {"rebuild", "failed", "crash"}

Binaries == {"roofline", "roofline_sustained"}
Files == Binaries \cup Variants

ASSUME ConstantsAssumption ==
  /\ Variants \cap Binaries = {}
  /\ MaxBuilds \in Nat /\ MaxSessions \in Nat
  /\ Faults \subseteq AllFaults

VARIABLES
  local,     \* files of build/: a version for each of Files
  manifest,  \* build/shader-manifest.json: a version for each of Variants
  building,  \* what `build` is doing
  todo,      \* files a change of the source touched, not yet compiled
  builds,    \* number of builds after the first
  sessions,  \* number of sessions
  pc,        \* what the session does next
  known,     \* what it read when it opened: a version for each of Files
  device,    \* files on the device, None before the first deployment
  topush,    \* files that deploy still has to copy
  described, \* artifact-manifest.json and shader-shas.json
  archive,   \* directories artifacts/<version>, each with the version of the runner
             \* in it, None while it is empty
  sustainer, \* sustained_sha of a running `sustain`
  rows       \* result rows

buildVars == <<local, manifest, building, todo, builds>>
sessionVars == <<sessions, pc, known, device, topush, described, archive,
                 sustainer, rows>>
vars == <<buildVars, sessionVars>>

None == 0
Versions == 1..(MaxBuilds + 1)
Row == [variant : Variants, executable : Binaries,
        runner : Versions, spirv : Versions, reference : Versions \cup {None},
        ranRunner : Versions, ranSpirv : Versions]

TypeOK ==
  /\ local \in [Files -> Versions] /\ manifest \in [Variants -> Versions]
  /\ building \in {"idle", "shaders", "runners", "failed"}
  /\ todo \in SUBSET Files /\ topush \in SUBSET Files
  /\ builds \in 0..MaxBuilds /\ sessions \in 0..MaxSessions
  /\ pc \in {"closed", "digest", "push", "check", "describe", "shader_shas",
             "archive", "fill", "measure"}
  /\ known \in [Files -> Versions]
  /\ device \in [Files -> Versions \cup {None}]
  /\ described \in [Files -> Versions \cup {None}]
  /\ archive \in SUBSET (Versions \X (Versions \cup {None}))
  /\ sustainer \in Versions \cup {None}
  /\ rows \in SUBSET Row

Init ==
  /\ local = [f \in Files |-> 1] /\ manifest = [v \in Variants |-> 1]
  /\ building = "idle" /\ todo = {} /\ builds = 0
  /\ sessions = 0 /\ pc = "closed" /\ known = [f \in Files |-> 1]
  /\ device = [f \in Files |-> None] /\ topush = {}
  /\ described = [f \in Files |-> None]
  /\ archive = {}
  /\ sustainer = None /\ rows = {}

-----------------------------------------------------------------------------
(* build. *)

MayBuild ==
  \/ pc = "closed"
  \/ pc = "measure" /\ "rebuild" \in Faults

\* The build directory is used as it is.
MayUse ==
  \/ building = "idle"
  \/ building = "failed" /\ "failed" \in Faults

\* `build`, after an edit that touches some files.
StartBuild ==
  /\ MayBuild
  /\ building \in {"idle", "failed"} /\ builds < MaxBuilds
  /\ builds' = builds + 1 /\ building' = "shaders"
  /\ \E touched \in SUBSET Files : todo' = todo \cup touched
  /\ UNCHANGED <<local, manifest, sessionVars>>

\* `build --no-shaders`.
StartRunners ==
  /\ MayBuild /\ MayUse
  /\ builds < MaxBuilds
  /\ builds' = builds + 1 /\ building' = "runners"
  /\ \E touched \in SUBSET Files : todo' = todo \cup touched
  /\ UNCHANGED <<local, manifest, sessionVars>>

\* _build_one in its pool, or a target of cmake --build.
Compile(f) ==
  /\ MayBuild
  /\ f \in todo
  /\ building = IF f \in Variants THEN "shaders" ELSE "runners"
  /\ local' = [local EXCEPT ![f] = builds + 1]
  /\ todo' = todo \ {f}
  /\ UNCHANGED <<manifest, building, builds, sessionVars>>

\* The last step of build_all.
WriteManifest ==
  /\ MayBuild
  /\ building = "shaders" /\ todo \cap Variants = {}
  /\ manifest' = [v \in Variants |-> local[v]]
  /\ building' = "runners"
  /\ UNCHANGED <<local, todo, builds, sessionVars>>

EndBuild ==
  /\ MayBuild
  /\ building = "runners" /\ todo \cap Binaries = {}
  /\ building' = "idle"
  /\ UNCHANGED <<local, manifest, todo, builds, sessionVars>>

\* glslc, spirv-val or cmake fails, or the ledger of a shader it wrote is wrong.
BuildFails ==
  /\ MayBuild
  /\ building \in {"shaders", "runners"}
  /\ building' = "failed"
  /\ UNCHANGED <<local, manifest, todo, builds, sessionVars>>

-----------------------------------------------------------------------------
(* Session. *)

\* Session.__init__ reads the shader manifest ...
ReadManifest ==
  /\ MayUse
  /\ pc = "closed" /\ sessions < MaxSessions
  /\ sessions' = sessions + 1 /\ pc' = "digest"
  /\ known' = [f \in Files |-> IF f \in Variants THEN manifest[f] ELSE known[f]]
  /\ UNCHANGED <<buildVars, device, topush, described, archive, sustainer, rows>>

\* ... and digests the runners.
DigestRunners ==
  /\ pc = "digest"
  /\ known' = [f \in Files |-> IF f \in Binaries THEN local[f] ELSE known[f]]
  /\ pc' = "push" /\ topush' = Files
  /\ UNCHANGED <<buildVars, sessions, device, described, archive, sustainer, rows>>

\* Mutant of Push: deploy copies only the files that the device does not have.
PushMissing(f) ==
  /\ pc = "push" /\ f \in topush
  /\ f \in Binaries => topush \cap Variants = {}
  /\ device' = [device EXCEPT ![f] = IF device[f] = None THEN local[f] ELSE device[f]]
  /\ topush' = topush \ {f}
  /\ pc' = IF topush' = {} THEN "check" ELSE "push"
  /\ UNCHANGED <<buildVars, sessions, known, described, archive, sustainer, rows>>

\* deploy copies the shaders that are in build/shaders, then the runners.
Push(f) ==
  /\ pc = "push" /\ f \in topush
  /\ f \in Binaries => topush \cap Variants = {}
  /\ device' = [device EXCEPT ![f] = local[f]]
  /\ topush' = topush \ {f}
  /\ pc' = IF topush' = {} THEN "check" ELSE "push"
  /\ UNCHANGED <<buildVars, sessions, known, described, archive, sustainer, rows>>

\* The copies of the runners are digested on the device.
CheckRunners ==
  /\ pc = "check"
  /\ pc' = IF \A b \in Binaries : device[b] = local[b] THEN "describe" ELSE "closed"
  /\ UNCHANGED <<buildVars, sessions, known, device, topush, described, archive,
                 sustainer, rows>>

\* artifact-manifest.json.
DescribeRunners ==
  /\ pc = "describe"
  /\ described' = [f \in Files |-> IF f \in Binaries THEN known[f] ELSE described[f]]
  /\ pc' = "shader_shas"
  /\ UNCHANGED <<buildVars, sessions, known, device, topush, archive, sustainer, rows>>

\* shader-shas.json.
DescribeShaders ==
  /\ pc = "shader_shas"
  /\ described' = [f \in Files |-> IF f \in Variants THEN known[f] ELSE described[f]]
  /\ pc' = "archive"
  /\ UNCHANGED <<buildVars, sessions, known, device, topush, archive, sustainer, rows>>

\* Mutant of BeginArchive: an archive is looked for by the sustained runner.
BeginArchiveBySustained ==
  /\ pc = "archive"
  /\ IF \E a \in archive : a[1] = known["roofline_sustained"]
       THEN pc' = "measure" /\ UNCHANGED archive
       ELSE pc' = "fill" /\ archive' = archive \cup {<<known["roofline"], None>>}
  /\ UNCHANGED <<buildVars, sessions, known, device, topush, described, sustainer, rows>>

\* mkdir of artifacts/<runner>, unless it exists.
BeginArchive ==
  /\ pc = "archive"
  /\ IF \E a \in archive : a[1] = known["roofline"]
       THEN pc' = "measure" /\ UNCHANGED archive
       ELSE pc' = "fill" /\ archive' = archive \cup {<<known["roofline"], None>>}
  /\ UNCHANGED <<buildVars, sessions, known, device, topush, described, sustainer, rows>>

\* Copy of the runner, then of the sources.
FillArchive ==
  /\ pc = "fill"
  /\ archive' = (archive \ {<<known["roofline"], None>>})
                  \cup {<<known["roofline"], local["roofline"]>>}
  /\ pc' = "measure"
  /\ UNCHANGED <<buildVars, sessions, known, device, topush, described, sustainer, rows>>

\* build_reasons with the digests d: does row r name the build they describe?
Current(r, d) ==
  /\ r.spirv = d[r.variant]
  /\ IF r.executable = "roofline_sustained"
       THEN r.runner = d[r.executable] /\ r.reference = d["roofline"]
       ELSE r.runner = d["roofline"]

\* What a row measured now really ran.
Ran(v, executable) == [ranRunner |-> device[executable], ranSpirv |-> device[v]]
Named(r) == [k \in {"variant", "executable", "runner", "spirv", "reference"} |-> r[k]]
MakeRow(v, executable, runner, spirv, reference) ==
  [variant |-> v, executable |-> executable, runner |-> runner, spirv |-> spirv,
   reference |-> reference, ranRunner |-> Ran(v, executable).ranRunner,
   ranSpirv |-> Ran(v, executable).ranSpirv]

\* Session.run: a configuration that has a row is not measured again.
Record(row) ==
  rows' = IF \E r \in rows : Named(r) = Named(row) THEN rows ELSE rows \cup {row}

\* Mutant of Measure: base digests the runner when it is asked for a configuration.
MeasureDigestingNow(v) ==
  /\ pc = "measure"
  /\ Record(MakeRow(v, "roofline", local["roofline"], known[v], None))
  /\ UNCHANGED <<buildVars, sessions, pc, known, device, topush, described, archive,
                 sustainer>>

\* base(m), run: a short measurement.
Measure(v) ==
  /\ pc = "measure"
  /\ Record(MakeRow(v, "roofline", known["roofline"], known[v], None))
  /\ UNCHANGED <<buildVars, sessions, pc, known, device, topush, described, archive,
                 sustainer>>

\* sustain digests the sustained runner when the stage begins ...
BeginSustain ==
  /\ pc = "measure" /\ sustainer = None
  /\ sustainer' = local["roofline_sustained"]
  /\ UNCHANGED <<buildVars, sessions, pc, known, device, topush, described, archive, rows>>

\* ... and repeats, with that runner, a current short row.
MeasureSustained ==
  /\ pc = "measure" /\ sustainer # None
  /\ \E r \in rows :
       /\ r.executable = "roofline" /\ Current(r, known)
       /\ Record(MakeRow(r.variant, "roofline_sustained", sustainer, r.spirv, r.runner))
  /\ UNCHANGED <<buildVars, sessions, pc, known, device, topush, described, archive,
                 sustainer>>

\* The session ends.
Close ==
  /\ pc = "measure"
  /\ pc' = "closed" /\ sustainer' = None
  /\ UNCHANGED <<buildVars, sessions, known, device, topush, described, archive, rows>>

\* The session dies while it deploys.
Crash ==
  /\ "crash" \in Faults
  /\ pc \notin {"closed", "measure"}
  /\ pc' = "closed"
  /\ UNCHANGED <<buildVars, sessions, known, device, topush, described, archive,
                 sustainer, rows>>

Next ==
  \/ StartBuild \/ StartRunners \/ WriteManifest \/ EndBuild \/ BuildFails
  \/ \E f \in Files : Compile(f) \/ Push(f)
  \/ ReadManifest \/ DigestRunners \/ CheckRunners
  \/ DescribeRunners \/ DescribeShaders \/ BeginArchive \/ FillArchive
  \/ \E v \in Variants : Measure(v)
  \/ BeginSustain \/ MeasureSustained \/ Close \/ Crash

Spec == Init /\ [][Next]_vars

-----------------------------------------------------------------------------
(* Properties. *)

\* A row was measured with the build of its shader that it names, also when shaders
\* are compiled again while the session measures (deploy and base, session.py).
RowsNameTheirShader == \A r \in rows : r.spirv = r.ranSpirv

\* A short row was measured by the runner it names, whatever builds and sessions
\* failed before (the digests of Session.__init__ and deploy).
ShortRowsNameTheirRunner ==
  \A r \in rows : r.executable = "roofline" => r.runner = r.ranRunner

\* What the archive holds under the name of a row's runner is that runner, or nothing
\* if a session died (artifacts/, Session.deploy).
ArchiveIsOfItsRunner ==
  \A r \in rows : r.executable = "roofline" =>
    \E a \in archive : a[1] = r.runner /\ a[2] \in {r.runner, None}

\* The runner of every short row is in the archive ("Keep the exact binary and sources
\* that produced these results", Session.deploy): so it is as long as no session dies.
ArchiveKept ==
  \A r \in rows : r.executable = "roofline" => <<r.runner, r.runner>> \in archive

=============================================================================
