# Verification of igpu-roofline

igpu-roofline measures the roofline of mobile and integrated GPUs: a Python controller
(`igpu_roofline/`) plans configurations, deploys a native Vulkan runner (`runner/src/`) to an
Android device over ADB or runs it locally, and turns each run into a result row. A campaign
takes hours on devices that throttle, reboot and disconnect, so most of the code is about which
rows may be believed. These modules model that part: who owns a device, what a run leaves
behind, when rows are thrown away, how a runner validates itself, and which build a row names.

Contents: [the system](#1-the-system) · [modules](#2-modules-and-the-code-they-model) ·
[runs](#3-what-each-run-checks) · [fairness](#4-fairness) · [proofs](#5-proofs) ·
[disagreements](#6-where-code-and-documentation-disagree) · [not modelled](#7-not-modelled) ·
[plan](#8-plan).

## 1. The system

| component | state it keeps | operations | interacts with |
|---|---|---|---|
| Campaign driver (`stages.py: run_plan`) | `workflow-state.json` | stages in order; each selects configurations, runs them, is bracketed by checks | Session, Guard |
| Guard (`stages.py: Guard`) | reference readings, time of the last good probe, run counter | `before`, `after`, `check`, `quarantine`, `invalidate` | probes are configurations run through Session |
| Result files (`session.py: _run`) | per configuration: `.jsonl`, `.stderr`, `.telemetry.json`, `.json` | measure, or return the row that is there | runner output, `measure.py`, `admission.py` |
| Session and locks (`session.py`, `locking.py`, `shapes.py`) | lock of the GPU, lock of the results directory | open, close, deploy, run | `flock(2)`, other controllers on the host |
| Process control (`device.py`) | pid file, cancel file, the adb client | `popen`, `stop` | device shell, process table |
| Runner (`roofline.cpp`) | output buffer, timestamps, events on stdout | validate, calibrate, warm up, sample, validate | GPU, controller (exit status, raw file) |
| Calibration (`calibration.h`) | loops, batch, floor | two calibrations per run | timed dispatches |
| Build (`build.py`, `shaders.py`) | `build/`: shaders, their manifest, runners | build, `--no-shaders` | Session, which reads it |
| Provenance (`session.py: deploy`, `admission.py`) | device files, `artifact-manifest.json`, `shader-shas.json`, `artifacts/` | deploy, describe, archive, admit | every reader of rows |
| Confirmation (`stages.py: candidates, confirm, select_roofs`; `admission.py: confirmed_groups`) | none: derived from rows | choose, repeat, compare | rows |
| Sustained runs (`stages.py: sustain`) | `sustained-selection.json`, rows | preflight, cool down, long run | confirmed roofs, the report |
| Planning and replay (`planning.py`, the stages of `stages.py`, `shaders.py: catalogue`) | none: derived from the manifest, the device and a plan | enumerate, select, export, replay | shaders, runner limits |
| Accounting and reports (`measure.py`, `report.py`, `stages.py: roof_key`) | none: derived from rows | count work, name roofs, fold rows into peaks | rows, shaders |
| Audits and further analyses (`insights.py`, `workload.py`, `isa_offline.py`, `spirv_audit.py`) | none | transformations of data | rows, files |
| Jetson study (`tools/jetson-study/run-device.py`) | per job: `stdout.log`, `result.json` | run the jobs of a campaign within a budget, stop them, preserve attempts | the lock of the GPU, the process list, the CLI |

Behaviour that is hard to test, and the property each component owes:

* **Two shell scripts on a device that recycles process ids** (ADB process control). After a
  confirmed stop nothing of the invocation runs or can still start; nothing else is ever killed.
* **Controllers that conflict on a GPU, a directory, or both; signals and kills at any point**
  (Session). No two sessions share either; a runner works only under its controller's lock.
* **Thermal degradation discovered after the fact, kills between any two file operations,
  restarts** (campaign). Rows of a slow device are quarantined; a finished plan is complete and
  bracketed by accepted probes; a row is never overwritten; one misread raises no alarm.
* **Asynchronous failure of a run** (runner). An accepted row was validated before and after its
  samples on uncorrupted output, and a healthy run is accepted.
* **A feedback loop on a noisy clock** (calibration). It settles, does not oscillate, and a
  result it calls good is good.
* **Builds that move under a campaign** (provenance). A row names what measured it.
* **Comparisons under drift, over interrupted repeats** (confirmation). A roof is the best of
  complete groups, in whatever order files are listed and whatever drifted meanwhile.
* **Rows that several commands and builds accumulate** (sustained runs). What is called sustained
  was earned by one build in enough batches; no bad attempt is dropped.
* **A grid of configurations cut by the limits of a device** (planning). Every roof stays
  reachable; every launch is one the runner accepts; two texts that name roofs agree.
* **A driver that dies under a job it started** (Jetson study). One job at a time on the GPU, no
  attempt repeated, a budget that all invocations share.

`PROJECT.json` lists each hazard at its line with the properties that cover it.

## 2. Modules and the code they model

`PROJECT.json` maps each definition to lines. In outline:

| module | models | composition |
|---|---|---|
| `Invocation` | abstract specification: what `popen` and `stop` promise of one runner | - |
| `AdbStop` | `AdbDevice.popen`, `AdbDevice.stop`: both scripts step by step, the adb client, the caller | `INSTANCE Invocation` under a refinement mapping |
| `Ownership` | `DeviceLock`, `Session.__init__`/`close`, `_run`'s process handling, `shapes`, signals | takes `stop()` as the one confirmed step that `AdbStop` implements |
| `Campaign` | `run_plan`'s stage loop, `Session._run` as file effects, the whole `Guard` except pacing | the runner is one step that sees the device's state |
| `Runner` | `roofline.cpp` from the sanity check to exit, with `_run`'s judgement of its output | loops come from `Calibration`'s range |
| `Calibration` | `calibrateTiming` and its two calls | - |
| `Confirmation` | `candidates`, `confirm`, `confirmed_groups`, `select_roofs`, with the Guard's checks | rows and pauses are those of `Campaign`, with rates and quality verdicts |
| `Provenance` | `build`, the reads of `Session.__init__`, `deploy`, `base`, `sustain`'s digest, `build_reasons` | sessions are exclusive, as `Ownership` shows |
| `Sustain` | `sustain`, `run_sustained` and the end of `run_plan`, `_run`'s cached rows, the cohorts of `analyze` and `choose_roofs` | groups are those of `Confirmation`, builds those of `Provenance` |
| `Catalogue` | the variants of `shaders.py` and the counts of `spirv_audit.py` | - |
| `Planning` | the short stages of `stages.py` and their grids | extends `Catalogue` |
| `Roofs` | the runner's launch checks, `accounting`, `roof_key`, `metric`, `ert.comp` and `memory.comp` | extends `Planning` |
| `Selection` | `configurations`, `export_best`, `replay_configurations` | extends `Roofs` |
| `JetsonCampaign` | `tools/jetson-study/run-device.py` | - |

**AdbStop.** `launch` is the program counter of the launch script (sent, started, published,
checked, running, gone), `script[i]` that of the i-th stop script (each `test`, `read`, `kill`,
and wait is a step), `table` the process table: an id is free, owned by our invocation, or given
to another process with another start time. The connection fails in any state, on either side of
the kill.

**Ownership.** `pc[c]` is the controller's place; lock files are their owners; `alive` holds the
runners that really work. `Faults` switches on what the environment may inject: a signal between
`Popen` and the `try` block, a `stop()` that fails, `SIGKILL` of a controller.

**Campaign.** `Program` is the sequence of checks and configurations of a plan. A row passes
through running, ended, telemetered, torn and done, one step per file operation, with an
exception, an interrupt or a kill possible between any two. Times are those of a logical clock:
only their order matters to quarantine. What a probe reads is a percentage of the middle of the fast
state: `FastFloor..FastCeiling` at full speed (the scatter of 6 % that `stages.py:504-507` states),
at most `SlowCeiling` in the slow state (35 % lower), and anything between while the device sags, in any
order and at any time. The readings of a session are a sequence, their median is a rank in it, and
the Guard's comparison with 85 % of it is done on integers. So readings may sink step by step:
94, 80, 80, 68 are accepted one after the other. `noise` is history of the check under way.

**Runner.** `buffer` records which dispatch wrote the output last, with how many loops and
whether correctly. The order of full and half dispatches decides what the last validation sees.
Output is buffered and flushed as stdio does; a crash loses a suffix and may cut a line.
`Judge` is `_run` on what reached the file. Times do not appear.

**Calibration.** One round is measure (median of three, one of which may be an outlier) and decide.
A steady clock costs `launch + loops * body` per dispatch, the clock of
`tests/calibration_test.cpp`. Doubles are integers here and ratios are cross-multiplied. A cost
per *submission*, shared by the dispatches of a batch, is outside this clock model: with large
configured batches it can keep the loop going until its ten rounds are over, which the code
reports as `iteration_limit`.

**Provenance.** A file is the version of the source it was compiled from, which stands for its
SHA-256. `known` is what a session read when it opened, `device` what it copied, `described` what
it wrote for readers. A row carries what it names and, as a history variable, what ran. A build
advances between sessions and, with `"rebuild"`, while one measures; it never overlaps a
deployment (a build in those seconds would break more than is stated here, and `deploy`'s
digests detect part of it).

**Confirmation.** `pass` and `at` are the loop variables of `confirm`, `work` its list of
candidates: any order that a stable sort of some directory listing gives. A row is a
configuration, the planned number of repeats and the repeat it is, which together name its file.
The t-th measurement of the campaign reads `base - drift * t`, and any may fail the quality gates.
`recent` is the Guard's open interval: a rejected check removes it and ends the run, a new process
knows nothing of the one before. `Select` goes through the groups in any listing. Medians are
doubled to be integers; the spread limit of 5 % is a cross-multiplied comparison. `Peak` is the loop
of `analyze` that folds swept and confirmed rows into roofs, in any listing.

**Sustain.** The loops of `sustain` over batches and selected roofs are `batch` and `at`; a command is
a `run` that confirms and goes on, or `sustain` on what is confirmed. A row is a file name (phase,
batch, group, duration and the two identities in it) with an outcome, and as history the runner
that really ran; an existing file is returned, whatever it says (`Cached`). `MaySustain` and
`MustSustain` are the report's cohort rules: the report is derived, so it may be read in any state.
`digest` is what `sustain` reads of the local build, `deployed` what the device has.

**Catalogue, Planning, Roofs, Selection.** `Catalogue` has the variants of `shaders.py` as sets of
records. `Planning` has one operator per stage: the set of rows it asks for on a device at a
level. `Roofs` says what becomes of a configuration: the checks of `roofline.cpp`, the work
`measure.py` counts, the work the shaders' index arithmetic executes, the roof by `roof_key` and by
`metric`. `Selection` is `configurations` stage by stage with its selectors, `export_best` and
`replay_configurations`. The devices and the three totals (212, 262 and 1679 configurations) are
those of `tests/test_workflow.py` and of the studies: the assumption `PlansAreAsTested` of
`MCSelection`, which TLC evaluates before every run, ties the enumeration to that test.

**JetsonCampaign.** `pc` is the place of the invocation that holds the lock, or `free`: one that
does not get the lock changes nothing. `work[j]` is the process of a job, which outlives its driver:
`hidden` as long as it is a fork or still `systemd-run`, then `running` under a name that the `ps`
check recognizes. A result, also that of a skipped job, is torn before it is written. `child` says whether `cleanup_owned` knows it. Time is counted in polls. `left`
is history: in what state a job was when its driver ended without it.

Proofs are in `RunnerProcess_proofs` (`AdbStop` and `Runner`: the process on the device and the
program it runs; their names are disjoint), `Ownership_proofs`, `Campaign_proofs`, `Confirmation_proofs`,
`Launches_proofs` (`Calibration` and `Selection` with what it extends: which launches are made and
how long), `Provenance_proofs`, `Sustain_proofs` and `JetsonCampaign_proofs`; `Bounds` has the minimum
and maximum that `Planning` and `Calibration` use, and `MC*` modules give constants values, and `MCSelection` the devices with the totals that a test expects.

## 3. What each run checks

| run | shows | bounds, and why they suffice |
|---|---|---|
| `adb_stop` | `KillsOnlyOwned`, `StopScriptEnds`, `ImplementsInvocation` | 2 pids (one can be recycled while ours is alive or dead), 2 stops (`_run` calls it at most twice) |
| `ownership` | `KeptRunnersAreOwned`, `NoLeakedLock`, `ExclusiveSessions`, and `StopLeadsOn`: what is being stopped comes to an end; with every fault, one controller being `shapes` | 3 controllers: two share a GPU, two share a directory, two share nothing; 2 runs each |
| `campaign` | `SlowRowsExplained`, `DriftNeedsMajority`, `NoFalseAlarm`, `FinishedIsBracketed`, and `RunEnds`: every `run` command ends | two stages, the second with nothing to measure, so an end probe is reused as a start probe and a periodic check falls inside a stage; 2 starts (one resumption); 3 confirmations with at most 1 misread; rates 68 (slow), 80 (sagging), 94 and 106, which let four readings drift into the slow state |
| `confirmation` | `RepeatsAreComplete`, `ReportKeepsRoofs`, `FasterWins` | 2 candidates of one roof and 1 of another, tied or one gated; true rates equal, closer than a pass drifts, or further apart; drift up or down; 2 runs of the `quick` and `fast` plans; a check after 4 runs, so an interval spans passes; 2 rejected repeats |
| `runner` | `AcceptedIsVerified`, `HealthyIsAccepted`, `EveryRunIsJudged` | 2 samples (both orders of the pair), loops 1, 2, 5 (half of 1 is 1; odd and even), 2 corrupted dispatches |
| `calibration` | `TargetIsReal`, `TurnsTwice`, `Settles` | 24 steady clocks from launch-bound to compute-bound, one of which fits no batch (16 loops of 5) and one of which turns twice (2 loops of 39), and an erratic one; limits 16 and 64; starts from one loop to the limit, batches 1 and 64; clocks change between the passes |
| `provenance` | `RowsNameTheirShader`, `ShortRowsNameTheirRunner`, `ArchiveIsOfItsRunner`, with builds between and during sessions and sessions that die | 1 shader and 2 runners, so a build can be half done; 2 builds, 2 sessions |
| `sustain` | `BasisIsEarned`, `SteadyRunCounts`, `SustainEnds` | 2 commands on 2 roofs, one of them confirmed in either of 2 configurations; 1 or 2 batches where 2 are enough; 2 durations; a build and a fault (interrupt, rejection, unsteady row) at any point |
| `selection` | `LaunchesFit`, `EveryRoofIsReachable`, `KeysAgree`, `RatesAreConservative`, `WalksAreWarm`, `ReplayIsFaithful` | the catalogue as it is, 6 devices from the smallest limits to the largest (two of them one GPU under two drivers), the 3 levels that plans have, 5 selectors |
| `jetson` | `OneWorkload`, `JobsAreWatched`, `BudgetHolds`, `AttemptsKept`, `DriversEnd` | 4 invocations on 2 campaigns of 2 jobs, the second one scoped and requiring the first; a budget of 3 polls under a limit of 4, so a later invocation gets the rest; jobs time out after 1 |
| `campaign_torn`, `selection_ert` | a counterexample to a sentence of the documentation or a comment: section 6 | the smallest that show it |

A type invariant is checked by the runs of `Runner` and `Selection`. Those of the
other modules are proved for all values of the constants (section 5) and not repeated by a run, and
so are `StoppedForGood`, `RowsArePreserved`, `NeverBackIntoRejected`, `PreflightFirst`,
`FinishedIsComplete`, `AttemptsStay` and `DependentsFollow`.

`CHECK_DEADLOCK FALSE` is set where the system really stops (a finished invocation, campaign,
run, calibration, plan; exhausted bounds of builds and sessions). `Ownership` checks deadlock.

What the properties say, where the name does not tell:

* `StoppedForGood`: once `stop()` returned, the runner neither runs nor can start, although the
  launch script may not even have arrived at the device when the stop script ran.
* `SlowRowsExplained`: at every moment, a row measured by a slow device is either isolated or
  young enough for the Guard's next check to isolate it, unless its process is gone or most readings
  of its session had left the fast state (section 6).
* `DriftNeedsMajority`: the reference is a median of what was accepted, so readings can pull it down
  and a slow device can pass in the end. The property is what the median guarantees all the same: no
  reading of the slow state is accepted before half of the session's readings have left the fast
  state. It fails if the reference is the last reading.
* `NoFalseAlarm`: when a plan is paused for a degraded device, some probe of that check met a device
  below full speed: neither one misread nor the scatter of the fast state raises an alarm.
* `KeptRunnersAreOwned`: while a runner works, the lock of its GPU names its controller and no other
  runner works there, except for runners that one of three faults took from their controllers: a
  signal in the window after `Popen`, a `stop()` that fails, `SIGKILL`.
* `AcceptedIsVerified`: an accepted row has samples, an exit status of 0, no device fault, and
  was validated before and after its samples against the loop count that wrote the buffer.
* `FasterWins`: in an uninterrupted run a configuration that is faster by more than the device
  drifts in one pass never loses to the slower one, even if each lost a different repeat. It fails
  without the alternation. Alternation does not make drift hit all alike, as the docstring of
  `confirm` has it: with 3 or 5 repeats the median of a steady drift is the middle pass, where
  positions still differ.
* `TargetIsReal`: for a steady clock, a status of `target` means that the true time of the
  workload is what was asked for, despite outliers.
* `TurnsTwice`: on a steady clock a differential calibration goes from more work to less, or
  back, twice at most; the second turn is an overshoot of few loops that is corrected. `Settles`:
  it then never uses up the ten rounds. Both except a device on which no batch fits, where
  calibration oscillates (section 6).
* `ReportKeepsRoofs`: a run exports the best of the groups it confirmed, and the report shows the
  best confirmed rate of all runs for every roof that has one, and otherwise
  the best sweep, whatever order their directory listings have: a swept row that is faster than every
  confirmed one never takes its place.
* `BasisIsEarned`: a report that calls its roofs sustained rests for each of them on enough steady
  batches of one duration, measured by the runner that is deployed, although `sustain` reads the
  identity it writes from the local build.
* `SteadyRunCounts`: the converse. A normal end with enough batches and nothing unsteady makes
  the report sustained, whatever was measured before.
* `EveryRoofIsReachable`: on a device that meets the condition `Capable` every plan has, for every
  roof and for every matrix shape with each of its feeds, a launch the runner accepts.
* `KeysAgree`: `roof_key` (which chooses what is confirmed) and `metric` (which the report files
  results by) are written independently: they rate the same rows by the same work and put the
  same rows into one roof.
* `RatesAreConservative`: work that is counted was executed, on every launch of every plan. For `ert`
  this says that the divergence of section 6 makes rates too low and never too high.
* `WalksAreWarm`: half of the loops of a latency walk visit every node, so that the differential is
  that of a warm chain. For chains of more than 2^19 nodes the bound of 2^20 loads prevails, and
  half a dispatch does not walk the whole chain; beyond 2^20 nodes a dispatch does not either,
  unlike what the docstring of `latency` says.
* `OneWorkload`: jobs of whatever campaigns overlap only if one was left while it was `hidden`, which
  is the blind spot of a check by process name.
* `BudgetHolds`: of recorded time; an attempt that never got its result is in no sum.

Every property is paired in `PROJECT.json` with a plausible bug of the code (the operators
whose comment begins `Mutant of`) that makes it fail under the same configuration.

## 4. Fairness

* `AdbStop`: a process with a pending `SIGKILL` dies (`WF Die`), and a stop script that has
  started takes its steps. The arrival of scripts, the connection and the launch script have no
  fairness: stop must be safe if they never come.
* `Ownership`: a controller that can enter its `try` block, see its runner exit, stop it or
  release a lock eventually does (`WF` per controller: it is straight-line Python with time
  limits on what it waits for). Starting, waiting and signals have none.
* `Campaign`: `WF ProcessStep`, since every wait in a live process is bounded by a time limit.
  Starts, kills, slowdowns and reboots have none.
* `Runner`: `WF RunnerStep` and `WF Judge`. A hung dispatch is a disabled runner; the time limit
  of `wait_for_runner` then ends it.
* `Sustain`: `WF Step`: cooldowns are finite and a runner that measures has a time limit. Commands and
  builds have none.
* `JetsonCampaign`: `WF DriverStep`, since every wait of the driver has a limit (the poll of 0.1 s,
  the 5 s before `SIGKILL`), and `WF Appear`: an exec succeeds or fails. `Exit` has none: `DriversEnd`
  holds for jobs that never end by themselves.
* `Calibration`, `Confirmation`, `Provenance`, `Selection`: safety only.

## 5. Proofs

TLAPS checks these for every value of the constants that satisfies the module's
`ConstantsAssumption` (`RunnerAssumption` in `Runner`, `PlanningAssumption` in `Planning`), with the additional hypothesis the theorem states.

| module | theorems | hypothesis |
|---|---|---|
| `RunnerProcess_proofs` | `TypeCorrect`, `StopIsFinal`, `OnlyOwnedKilled`, `Implements` (steps map to steps of `Invocation` or stutter) | none |
| | `RunnerInvariant`, `RunnerTypeCorrect`, `AcceptedVerified`, `HealthyAccepted` | none: any number of samples, loops and wrong dispatches |
| `Ownership_proofs` | `TypeCorrect`, `LocksAreReturned`, `SessionsExclude`, `RunnersAreOwned` | none: every fault allowed |
| `Campaign_proofs` | `TypeCorrect`, `SlowRows`, `FinishedBracketed`, `RowsPreserved`, `DriftIsMajority` | none |
| | `DropsAreReal` | `2 * MaxGlitches < Confirm` |
| `Confirmation_proofs` | `TypeCorrect`, `RepeatsAreCompleteAlways`, `AttemptsStayAlways`, `ReportKept` | none |
| | `FasterWinsAlways` | every plan repeats an odd number of times (`PLANS`: 3 or 5) |
| `Launches_proofs` | `TypeCorrect`, `NeverBack`, `TargetReal`, `TurnsTwiceAtMost` | none: any clock, target, limit and start |
| | `SelectionTyped`, `RatesConservative`, `ReplayFaithful`, `ReadersAgree`, `LaunchesAccepted`, `RoofsReachable` | none: any devices, selectors and levels |
| | `WalksWarm` | page sizes are powers of two |
| `Provenance_proofs` | `TypeCorrect`, `ShortRunners`, `ArchivesAreOfTheirRunners` | none: every fault allowed |
| | `RowShaders` | no session after a failed build |
| | `ArchivesKept` | no session dies while it deploys |
| `Sustain_proofs` | `TypeCorrect`, `PreflightsFirst`, `FinishedComplete`, `AttemptsKept`, `BasisEarned`, `SteadyCounts` | none |
| `JetsonCampaign_proofs` | `TypeCorrect`, `OneGpuWorkload`, `JobsEndWithDrivers`, `Dependents`, `AttemptsPreserved`, `BudgetHeld` | none |

The invariants and why they are needed:

* **AdbStop.** `KillsOnlyOwned` depends on what a script read earlier, so `RecordInv` ties every
  victim to the pid file and the pid file to the one pid of the launch script; `TableInv` says
  that `"owned"` marks the live invocation and nothing else. `ScriptInv` carries the handshake:
  a script that passed its first step has left the cancel file, and one that finished has seen
  the launch script in a place from which it cannot exec the runner (`Harmless`). `ControlInv`
  moves that through the client's exit status to `confirmed`.
* **Runner.** The judgement sees a file, the validations see a buffer, and a crash may come between
  any two: `BufferInv` says at each place which dispatch wrote the buffer last, with how many loops,
  and whether wrong dispatches were counted; `StreamInv` says what a complete or cut output contains
  at each place, so that an accepted file must have come from a runner that reached its end;
  `PhaseInv` ties place, sample number and exit status. `JudgeInv` keeps the verdict.
* **Ownership.** `LockInv`: the place of a controller implies that the lock files name it, and a
  lock names only a controller in such a place. Exclusion follows as two owners of one file are
  equal. `RunnerInv`: a live runner that no fault took is the last one of a controller that
  waits for it.
* **Campaign.** The obligation is about time: `TimeInv` orders row times, run times, the last
  good probe and the clock; `PlaceInv` says where the process is in the plan. `SlowInv` is the
  core: an unexplained slow row means the device is *still* slow and the row is younger than
  the last good probe, so no accepted check can pass over it: with a majority of fast readings, every
  reading of the slow state is below the threshold and none of the fast state is
  (`ThresholdSeparates`). That rests on what a median is: the n-th smallest reading exists and is
  one of the readings (`RankedFacts`), and a majority above a floor has its middle above that
  floor (`MajorityRules`), both by counting positions. `DriftIsMajority` follows by looking at
  the sequence of readings as it grows. `BracketInv` counts what is done before the current place.
  `ProbesInv` bounds the low readings of a fast device by the misreads, so that they are never
  the median of a check.
* **Confirmation.** `IInv`: while a run goes on, all positions before the present one (earlier
  passes, and earlier places of this pass in its direction) have their rows. A pass in reverse
  order covers the same candidates, which is where the next pass starts from. What a loop over
  a listing returns is followed position by position: a fold has a trace (`TraceExists`), along
  which the best so far is the best of what was seen (`WinnerIsBest`, `PeakIsRight`). `Straight`
  ties each row of an uninterrupted run to the time of its turn. Later repeats then read higher,
  or all lower, so of `2 * c + 1` repeats, or all but one, those in the middle are `c` and its
  neighbours (`Middle`), and as passes alternate, the sum of their times is within one pass of
  the same value for every candidate (`MiddleTime`). With an even number of repeats the middle
  depends on which repeat was lost, and the statement would need a wider margin.
* **Calibration.** What still runs has more loops than were ever rejected for overhead and a
  floor above them (`Running`); integer lemmas bound the products and the rounded quotients.
  `Steady` follows one round with at most one outlier among its three readings: the median is
  between two true readings, so what is accepted was measured (`OutlierDropped`), and the launch
  share that is subtracted from it is the clock's (`LaunchShare`). `TurnsTwice` is about the whole
  course of a calibration, so `Course` says at each place where it stands: `Approach` counts the
  turns and says for each count what is known of the workload. Less work is asked for only where
  launches cost a tenth at most, and the floor that is set then keeps it so (`CheapOrCostly`,
  `FloorIsCheap`), so that growing against the fixed cost cannot start again. What is reduced is still
  enough (`ScaledDown`), unless a batch of two becomes one dispatch of three quarters of the
  target or more (`Near`). With the most loops that is the exception; otherwise loops grow, from two
  they may overshoot once, and from three on they do not (`NoOvershoot`), so that there is no
  third turn.
* **Selection.** `SelectionInv`: what is collected are rows of `PlanRows`, the stages of the plan
  taken together, and a replay is one of an exported row. A lemma for each stage says which
  configurations it builds (`CacheRows`, `MemoryRows`, ...), and one that they are sound
  (`SoundRow`): a known variant with a positive launch, at least one workgroup for each replica of
  its data and the fields of the stage its tag names. All other results are about one row.
  `SoundIsConservative` compares, for each family, what `accounting` counts with what the index
  arithmetic of the shader executes (rounded quotients, replicas, subgroups); `ReplayOfRow` follows
  the parameters that a replay takes from the file and those it takes from the build, of which
  only the slots of shared memory could differ; and two rows name one roof in `roof_key` if and only
  if they do in `metric` because each name is a function of the other (`Renamed`, `Unrenamed`). A walk
  (`WalksAreWarm`) has one of about a hundred sizes, which the proof takes from a table of powers of
  two, as the prover does not compute them. `LaunchesFit` has two halves: what the runner accepts of
  a family, as bounds on a configuration (`MemoryAccepted`, ..., `MatrixAccepted`), and for each stage
  that its rows keep to them (`CacheAccepted`, ..., `PlanRowsAccepted`): that rounding a working set down
  to elements, cutting a grid by its output (`MatrixGrid`) or rounding a number of tiles up
  (`TilesFit`) never exceeds the buffer that the division was by. `EveryRoofIsReachable` needs the
  converse: that nothing was left out. `Collected` follows the selection of everything: the rows of
  all stages before `at` are planned (`WholePlan`). Then one row is named for each roof (`CacheReached`,
  `MemoryReached`, ..., `FeedReached`), shown to be in its stage, to be accepted and to define that
  roof. Three of them are numeric: of two sizes one leaves 256 MiB after it was
  rounded for one, two or three arrays, and its buffers have 256 MiB at most (`LargeSet`); four chains
  in 4096 workgroups of one subgroup are within the output of every shape (`GridPoint`); and
  256 MiB of pairs of tiles, rounded up, are no more than a buffer of 256 MiB holds of the
  larger operand, as that is a power of two (`FarTiles`).
* **Provenance.** The build cannot move between the reads of a session and the end of its copies,
  so `RunnerInv` follows local = known and local = device through those steps and keeps
  device = known afterwards; `ManifestInv` says when a manifest describes its shaders.
* **Sustain.** `BasisIsEarned` compares identities in file names, written from the local build,
  with a history of what ran: the invariant ties both to the deployment, so that a row that
  names the deployed runner was measured by it, unless the manifest says otherwise.
  `FinishedIsComplete` needs that all positions before `batch` and `at` are done. `SteadyRunCounts`
  adds `FinishedCohort`: the finished batches of one run are one cohort with every group in each
  batch, and the least number of batches over its groups (`LeastOf`) is what the report compares.
* **JetsonCampaign.** `WorkInv` counts what may work: the present job, jobs that were left hidden,
  and at most one that was left running, which has ended by the time a driver is past the process
  list. That is where `Open`'s check is used: without it two left jobs could run. `PlaceInv` says
  that everything before the present place has its result and that an attempt in progress has
  none, from which `Dependents` and `AttemptsPreserved` follow. `BudgetHolds` counts the polls of all
  results; `Budgeted` bounds them at each place by what was left when the job was launched.

Only model-checked:

* liveness (`StopScriptEnds`, `StopLeadsOn`, `RunEnds`, `EveryRunIsJudged`, `SustainEnds`,
  `DriversEnd`) and the fairness part of `ImplementsInvocation`, which are beyond the prover;
* `Settles`: that ten rounds are enough is a count of rounds over nonlinear arithmetic, and no
  consequence of `TurnsTwice`: a round multiplies loops, or divides the batch, by 8 at most. TLC shows it
  for limits up to 64 from any of the starts; the products of the real limit, 16384, exceed the
  integers of TLC. There it depends on the start: two loops in a batch of 256 may take five steps
  to grow against the cost of launches, four to reduce the batch and then one to grow again, which
  is the one too many. No stage starts so: batches above 1 come with the loops that an
  earlier calibration found (`stages.py:590-593`).

## 6. Where code and documentation disagree

Two are runs that end in a counterexample; `PROJECT.json` quotes the lines.

1. `campaign_torn`: rows are written in place; a kill during the write leaves a file that fails
   every later run, which moving the raw file aside does not cure.
2. `selection_ert`: `ert` launches 4096 workgroups of 256 invocations for 2^23 elements, also for the
   shaders with 16 elements per invocation. One trip covers 2^24 elements, and the second half
   repeats the last one: the header of `ert.comp` ("each element is loaded once") is wrong there, and
   the rates of those variants are reported too low.

More behaviours are in the models without a run of their own:

* a signal after `popen` and before the `try` block (`session.py:290`) raises past the `finally` that
  stops the runner: the locks are released while it works. `Ownership` has it as the fault `"window"`,
  and `lost` keeps such runners; `docs/HOW-TO-RUN.md:230-232` makes no exception;
* a new process counts "since the last good sentinel" (`docs/METHODOLOGY.md:282`) from its own start, so
  a pause after a restart keeps what the process before it measured: the last case of
  `SlowRowsExplained`;
* a device that loses speed little by little is accepted for as long as each check reads 85 % of the
  median before it, and the reference sinks with it; rows that are measured in between stay where they
  are. `docs/METHODOLOGY.md:278-285` describes a device with two states, and `Accept` is
  the code with any number of them: `DriftNeedsMajority` says how far it can go;
* `quarantine` parses every telemetry file. One that a killed run left empty (`session.py:301`) makes it
  raise in the middle of its moves, and the plan ends as `failed` instead of paused (`Pause`);
* a quarantine that is killed between two renames leaves a configuration without its telemetry but
  perhaps with its row, which no later quarantine finds: `SlowRowsExplained` excepts the one that was
  being moved;
* a failed build leaves new shaders under old digests; `deploy` copies them and checks only the
  binaries. `Provenance` has it as the fault `"failed"`, without which `RowShaders` is proved;
* with the fault `"stop"` of `Ownership`, a `stop()` that itself fails (lost connection, its time
  limit, a second signal) releases the locks like that window does;
* `sustain` digests the local runner when it starts (`MeasureSustained`): after a build in the
  meantime its rows name a runner that was never on the device. Such a row is excluded at first,
  but the next session describes the new build, and if only the sustained runner changed the row
  is then current. This is why `ShortRowsNameTheirRunner` speaks of short rows; `Sustain` takes one
  version for both runners, as a change of their common source does, and `BasisIsEarned` shows that
  such rows then count for nothing;
* an archive is complete if its directory exists: a session that dies while filling it leaves it
  incomplete for good. This is why `ArchiveIsOfItsRunner` allows an empty archive and the theorem
  `ArchivesKept` assumes that no session dies;
* in the Jetson driver a timeout found at the same poll as a shortage of memory replaces it
  (`Cause`), and the driver then goes on without looking at the reserve, unlike what the comment
  at `run-device.py:195` says; and a job that is stopped and returns 0 all the same is a success
  to its dependents (`Write`), although the study's README calls a timeout a failed measurement;
* calibration can oscillate on a steady clock: with the most loops (16384; for fp16 128 in
  shared memory and 1024 / K for matrices, `roofline.cpp:628-630`) a dispatch that takes between three
  quarters of the target and the target is too short, and a batch of two too long, so batch 1 and
  2 alternate until `iteration_limit`, and a batch of 1 that remains is below the target and is
  flagged as short (`admission.py:23`). `docs/METHODOLOGY.md:171-173` says "rather than oscillating
  around the nominal duration target", and the lines before it admit limits and nonconvergence;
  `tests/calibration_test.cpp` reaches `iteration_limit` with an erratic clock only. This is
  `NoBatchFits`, the exception of `TurnsTwice` and `Settles`;
* a torn `result.json` of one Jetson campaign, that of a skipped job included (`run-device.py:88`),
  makes every later invocation fail (`Refused`).

## 7. Not modelled

Shader compilation, the counting of instructions in SPIR-V and ISA texts, tables and plots of reports,
`insights`, telemetry parsing, the workload estimate, the Vulkan resource code and the tools of
archived results are transformations of text and data or straight-line calls: nothing in them
has states to explore. Medians, spreads and differentials appear only as the verdicts other parts
act on, and values that shaders compute only as right or wrong. `Guard.before` (waiting for a
temperature) and focused selections are left out of `Campaign`; `runner_history`, the `inspect` binary
and edits of the source between build and archive are left out of `Provenance`. The files of
`pipeline-inspection`, which are kept by the name of a shader and so survive a rebuild
(`stages.py:955`), are not modelled either. `Planning` leaves out the number of samples, warm-ups and
the workload stage, which needs a model's operators. `JetsonCampaign` leaves out workloads that no
driver started: the check by process name is all that keeps those away. `RunnerAccepts` leaves out
two checks of the runner that no planned launch on a supported device comes near: the number of
workgroups, which stays below the 65535 that Vulkan guarantees, and valid timestamps.

On devices below the limits of the `Capable` condition of `Selection` (a workgroup of 256 that holds
a subgroup, buffers of 256 MiB, 16 KiB of shared memory, images of 8192 by 8192 and 512 cubed) some
launches are refused by the runner, and with storage buffers of 128 MiB no DRAM roof is reachable;
`EveryRoofIsReachable` excepts them. It also asks that a buffer holds twice the shared memory, which the
proof needs and every device has: shared memory is tens of KiB, buffers hundreds of MiB.
`LaunchesFit` asks for `Roomy`, buffers of 512 MiB, because `alu` does not bound its output by
`max_storage_buffer_range`: only the largest arithmetic grids need that.

## 8. Plan

Order of what comes next, with the property that makes each worth its place:

1. Proofs: a bound on the rounds of a calibration for the limits of the code, for `Settles`.
2. `Guard.before` in `Campaign`: pacing that waits for a temperature and must not wait for good.
3. Inspection files across rebuilds, with what the report says of spills.
4. `quality` and the differential as pure operators against reference definitions; Sattolo's
   permutation as one cycle.
5. The placement of a workload's operators on roofs (`workload.py`).
