------------------------------ MODULE Campaign ------------------------------
(***************************************************************************)
(* One results directory through any number of `run` commands: the stage   *)
(* loop of run_plan, the files of Session._run and the Guard that brackets *)
(* measurements with sentinel probes (stages.py, session.py).              *)
(*                                                                         *)
(* A configuration leaves a raw file, a telemetry file that carries the    *)
(* time its run began, and a result row; a row that exists is never        *)
(* measured again.  The Guard probes the device at stage edges and every   *)
(* few configurations.  When a drop is confirmed, or no probe is valid,    *)
(* results younger than the last good probe move to superseded/ and the    *)
(* process stops.  The device may lose some of its speed and regain it, it *)
(* may fall into a slow state that lasts until it is rebooted, a probe may *)
(* misread, and the process may be interrupted, fail or be killed between  *)
(* any two steps.                                                          *)
(*                                                                         *)
(* A probe reads FastFloor..FastCeiling at full speed, at most SlowCeiling *)
(* in the slow state, and anything between while the device sags.          *)
(***************************************************************************)
EXTENDS Integers, Sequences, FiniteSets

CONSTANTS
  Keys,        \* configurations (one file stem each)
  None,
  Program,     \* what run_plan does: checks at stage edges and runs between
  Every,       \* SENTINEL["every"]: a check after this many measured runs
  Confirm,     \* SENTINEL["confirm_readings"]
  Rates,       \* what a probe can read
  FastFloor, FastCeiling,  \* the scatter of the fast state, stages.py:504-507
  SlowCeiling,             \* the slow state reads no more than this
  MaxStarts,   \* bound: `run` commands
  MaxGlitches  \* readings within one check that are lower than the device is

Check(edge) == [op |-> "check", edge |-> edge, key |-> None]
Run(k) == [op |-> "run", edge |-> None, key |-> k]

ASSUME ConstantsAssumption ==
  /\ None \notin Keys
  /\ Program \in Seq({Check("start"), Check("end")} \cup {Run(k) : k \in Keys})
  /\ Program # <<>> /\ Program[Len(Program)] = Check("end")
  /\ Every \in Nat \ {0}
  /\ Confirm \in Nat /\ Confirm % 2 = 1
  /\ {FastFloor, FastCeiling, SlowCeiling} \subseteq Nat
  /\ Rates \subseteq 0..FastCeiling
  /\ 100 * SlowCeiling < 85 * FastFloor
  /\ 85 * FastCeiling <= 100 * FastFloor
  /\ MaxStarts \in Nat /\ MaxGlitches \in Nat

VARIABLES
  device,      \* "fast", or "slow" until rebooted
  disk,        \* the files of each configuration in its stage folder
  workflow,    \* phase in workflow-state.json
  clock,       \* wall clock, one tick per recorded time
  starts,
  noise,       \* misreadings in the check under way
  pc, at,      \* the process: what it is doing, at which step of Program
  runUtc,      \* start time of the configuration being measured
  seen,        \* state of the device while the configuration ran
  guard,       \* the Guard object
  probes,      \* the check under way
  moving,      \* the configuration whose files quarantine() is renaming
  verdict,     \* why the plan is being paused
  untrusted    \* history: rows whose interval no healthy sentinel closed

process == <<pc, at, runUtc, seen, guard, probes, moving, verdict>>
history == <<untrusted>>
vars == <<device, disk, workflow, clock, starts, noise, process, history>>

States == {"fast", "slow"}

\* What one configuration has in its stage folder: tele is the first recorded time, cut
\* a telemetry file that was truncated and never written.
Files == [raw : BOOLEAN, tele : Nat, cut : BOOLEAN, row : {"none", "torn", "done"},
          state : States \cup {"none"}]
NoFiles == [raw |-> FALSE, tele |-> 0, cut |-> FALSE, row |-> "none", state |-> "none"]

\* The n-th smallest reading.
Ranked(list, n) ==
  CHOOSE r \in Rates :
    /\ Cardinality({i \in DOMAIN list : list[i] < r}) < n
    /\ n <= Cardinality({i \in DOMAIN list : list[i] <= r})

Middle(list) == Ranked(list, (Len(list) + 1) \div 2)

\* statistics.median, times two: the sum of the two middle readings.
Median2(list) == Middle(list) + Ranked(list, Len(list) \div 2 + 1)

\* Mutant of Degraded: the reference is the reading before.
DegradedSinceLast(v, readings) ==
  readings # <<>> /\ 100 * v < 85 * readings[Len(readings)]

\* value < SENTINEL["degraded_below"] * ref, once there is a reference.
Degraded(v, readings) ==
  readings # <<>> /\ 200 * v < 85 * Median2(readings)

\* More than half of the readings are those of a fast device.
FastMajority(readings) ==
  2 * Cardinality({i \in DOMAIN readings : readings[i] < FastFloor}) < Len(readings)

\* Mutant of Younger: results of the first moment after the boundary are kept.
MuchYounger(since) == {k \in Keys : disk[k].tele > since + 1}

\* Results that quarantine(last_good_utc) has to move.
Younger(since) == {k \in Keys : disk[k].tele > since}

Guards == [lastGood : Nat, readings : Seq(Rates), count : Nat, reusable : BOOLEAN]
NewGuard(now) ==
  [lastGood |-> now, readings |-> <<>>, count |-> 0, reusable |-> FALSE]

\* A check: when it began, its kind, its readings, attempts at the next reading.
Checks == [started : Nat, edge : {None, "start", "end", "every"},
           list : Seq(Rates), attempt : Nat]
NoProbes == [started |-> 0, edge |-> None, list |-> <<>>, attempt |-> 0]

\* How many probes of the check misread; history: one met a device below full speed.
Noises == [misread : 0..MaxGlitches, sagged : BOOLEAN]
Quiet == [misread |-> 0, sagged |-> FALSE]

Init ==
  /\ device = "fast"
  /\ disk = [k \in Keys |-> NoFiles]
  /\ workflow = "none"
  /\ clock = 0 /\ starts = 0 /\ noise = Quiet
  /\ pc = "off" /\ at = 1 /\ runUtc = 0 /\ seen = "none"
  /\ guard = NewGuard(0) /\ probes = NoProbes
  /\ moving = None /\ verdict = "none"
  /\ untrusted = {}

-----------------------------------------------------------------------------
(* The stage loop. *)

Step == Program[at]
AtStep(op) == pc = "next" /\ at <= Len(Program) /\ Step.op = op

\* A fresh process: Guard.__init__ starts from now, with no readings.
Start ==
  /\ pc = "off"
  /\ starts < MaxStarts
  /\ starts' = starts + 1
  /\ clock' = clock + 1
  /\ workflow' = "measuring"
  /\ pc' = "next" /\ at' = 1
  /\ guard' = NewGuard(clock')
  /\ verdict' = "none"
  /\ UNCHANGED <<device, disk, noise, runUtc, seen, probes, moving, history>>

\* The process is gone with its variables; the properties refer to lastGood.
Exit ==
  /\ pc' = "off" /\ at' = 1
  /\ runUtc' = 0 /\ seen' = "none"
  /\ guard' = NewGuard(guard.lastGood)
  /\ probes' = NoProbes /\ noise' = Quiet
  /\ moving' = None /\ verdict' = "none"

Finish ==
  /\ pc = "next"
  /\ at = Len(Program) + 1
  /\ workflow' = "finished"
  /\ Exit
  /\ UNCHANGED <<device, disk, clock, starts, history>>

-----------------------------------------------------------------------------
(* Session._run. *)

\* Mutant of Cached: an unfinished raw file is passed over, too.
Skipped ==
  /\ AtStep("run")
  /\ disk[Step.key].row = "done" \/ disk[Step.key].raw
  /\ at' = at + 1
  /\ UNCHANGED <<device, disk, workflow, clock, starts, noise, pc, runUtc, seen,
                 guard, probes, moving, verdict, history>>

\* if path.exists(): return json.loads(...)  -- before any guard call
Cached ==
  /\ AtStep("run")
  /\ disk[Step.key].row = "done"
  /\ at' = at + 1
  /\ UNCHANGED <<device, disk, workflow, clock, starts, noise, pc, runUtc, seen,
                 guard, probes, moving, verdict, history>>

\* guard.before() invalidates reuse, waits for the device to cool; then the run.
BeginRun ==
  /\ AtStep("run")
  /\ disk[Step.key].row = "none" /\ ~disk[Step.key].raw
  /\ clock' = clock + 1
  /\ runUtc' = clock'
  /\ guard' = [guard EXCEPT !.reusable = FALSE]
  /\ disk' = [disk EXCEPT ![Step.key].raw = TRUE]
  /\ pc' = "running"
  /\ UNCHANGED <<device, workflow, starts, noise, at, seen, probes, moving,
                 verdict, history>>

RunnerEnds ==
  /\ pc = "running"
  /\ seen' = device
  /\ pc' = "ended"
  /\ UNCHANGED <<device, disk, workflow, clock, starts, noise, at, runUtc, guard,
                 probes, moving, verdict, history>>

\* path.write_text truncates the file, then writes it.
OpenTelemetry ==
  /\ pc = "ended"
  /\ disk' = [disk EXCEPT ![Step.key].tele = 0, ![Step.key].cut = TRUE]
  /\ pc' = "observing"
  /\ UNCHANGED <<device, workflow, clock, starts, noise, at, runUtc, seen, guard,
                 probes, moving, verdict, history>>

WriteTelemetry ==
  /\ pc = "observing"
  /\ disk' = [disk EXCEPT ![Step.key].tele = runUtc, ![Step.key].cut = FALSE]
  /\ pc' = "telemetered"
  /\ UNCHANGED <<device, workflow, clock, starts, noise, at, runUtc, seen, guard,
                 probes, moving, verdict, history>>

OpenRow ==
  /\ pc = "telemetered"
  /\ disk' = [disk EXCEPT ![Step.key].row = "torn"]
  /\ pc' = "writing"
  /\ UNCHANGED <<device, workflow, clock, starts, noise, at, runUtc, seen, guard,
                 probes, moving, verdict, history>>

CloseRow ==
  /\ pc = "writing"
  /\ disk' = [disk EXCEPT ![Step.key].row = "done", ![Step.key].state = seen]
  /\ untrusted' = untrusted \ {Step.key}
  /\ pc' = "written"
  /\ UNCHANGED <<device, workflow, clock, starts, noise, at, runUtc, seen, guard,
                 probes, moving, verdict>>

-----------------------------------------------------------------------------
(* Guard.after and Guard.check. *)

BeginProbes(edge) ==
  /\ clock' = clock + 1
  /\ noise' = Quiet
  /\ probes' = [NoProbes EXCEPT !.started = clock', !.edge = edge]
  /\ pc' = "probing"

\* Program names guarded configurations only: Guard._guarded holds of them all.
After ==
  /\ pc = "written"
  /\ LET count == guard.count + 1
     IN /\ guard' = [guard EXCEPT !.count = count]
        /\ IF count % Every = 0
           THEN BeginProbes("every") /\ UNCHANGED at
           ELSE pc' = "next" /\ at' = at + 1 /\ UNCHANGED <<clock, noise, probes>>
  /\ UNCHANGED <<device, disk, workflow, starts, runUtc, seen, moving,
                 verdict, history>>

\* The end probe of the stage before serves this start, if it is 5 s old at most.
ReuseCheck ==
  /\ AtStep("check")
  /\ Step.edge = "start"
  /\ guard.reusable
  /\ guard' = [guard EXCEPT !.reusable = FALSE]
  /\ at' = at + 1
  /\ UNCHANGED <<device, disk, workflow, clock, starts, noise, pc, runUtc, seen,
                 probes, moving, verdict, history>>

FreshCheck ==
  /\ AtStep("check")
  /\ guard' = [guard EXCEPT !.reusable = FALSE]
  /\ BeginProbes(Step.edge)
  /\ UNCHANGED <<device, disk, workflow, starts, at, runUtc, seen, moving,
                 verdict, history>>

\* The noise of the check after a probe that read v: of a device at full speed, of one
\* that sags or is slow, or a misread.
Heard(v) ==
  {n \in Noises :
     \/ device = "fast" /\ v >= FastFloor /\ n = noise
     \/ /\ v \in IF device = "fast" THEN (SlowCeiling + 1)..(FastFloor - 1) ELSE 0..SlowCeiling
        /\ n = [noise EXCEPT !.sagged = TRUE]
     \/ device = "fast" /\ v < FastFloor /\ n = [noise EXCEPT !.misread = @ + 1]}

Reads(v) == pc = "probing" /\ Heard(v) # {}

List(v) == Append(probes.list, v)

\* A first reading below the threshold is measured again, Confirm times in all.
Suspicious(v) == Degraded(List(v)[1], guard.readings)

Recheck(v) ==
  /\ Reads(v)
  /\ probes' = [probes EXCEPT !.list = List(v), !.attempt = 0]
  /\ Suspicious(v) /\ Len(List(v)) < Confirm
  /\ noise' \in Heard(v)
  /\ UNCHANGED <<device, disk, workflow, clock, starts, pc, at, runUtc, seen, guard,
                 moving, verdict, history>>

\* Mutant of Decided: the first low reading is believed.
DecidedAtOnce(v) == Len(List(v)) > 0

Decided(v) == ~Suspicious(v) \/ Len(List(v)) = Confirm

\* The median of an odd number of readings is the middle one.
Value(v) == Middle(List(v))

\* The readings gain the value; the healthy boundary moves to the check's start.
Accept(v) ==
  /\ Reads(v)
  /\ pc' = "next" /\ at' = at + 1
  /\ Decided(v)
  /\ ~Degraded(Value(v), guard.readings)
  /\ guard' = [guard EXCEPT !.readings = Append(@, Value(v)),
                            !.lastGood = probes.started,
                            !.reusable = (probes.edge = "end")]
  /\ untrusted' = IF Value(v) > SlowCeiling \/ FastMajority(guard.readings)
                  THEN untrusted
                  ELSE untrusted \cup Younger(guard.lastGood)
  /\ probes' = NoProbes /\ noise' = Quiet
  /\ UNCHANGED <<device, disk, workflow, clock, starts, runUtc, seen, moving, verdict>>

BeginQuarantine(why) ==
  /\ pc' = "quarantine"
  /\ verdict' = why
  /\ probes' = NoProbes
  /\ UNCHANGED <<device, disk, workflow, clock, starts, at, runUtc, seen, guard,
                 moving, history>>

DropConfirmed(v) ==
  /\ Reads(v)
  /\ BeginQuarantine("paused_device_degraded")
  /\ noise' \in Heard(v)
  /\ Decided(v)
  /\ Degraded(Value(v), guard.readings)

\* Mutant of InvalidProbe: the attempts start over.
InvalidForever ==
  /\ pc = "probing"
  /\ probes' = [probes EXCEPT !.attempt = (@ + 1) % Confirm]
  /\ UNCHANGED <<device, disk, workflow, clock, starts, noise, pc, at, runUtc, seen,
                 guard, moving, verdict, history>>

\* A probe fails the quality gates; each reading has Confirm attempts.
InvalidProbe ==
  /\ pc = "probing"
  /\ UNCHANGED noise
  /\ IF probes.attempt + 1 < Confirm
     THEN /\ probes' = [probes EXCEPT !.attempt = @ + 1]
          /\ UNCHANGED <<device, disk, workflow, clock, starts, pc, at, runUtc, seen,
                         guard, moving, verdict, history>>
     ELSE BeginQuarantine("paused_probe_invalid")

-----------------------------------------------------------------------------
(* Guard.quarantine(last_good_utc), one rename at a time. *)

PickKey(k) ==
  /\ pc = "quarantine" /\ moving = None
  /\ k \in Younger(guard.lastGood)
  /\ moving' = k
  /\ UNCHANGED <<device, disk, workflow, clock, starts, noise, pc, at, runUtc, seen,
                 guard, probes, verdict, history>>

\* for f in tele.parent.glob(key + ".*"): f.rename(...)
WithoutFile(files, f) ==
  CASE f = "raw" -> [files EXCEPT !.raw = FALSE]
    [] f = "tele" -> [files EXCEPT !.tele = 0]
    [] f = "row" -> [files EXCEPT !.row = "none", !.state = "none"]

MoveFile(f) ==
  /\ pc = "quarantine" /\ moving # None
  /\ LET left == WithoutFile(disk[moving], f)
     IN /\ left # disk[moving]
        /\ disk' = [disk EXCEPT ![moving] = left]
        /\ moving' = IF left = NoFiles THEN None ELSE moving
  /\ UNCHANGED <<device, workflow, clock, starts, noise, pc, at, runUtc, seen, guard,
                 probes, verdict, history>>

\* ProbeInvalid or DeviceDegraded reaches run_plan: mark(...), SystemExit.  A telemetry
\* file without a record makes json.loads raise before that: the process has Failed.
Pause ==
  /\ pc = "quarantine" /\ moving = None
  /\ Younger(guard.lastGood) = {} /\ \A k \in Keys : ~disk[k].cut
  /\ workflow' = verdict
  /\ Exit
  /\ UNCHANGED <<device, disk, clock, starts, history>>

-----------------------------------------------------------------------------
(* The environment. *)

\* Ctrl-C, an error, or the death of the process; runner errors included.
Broken(phase) ==
  /\ pc # "off"
  /\ workflow' = phase
  /\ Exit
  /\ untrusted' = untrusted \cup Younger(guard.lastGood)
                  \cup (IF moving = None THEN {} ELSE {moving})
  /\ UNCHANGED <<device, disk, clock, starts>>

Interrupted == Broken("stopped_by_user")
Killed == Broken(workflow)
Failed == Broken("failed")

\* HOW-TO-RUN.md:57: move the unfinished raw file aside and rerun.
MoveAside(k) ==
  /\ pc = "off"
  /\ disk[k].raw /\ disk[k].row # "done"
  /\ disk' = [disk EXCEPT ![k].raw = FALSE]
  /\ UNCHANGED <<device, workflow, clock, starts, noise, process, history>>

SlowDown ==
  /\ device = "fast"
  /\ device' = "slow"
  /\ UNCHANGED <<disk, workflow, clock, starts, noise, process, history>>

Reboot ==
  /\ pc = "off"
  /\ device = "slow"
  /\ device' = "fast"
  /\ UNCHANGED <<disk, workflow, clock, starts, noise, process, history>>

-----------------------------------------------------------------------------

Measure == Cached \/ BeginRun \/ RunnerEnds \/ OpenTelemetry \/ WriteTelemetry
           \/ OpenRow \/ CloseRow
Bracket ==
  \/ After \/ ReuseCheck \/ FreshCheck \/ InvalidProbe
  \/ \E v \in Rates : Recheck(v) \/ Accept(v) \/ DropConfirmed(v)
Quarantine ==
  \/ \E k \in Keys : PickKey(k)
  \/ \E f \in {"raw", "tele", "row"} : MoveFile(f)
  \/ Pause

\* What the process does on its own; at an obstructed key it can only fail.
ProcessStep == Failed \/ Finish \/ Measure \/ Bracket \/ Quarantine

Next ==
  \/ Start \/ ProcessStep
  \/ Interrupted \/ Killed
  \/ \E k \in Keys : MoveAside(k)
  \/ SlowDown \/ Reboot

Spec == Init /\ [][Next]_vars /\ WF_vars(ProcessStep)

-----------------------------------------------------------------------------

Phases == {"none", "measuring", "finished", "stopped_by_user", "failed",
           "paused_probe_invalid", "paused_device_degraded"}

TypeOK ==
  /\ device \in States
  /\ disk \in [Keys -> Files]
  /\ workflow \in Phases
  /\ clock \in Nat /\ starts \in 0..MaxStarts /\ noise \in Noises
  /\ pc \in {"off", "next", "running", "ended", "observing", "telemetered", "writing",
             "written", "probing", "quarantine"}
  /\ at \in 1..(Len(Program) + 1)
  /\ runUtc \in Nat /\ seen \in States \cup {"none"}
  /\ guard \in Guards
  /\ probes \in Checks
  /\ moving \in Keys \cup {None}
  /\ verdict \in {"none", "paused_probe_invalid", "paused_device_degraded"}
  /\ untrusted \subseteq Keys

\* A row measured on the slow device is either still in the open interval that the
\* next check can quarantine, or one of two things happened to its interval: the
\* process ended before the next check, or a slow reading closed it in a session
\* without a fast majority among its readings.  So in a session most of whose probes
\* were fast, neither retries, misread probes, a reused probe nor readings that sink
\* little by little let a slow row through (METHODOLOGY.md:276-285).
SlowRowsExplained ==
  \A k \in Keys : disk[k].row = "done" /\ disk[k].state = "slow" =>
    \/ k \in untrusted
    \/ pc # "off" /\ (disk[k].tele > guard.lastGood \/ k = moving)

\* The reference sinks only as fast as its majority does.  A drift is accepted step by
\* step (94, 80, 80, 68 % pass one after the other: each is above 85 % of the median
\* before it), but a reading of the slow state becomes part of the reference only after
\* at least half of the session's readings had already left the fast state.
DriftNeedsMajority ==
  \A n \in DOMAIN guard.readings :
    guard.readings[n] <= SlowCeiling => ~FastMajority(SubSeq(guard.readings, 1, n - 1))

\* A single outlier never pauses the plan: a confirmed drop means that some probe of the
\* check met a device below full speed, however far apart the accepted
\* readings lie (the scatter of stages.py:504-507 is inside the threshold), when fewer
\* than half of the probes of a check are misread.
NoFalseAlarm ==
  pc = "quarantine" /\ verdict = "paused_device_degraded" => noise.sagged

\* When the plan is finished every configuration has a row, and a probe of that
\* process closed the interval of each (the last check of a plan is never reused).
FinishedIsBracketed ==
  workflow = "finished" =>
    \A i \in 1..Len(Program) : Program[i].op = "run" =>
      /\ disk[Program[i].key].row = "done"
      /\ disk[Program[i].key].tele <= guard.lastGood

\* A finished result is never measured again, overwritten or removed, except that
\* quarantine moves the files of results younger than the last good probe.
RowsArePreserved ==
  [][\A k \in Keys : disk[k].row = "done" /\ disk'[k] # disk[k] =>
       pc = "quarantine" /\ moving = k]_vars

\* Every process ends: a probe that never becomes valid does not hold it up.
RunEnds == pc # "off" ~> pc = "off"

\* HOW-TO-RUN.md:57-59: after a killed run, moving the raw file aside is enough for
\* the configuration to be measured again.
KilledRunResumes ==
  AtStep("run") /\ ~disk[Step.key].raw => disk[Step.key].row # "torn"
=============================================================================
