------------------------------ MODULE Calibration ------------------------------
(***************************************************************************)
(* Runtime calibration (runner/src/calibration.h): the number of loops in  *)
(* a dispatch and of dispatches in a batch that make one timed sample last *)
(* target to 1.5 x target, at a fixed cost of at most 10 % of the sample.  *)
(* The runner calibrates twice, before and after its warm-up, on a device  *)
(* that may have changed its clock in between.                             *)
(*                                                                         *)
(* A steady clock takes launch + loops * body for each dispatch; one       *)
(* reading in each group of three may be anything.  An erratic clock reads *)
(* any time.  Times are integers and ratios of integers are compared by    *)
(* cross-multiplication, where the code rounds doubles.                    *)
(***************************************************************************)
EXTENDS Integers, Bounds

CONSTANTS
  Target,         \* target_seconds
  Limits,         \* largest loop counts the families allow
  StartLoops, StartBatches,  \* configured loops and batch_dispatches
  Clocks,         \* [steady : BOOLEAN, launch : Nat, body : Nat]
  ErraticTimes,   \* what an erratic clock reads
  Outlier         \* the reading of an outlier

MaxBatch == 256
MaxRounds == 10

ASSUME ConstantsAssumption ==
  /\ Target \in Nat \ {0} /\ Outlier \in Nat \ {0}
  /\ Limits \subseteq Nat /\ \A l \in Limits : l >= 2
  /\ StartLoops \subseteq Nat /\ StartBatches \subseteq Nat
  /\ Clocks \subseteq [steady : BOOLEAN, launch : Nat, body : Nat \ {0}]
  /\ ErraticTimes \subseteq Nat \ {0}

VARIABLES
  differential, limit, clock,
  pass,           \* 1 before the warm-up, 2 after it
  round, loops, batch,
  floor,          \* qualityFloor
  seconds, half,  \* medians measured in this round
  phase,          \* "measure", "decide", "done"
  reason,
  rejected,       \* history: the most loops this calibration found too costly
  heading, turns  \* history: whether the last round asked for more or less work, and
                  \* how often that changed in this calibration

vars == <<differential, limit, clock, pass, round, loops, batch, floor,
          seconds, half, phase, reason, rejected, heading, turns>>
given == <<differential, limit, clock, pass>>
course == <<heading, turns>>

Clamp(x, low, high) == Most(low, Least(x, high))
CeilDiv(a, b) == (a + b - 1) \div b

Minimum == IF differential THEN 2 ELSE 1

Init ==
  /\ differential \in BOOLEAN /\ limit \in Limits /\ clock \in Clocks
  /\ pass = 1
  /\ \E l \in StartLoops : loops = Clamp(l, Minimum, limit)
  /\ \E b \in StartBatches : batch = Clamp(b, 1, MaxBatch)
  /\ round = 0 /\ floor = Minimum /\ rejected = 0
  /\ seconds = 0 /\ half = 0 /\ phase = "measure" /\ reason = "none"
  /\ heading = "none" /\ turns = 0

-----------------------------------------------------------------------------

\* GPU time of a submission on a steady clock.
Time(l) == batch * (clock.launch + l * clock.body)

\* Mutant of Median3: the minimum of the readings.
Least3(a, b, c) == Least(a, Least(b, c))

\* times[1] of the sorted triplet.
Median3(a, b, c) == Most(Least(a, b), Least(Most(a, b), c))

\* median(l), with at most one outlier.
Readings(l) ==
  IF clock.steady
  THEN {Median3(Time(l), Time(l), Time(l)), Median3(Outlier, Time(l), Time(l)),
        Median3(Time(l), Outlier, Time(l)), Median3(Time(l), Time(l), Outlier)}
  ELSE ErraticTimes

Measure ==
  /\ phase = "measure"
  /\ seconds' \in Readings(loops)
  /\ IF differential THEN half' \in Readings(loops \div 2) ELSE half' = 0
  /\ phase' = "decide"
  /\ UNCHANGED <<given, round, loops, batch, floor, reason, rejected, course>>

\* fixed == FixedPart / FixedWhole: the share of seconds that does not grow with loops.
FixedWhole == seconds * (loops - loops \div 2)
FixedPart ==
  IF differential THEN FixedWhole - loops * (seconds - half) ELSE 0

TooCostly == 10 * FixedPart > FixedWhole

\* loops and batch times factor, where factor is target * 1.2 / seconds within [1/8, 8].
Scaled(x) == Clamp(CeilDiv(x * 6 * Target, 5 * seconds), CeilDiv(x, 8), 8 * x)

Stops(why) ==
  /\ phase' = "done" /\ reason' = why
  /\ UNCHANGED <<round, loops, batch, seconds, half, course>>

Heads(direction) ==
  /\ heading' = direction
  /\ turns' = IF heading \in {"none", direction} THEN turns ELSE turns + 1

\* emit(...), then stop or start the next round.
Advance(nextLoops, nextBatch, why) ==
  IF nextLoops = loops /\ nextBatch = batch
  THEN Stops(why)
  ELSE IF round = MaxRounds - 1
  THEN Stops("iteration_limit")
  ELSE /\ loops' = nextLoops /\ batch' = nextBatch
       /\ round' = round + 1 /\ phase' = "measure"
       /\ seconds' = 0 /\ half' = 0
       /\ Heads(IF nextLoops > loops \/ nextBatch > batch THEN "more" ELSE "less")
       /\ UNCHANGED reason

\* Batching cannot remove per-dispatch overhead: grow the loop body first.
GrowForFixedCost ==
  /\ phase = "decide" /\ TooCostly
  /\ floor' = Least(limit, Most(floor, loops + 1))
  /\ rejected' = Most(rejected, loops)
  /\ LET wanted == Clamp(CeilDiv(25 * loops * FixedPart, 2 * FixedWhole),
                         CeilDiv(9 * loops, 8), 8 * loops)
     IN Advance(Least(limit, wanted), batch, "fixed_cost_limit")
  /\ UNCHANGED given

InTarget == seconds >= Target /\ 2 * seconds <= 3 * Target
TooLong == 2 * seconds > 3 * Target

Accept ==
  /\ phase = "decide" /\ ~TooCostly /\ InTarget
  /\ Stops("target_reached")
  /\ UNCHANGED <<given, floor, rejected>>

ReduceBatch ==
  /\ phase = "decide" /\ ~TooCostly /\ TooLong /\ batch > 1
  /\ LET scaled == Most(1, Scaled(batch))
     IN Advance(loops, IF scaled = batch THEN batch - 1 ELSE scaled, "reduce_batch")
  /\ UNCHANGED <<given, floor, rejected>>

\* Mutant of Floor: only what was rejected is kept.
FloorOfRejected == floor

\* The loops that keep the fixed cost at 8 %.
Floor ==
  IF FixedPart > 0 /\ FixedPart < FixedWhole
  THEN Least(limit, Most(floor, CeilDiv(23 * loops * FixedPart,
                                        2 * (FixedWhole - FixedPart))))
  ELSE floor

\* Mutant of ReduceLoops: shrinks without regard to the floor.
ReduceLoopsFreely ==
  /\ phase = "decide" /\ ~TooCostly /\ TooLong /\ batch = 1
  /\ floor' = Floor
  /\ LET wanted == Most(Minimum, Least(loops, Scaled(loops)))
         less == IF wanted = loops /\ loops > Minimum THEN loops - 1 ELSE wanted
     IN Advance(less, batch, "workload_limit")
  /\ UNCHANGED <<given, rejected>>

ReduceLoops ==
  /\ phase = "decide" /\ ~TooCostly /\ TooLong /\ batch = 1
  /\ floor' = Floor
  /\ LET wanted == Least(loops, Most(Floor, Scaled(loops)))
         less == IF wanted = loops /\ loops > Floor THEN loops - 1 ELSE wanted
     IN Advance(less, batch,
                IF Floor > Minimum THEN "quality_floor_reached" ELSE "workload_limit")
  /\ UNCHANGED <<given, rejected>>

Increase ==
  /\ phase = "decide" /\ ~TooCostly /\ seconds < Target
  /\ LET more == Least(limit, Most(loops + 1, Scaled(loops)))
     IN IF more # loops
        THEN Advance(more, batch, "increase_loops")
        ELSE Advance(loops, Least(MaxBatch, Most(batch + 1, Scaled(batch))),
                     "workload_limit")
  /\ UNCHANGED <<given, floor, rejected>>

\* The warm-up: the second calibration starts from the first one's workload.
Recalibrate ==
  /\ phase = "done" /\ pass = 1
  /\ pass' = 2 /\ clock' \in Clocks
  /\ round' = 0 /\ floor' = Minimum /\ rejected' = 0
  /\ seconds' = 0 /\ half' = 0 /\ phase' = "measure" /\ reason' = "none"
  /\ heading' = "none" /\ turns' = 0
  /\ UNCHANGED <<differential, limit, loops, batch>>

Decide == GrowForFixedCost \/ Accept \/ ReduceBatch \/ ReduceLoops \/ Increase

Next == Measure \/ Decide \/ Recalibrate

Spec == Init /\ [][Next]_vars

-----------------------------------------------------------------------------

TypeOK ==
  /\ differential \in BOOLEAN /\ limit \in Limits /\ clock \in Clocks
  /\ pass \in 1..2 /\ round \in 0..(MaxRounds - 1)
  /\ loops \in Minimum..limit /\ batch \in 1..MaxBatch /\ floor \in Minimum..limit
  /\ seconds \in Nat /\ half \in Nat /\ rejected \in 0..limit
  /\ heading \in {"none", "more", "less"} /\ turns \in Nat
  /\ phase \in {"measure", "decide", "done"}
  /\ reason \in {"none", "fixed_cost_limit", "target_reached", "quality_floor_reached",
                 "workload_limit", "iteration_limit"}

\* "Never shrink back into a workload already rejected for overhead in this
\* calibration", whatever the clock reads (calibration.h:46-47).
NeverBackIntoRejected ==
  rejected # 0 => loops >= rejected /\ (phase = "measure" => loops > rejected)

\* A workload that is reported as on target is on target, at a fixed cost of at most
\* 10 %, even though one reading in each triplet was an outlier (calibration.h:16-20).
TargetIsReal ==
  (clock.steady /\ reason = "target_reached") =>
    /\ Time(loops) >= Target /\ 2 * Time(loops) <= 3 * Target
    /\ differential => 10 * batch * clock.launch <= Time(loops)

\* A single dispatch of the most loops is too short, and a batch of two is too long.
Dispatch == clock.launch + loops * clock.body
NoBatchFits == loops = limit /\ Dispatch < Target /\ 4 * Dispatch > 3 * Target

\* The differential calibration of a steady device approaches its workload, with at most
\* two turns between more and less, rather than oscillating around the target; the one
\* exception is a device on which no batch fits (docs/METHODOLOGY.md:171-173).
TurnsTwice ==
  (differential /\ clock.steady /\ ~NoBatchFits) => turns <= 2

\* With the same exception it arrives within its ten rounds (calibration.h:28, 71-74).
Settles ==
  (differential /\ clock.steady /\ reason = "iteration_limit") => NoBatchFits
=============================================================================
