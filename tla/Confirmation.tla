----------------------------- MODULE Confirmation -----------------------------
(***************************************************************************)
(* From the sweep to confirmed roofs (candidates, confirm and select_roofs *)
(* of stages.py, confirmed_groups of admission.py).                        *)
(*                                                                         *)
(* Every `run` chooses the fastest configurations of the sweep for each    *)
(* roof, in an order that depends on the directory listing where they tie, *)
(* and measures them again, round-robin and in alternating direction, each *)
(* repeat being a configuration with a row of its own.  A run may be       *)
(* interrupted, or paused by the Guard with the rows of the open interval  *)
(* isolated; the next one finds the rows that are left.  A roof is the     *)
(* best median of a group of repeats that is complete and stable.          *)
(*                                                                         *)
(* A configuration measured as the t-th of the campaign reads              *)
(* base - drift * t, and any repeat may fail the quality gates.  Medians   *)
(* are doubled to stay integers.                                           *)
(***************************************************************************)
EXTENDS Integers, Sequences, FiniteSets, SequencesExt

CONSTANTS
  Roofs,        \* the roof keys, in sorted order
  Configs,      \* swept configurations
  RoofOf,       \* RoofOf[c]: the roof_key of c
  Plans,        \* [top : Nat, reps : Nat]: what PLANS says of "confirm"
  Bases,        \* possible true rates, each a function on Configs
  Sweeps,       \* possible rates in the sweep, 0 for what is gated
  Drifts,       \* possible changes of every rate per measurement
  Every,        \* SENTINEL["every"]: a check after this many measured runs
  MaxRejects,   \* bound: rows that failed the quality gates
  MaxSessions   \* bound: `run` commands

RoofSet == {Roofs[n] : n \in DOMAIN Roofs}

ASSUME ConstantsAssumption ==
  /\ Roofs \in Seq(RoofSet) /\ IsInjective(Roofs) /\ IsFiniteSet(Configs)
  /\ RoofOf \in [Configs -> RoofSet]
  /\ Plans \subseteq [top : Nat \ {0}, reps : Nat \ {0}] /\ Plans # {} /\ IsFiniteSet(Plans)
  /\ Bases \subseteq [Configs -> Int] /\ Sweeps \subseteq [Configs -> Nat]
  /\ Drifts \subseteq Int
  /\ Every \in Nat \ {0} /\ MaxRejects \in Nat /\ MaxSessions \in Nat

VARIABLES
  base, drift, sweep,  \* the device and what the sweep read of it
  time,      \* measurements so far
  sessions,
  pc,
  plan,
  work,      \* candidates of this run, in order
  pass, at,  \* position in the confirmation: repeat and place in it
  rows,      \* confirm/*.json
  recent,    \* those younger than the last good probe
  chosen     \* what the last run to come so far exported: per roof the group that
             \* won, or <<>>

device == <<base, drift, sweep>>
vars == <<device, time, sessions, pc, plan, work, pass, at, rows, recent, chosen>>

MaxReps == CHOOSE n \in {p.reps : p \in Plans} : \A p \in Plans : p.reps <= n

Row == [config : Configs, reps : {p.reps : p \in Plans}, replicate : 0..(MaxReps - 1),
        rate : Int, ok : BOOLEAN]

-----------------------------------------------------------------------------
(* candidates. *)

Admitted(k) == {c \in Configs : RoofOf[c] = k /\ sweep[c] > 0}

\* Roof by roof in the order of their keys, each with the `top` fastest of its admitted
\* configurations by falling rate; the listing decides where rates tie.
WorkLists(top) ==
  {w \in UNION {[1..n -> Configs] : n \in 0..Cardinality(Configs)} :
     /\ \A m, n \in DOMAIN w : m < n =>
          \/ \E i, j \in DOMAIN Roofs :
               i < j /\ Roofs[i] = RoofOf[w[m]] /\ Roofs[j] = RoofOf[w[n]]
          \/ /\ RoofOf[w[m]] = RoofOf[w[n]] /\ w[m] # w[n]
             /\ sweep[w[m]] >= sweep[w[n]]
     /\ \A k \in RoofSet :
          LET taken == {w[n] : n \in DOMAIN w} \cap {c \in Configs : RoofOf[c] = k} IN
          /\ taken \subseteq Admitted(k)
          /\ LET n == Cardinality(Admitted(k))
             IN  Cardinality(taken) = (IF n < top THEN n ELSE top)
          /\ \A c \in taken, d \in Admitted(k) \ taken : sweep[c] >= sweep[d]}

-----------------------------------------------------------------------------
(* confirmed_groups. *)

Groups(rs) == {<<r.config, r.reps>> : r \in rs}
Repeats(rs, g) == {r \in rs : r.config = g[1] /\ r.reps = g[2]}
Eligible(rs) == {r \in rs : r.ok}

\* The rows by rising rate; how ties fall does not matter to a median.
Sorted(rs) ==
  CHOOSE s \in SetToSeqs(rs) : \A m, n \in DOMAIN s : m < n => s[m].rate <= s[n].rate

\* Twice the median.
Median(rs) ==
  LET s == Sorted(rs) n == Len(s) IN s[(n + 1) \div 2].rate + s[(n + 2) \div 2].rate

\* (max(values) - min(values)) / med > MAX_REPEAT_SPREAD.
Stable(rs) ==
  LET s == Sorted(rs) IN 40 * (s[Len(s)].rate - s[1].rate) <= Median(rs)

Confirmed(rs, g) ==
  LET attempts == Repeats(rs, g) ok == Eligible(attempts) IN
  /\ Cardinality(attempts) >= g[2]
  /\ Cardinality(ok) >= 2 /\ Cardinality(ok) >= Cardinality(attempts) - 1
  /\ Median(ok) > 0 /\ Stable(ok)

GroupMedian(rs, g) == Median(Eligible(Repeats(rs, g)))

Abs(n) == IF n < 0 THEN -n ELSE n

\* The loop over the groups, in the order of the listing, for one roof.
Winner(rs, listing, k) ==
  FoldLeft(LAMBDA best, g :
             IF RoofOf[g[1]] = k /\ Confirmed(rs, g)
                /\ (best = <<>> \/ GroupMedian(rs, g) > GroupMedian(rs, best))
             THEN g ELSE best,
           <<>>, listing)

-----------------------------------------------------------------------------
(* run_plan from confirm_start on. *)

Init ==
  /\ base \in Bases /\ drift \in Drifts /\ sweep \in Sweeps
  /\ time = 0 /\ sessions = 0 /\ pc = "off"
  /\ plan = (CHOOSE p \in Plans : TRUE) /\ work = <<>> /\ pass = 0 /\ at = 1
  /\ rows = {} /\ recent = {}
  /\ chosen = [k \in RoofSet |-> <<>>]

\* A `run` whose first probe of the stage was accepted.
Start ==
  /\ pc \in {"off", "done"} /\ sessions < MaxSessions
  /\ sessions' = sessions + 1
  /\ plan' \in Plans
  /\ work' \in WorkLists(plan'.top)
  /\ pc' = "confirm" /\ pass' = 0 /\ at' = 1 /\ recent' = {}
  /\ UNCHANGED <<device, time, rows, chosen>>

\* Mutant of Due: every repeat in the same direction.
DueForward == work[at]

\* Repeats go through the candidates in alternating direction.
Due == IF pass % 2 = 0 THEN work[at] ELSE work[Len(work) + 1 - at]

\* Mutant of Finished: one pass too many.
FinishedLate == work = <<>> \/ pass > plan.reps

Finished == work = <<>> \/ pass = plan.reps

\* Mutant of Stored: the repeat is no part of the row's name.
StoredOnce == {r \in rows : r.config = Due /\ r.reps = plan.reps}

\* Rows of the file that the configuration that is due is stored in.
Stored == {r \in rows : r.config = Due /\ r.reps = plan.reps /\ r.replicate = pass}

HasRow == Stored # {}

\* The Guard probes the device, within the stage or at its end.
Checking == pc = "confirm" /\ (Finished \/ Cardinality(recent) = Every)

Measuring == pc = "confirm" /\ ~Finished /\ Cardinality(recent) < Every

Advance ==
  /\ at' = IF at < Len(work) THEN at + 1 ELSE 1
  /\ pass' = IF at < Len(work) THEN pass ELSE pass + 1
  /\ UNCHANGED <<device, sessions, pc, plan, work, chosen>>

\* Session.run returns the row that is there.
Skip ==
  /\ Measuring /\ HasRow
  /\ Advance /\ UNCHANGED <<time, rows, recent>>

Measure ==
  /\ Measuring /\ ~HasRow
  /\ \E ok \in BOOLEAN :
       /\ ok \/ Cardinality({r \in rows : ~r.ok}) < MaxRejects
       /\ LET row == [config |-> Due, reps |-> plan.reps, replicate |-> pass,
                      rate |-> base[Due] - drift * time, ok |-> ok]
          IN
          /\ rows' = (rows \ Stored) \cup {row}
          /\ recent' = recent \cup {row}
  /\ time' = time + 1
  /\ Advance

\* The Guard accepts a probe, and the stage goes on or ends.
CheckAccepted ==
  /\ Checking
  /\ recent' = {}
  /\ pc' = IF Finished THEN "select" ELSE pc
  /\ UNCHANGED <<device, time, sessions, plan, work, pass, at, rows, chosen>>

\* The Guard pauses the plan: the open interval moves to superseded/.
CheckFails ==
  /\ Checking
  /\ rows' = rows \ recent
  /\ recent' = {} /\ pc' = "off"
  /\ UNCHANGED <<device, time, sessions, plan, work, pass, at, chosen>>

\* The process ends early; the Guard of the next one knows nothing of its interval.
Interrupt ==
  /\ pc \in {"confirm", "select"}
  /\ recent' = {} /\ pc' = "off"
  /\ UNCHANGED <<device, time, sessions, plan, work, pass, at, rows, chosen>>

\* select_roofs sees the rows of this run's candidates (confirmation_configs), in any
\* listing; config_identity leaves the planned repeats out of account.
InScope == {r \in rows : \E n \in DOMAIN work : r.config = work[n]}

Select ==
  /\ pc = "select"
  /\ \E listing \in SetToSeqs(Groups(InScope)) :
       chosen' = [k \in RoofSet |-> Winner(InScope, listing, k)]
  /\ pc' = "done"
  /\ UNCHANGED <<device, time, sessions, plan, work, pass, at, rows, recent>>

-----------------------------------------------------------------------------
(* analyze of report.py, on the rows of every run. *)

Item(confirmed, id, value) == [confirmed |-> confirmed, id |-> id, value |-> value]

\* One row of each swept configuration that is admitted, and the representative of the group
\* that won; other confirmation rows are passed over.  Rates are doubled, like medians.
Items(listing, k) ==
  {Item(FALSE, c, 2 * sweep[c]) : c \in Admitted(k)}
  \cup LET g == Winner(rows, listing, k)
       IN IF g = <<>> THEN {} ELSE {Item(TRUE, g, GroupMedian(rows, g))}

\* Mutant of Peak: whatever is faster replaces what is there.
PeakOfAll(items) ==
  FoldLeft(LAMBDA best, x : IF best = <<>> \/ x.value > best[1].value THEN <<x>> ELSE best,
           <<>>, items)

\* The loop over the files, in the order of their listing.
Peak(items) ==
  FoldLeft(LAMBDA best, x :
             IF \/ x.confirmed \/ best = <<>>
                \/ ~best[1].confirmed /\ x.value > best[1].value
             THEN <<x>> ELSE best,
           <<>>, items)

Next ==
  \/ Start \/ Skip \/ Measure \/ CheckAccepted \/ CheckFails \/ Interrupt \/ Select

Spec == Init /\ [][Next]_vars

-----------------------------------------------------------------------------
(* Properties. *)

TypeOK ==
  /\ base \in Bases /\ drift \in Drifts /\ sweep \in Sweeps
  /\ time \in Nat /\ sessions \in 0..MaxSessions
  /\ pc \in {"off", "confirm", "select", "done"}
  /\ plan \in Plans
  /\ work \in Seq(Configs) /\ pass \in 0..plan.reps /\ at \in Nat
  /\ rows \in SUBSET Row /\ recent \subseteq rows
  /\ chosen \in [RoofSet -> {<<>>} \cup (Configs \X {p.reps : p \in Plans})]

\* When roofs are chosen, every candidate of this run has all its planned repeats,
\* however often the plan was interrupted or paused ("All planned confirmation
\* repeats must be present", docs/METHODOLOGY.md).
RepeatsAreComplete ==
  pc = "select" =>
    \A n \in DOMAIN work, i \in 0..(plan.reps - 1) :
      \E r \in rows : r.config = work[n] /\ r.reps = plan.reps /\ r.replicate = i

\* Of the groups that a run confirmed it exports the best, in whatever order the directory
\* lists the rows.  The report, which reads the files of every run in another order, names a
\* confirmed roof wherever a group is confirmed, the best of all runs, however much more a sweep
\* read (outliers are what a sweep selects); without one it names the best of the sweep.
ReportKeepsRoofs ==
  pc = "done" =>
    \A k \in RoofSet :
      LET confirmed == {g \in Groups(rows) : RoofOf[g[1]] = k /\ Confirmed(rows, g)}
          exportable == {g \in confirmed : \E n \in DOMAIN work : g[1] = work[n]}
      IN /\ IF chosen[k] = <<>> THEN exportable = {}
            ELSE /\ chosen[k] \in exportable
                 /\ \A g \in exportable : GroupMedian(rows, g) <= GroupMedian(rows, chosen[k])
         /\ \A listing \in SetToSeqs(Groups(rows)) : \A items \in SetToSeqs(Items(listing, k)) :
              LET peak == Peak(items)
              IN IF confirmed # {}
                   THEN /\ peak[1].confirmed
                        /\ \A g \in confirmed : GroupMedian(rows, g) <= peak[1].value
                   ELSE /\ peak = <<>> <=> Admitted(k) = {}
                        /\ \A c \in Admitted(k) : 2 * sweep[c] <= peak[1].value

\* The confirmation is not decided by drift: in an uninterrupted run a configuration
\* that is faster by more than one pass drifts is never beaten, whichever repeat each
\* of the two lost ("round-robin, alternating direction each repeat so drift hits all
\* alike", confirm).  With an odd number of repeats the middle pass decides, and equally
\* fast candidates still differ by what it drifts.
FasterWins ==
  (pc = "done" /\ sessions = 1) =>
    \A m, n \in DOMAIN work :
      LET fast == <<work[m], plan.reps>> slow == <<work[n], plan.reps>> IN
      /\ RoofOf[work[m]] = RoofOf[work[n]]
      /\ Confirmed(rows, fast) /\ Confirmed(rows, slow)
      /\ base[work[m]] > base[work[n]] + Len(work) * Abs(drift)
      => chosen[RoofOf[work[m]]] # slow

\* A repeat that failed stays in the denominator ("Keep all repeat attempts in the
\* denominator", confirmed_groups): a row disappears only with the open interval of
\* a run that the Guard pauses.
AttemptsStay ==
  [][\A r \in rows : r \notin rows' => r \in recent /\ pc' = "off"]_vars
=============================================================================
