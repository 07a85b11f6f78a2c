-------------------------------- MODULE Sustain --------------------------------
(***************************************************************************)
(* Sustained runs: from confirmed roofs to the roofs that a report calls   *)
(* sustained (sustain, run_sustained and the end of run_plan in stages.py, *)
(* Session.run, admission.py, analyze and choose_roofs of report.py).      *)
(*                                                                         *)
(* A `run` confirms configurations and may go on to sustain them; the      *)
(* `sustain` command measures what is confirmed already.  Batch by batch   *)
(* and roof by roof, a short preflight and then the long measurement are   *)
(* stored in files named after their configuration: what is stored is      *)
(* never measured again, whatever it says.  The report is a function of    *)
(* the files and may be made at any time.                                  *)
(*                                                                         *)
(* A confirmed group is known by its representative row, which fixes the   *)
(* loops of the sustained configuration; groups of one configuration under *)
(* different plans have different representatives.  A build is a version   *)
(* that stands for both runners, which have the same source.               *)
(***************************************************************************)
EXTENDS Naturals, Sequences, FiniteSets

CONSTANTS
  Roofs,        \* the roof keys in sorted order
  Refs,         \* representative rows of confirmed groups
  RoofOf,       \* RoofOf[g]: the roof of g
  ConfigOf,     \* ConfigOf[g]: its configuration (config_identity)
  Rank,         \* Rank[g]: order of the groups by median, distinct on a roof
  Durations,    \* durations a user asks for, in some unit
  BatchCounts,  \* numbers of batches a plan or a user asks for
  RoofChoices,  \* roof_keys of a command or "keys" of a plan; {} means all
  MinBatches,   \* batches that make a sustained roof: 3 in the code
  None,
  MaxBuilds,    \* bound: builds after the first
  MaxSessions,  \* bound: `run` and `sustain` commands
  MaxFaults     \* bound: interrupts, failures and bad measurements

RoofSet == {Roofs[n] : n \in DOMAIN Roofs}
Versions == 0..MaxBuilds
Commands == [batches : BatchCounts, duration : Durations, roofs : RoofChoices]

ASSUME ConstantsAssumption ==
  /\ Roofs \in Seq(RoofSet) /\ Roofs # <<>>
  /\ RoofOf \in [Refs -> RoofSet] /\ Rank \in [Refs -> Nat]
  /\ DOMAIN ConfigOf = Refs
  /\ \A g, h \in Refs : RoofOf[g] = RoofOf[h] /\ Rank[g] = Rank[h] => g = h
  /\ None \notin Refs
  /\ Durations \subseteq Nat \ {0} /\ BatchCounts \subseteq Nat \ {0}
  /\ \A chosen \in RoofChoices : chosen \subseteq RoofSet
  /\ MinBatches \in Nat \ {0}
  /\ MaxBuilds \in Nat /\ MaxSessions \in Nat /\ MaxFaults \in Nat

VARIABLES
  build,      \* version in build/
  deployed,   \* version on the device and in artifact-manifest.json
  confirmed,  \* groups confirmed under that version
  sessions, faults,
  pc,         \* what the command does next
  cmd,        \* its settings
  winners,    \* winners[k]: the group that select_roofs returned for k, or None
  digest,     \* sustained_sha
  batch, at,  \* position of the loops
  rows,       \* result files of sustain-preflight-* and sustain-*
  raw         \* raw files there without a result

files == <<rows, raw>>
locals == <<cmd, winners, digest>>
where == <<batch, at>>
vars == <<build, deployed, confirmed, sessions, faults, pc, locals, where, files>>

\* A file: its directory, and what tells its configuration from others.
File == [phase : {"preflight", "long"}, batch : Nat, group : Refs,
         duration : Durations \cup {0}, runner : Versions, reference : Versions]
Outcomes == {"rejected", "unsteady", "steady"}
Row == [file : File, outcome : Outcomes, ran : Versions]

-----------------------------------------------------------------------------
(* The report. *)

\* confirmed_groups: the fastest of some groups on a roof.
Best(groups, k) ==
  LET fastest == {g \in groups : /\ RoofOf[g] = k
                                 /\ \A h \in groups : RoofOf[h] = k => Rank[h] <= Rank[g]}
  IN  IF fastest = {} THEN None ELSE CHOOSE g \in fastest : TRUE

\* Mutant of Current: the runner of the reference is not compared.
CurrentByRunner(f, v) == f.runner = v

\* build_reasons of a sustained row, for a reader that knows version v.
Current(f, v) == f.runner = v /\ f.reference = v

\* sustained_reference_matches: the row repeats the configuration that is confirmed now.
Linked(f) ==
  LET best == Best(confirmed, RoofOf[f.group])
  IN  best # None /\ ConfigOf[best] = ConfigOf[f.group]

\* sustained_rows: unsteady ones stay.
Counted(r) ==
  /\ r.file.phase = "long" /\ r.outcome # "rejected"
  /\ Current(r.file, deployed) /\ Linked(r.file)

\* config_identity, for rows of one version.
Identity(f) == <<f.group, f.duration>>

Cohorts(k) ==
  LET of == {r \in rows : Counted(r) /\ RoofOf[r.file.group] = k}
  IN  {{r \in of : Identity(r.file) = Identity(s.file)} : s \in of}

Batches(cohort) == {r.file.batch : r \in cohort}

\* sustained_summary: a cohort with the most batches; which of several is decided by
\* the order of their identities.
Published(k) ==
  LET all == Cohorts(k)
  IN  {c \in all : \A d \in all : Cardinality(Batches(d)) <= Cardinality(Batches(c))}

Complete(cohort) ==
  Cardinality(Batches(cohort)) >= MinBatches /\ \A r \in cohort : r.outcome = "steady"

\* choose_roofs returns the sustained roofs under some order of the identities, and
\* under every order.
MaySustain == \A k \in RoofSet : \E c \in Published(k) : Complete(c)
MustSustain ==
  \A k \in RoofSet : Published(k) # {} /\ \A c \in Published(k) : Complete(c)

-----------------------------------------------------------------------------
(* Commands. *)

Running == {"confirm", "select", "next", "long"}
NoCommand == [batches |-> 0, duration |-> 0, roofs |-> {}]
NoWinners == [k \in RoofSet |-> None]

\* The process ends, and its locals with it.
Leave ==
  /\ pc' = "off" /\ cmd' = NoCommand /\ winners' = NoWinners /\ digest' = 0
  /\ batch' = 0 /\ at' = 1

Init ==
  /\ build = 0 /\ deployed = 0 /\ confirmed = {}
  /\ sessions = 0 /\ faults = 0
  /\ pc = "off" /\ cmd = NoCommand /\ winners = NoWinners /\ digest = 0
  /\ batch = 0 /\ at = 1 /\ rows = {} /\ raw = {}

\* `build`, also while a session works.  The build is read when a session opens and when
\* its roofs are selected; one during the measurements is the same as one after them.
Build ==
  /\ pc \notin {"next", "long"}
  /\ build < MaxBuilds /\ build' = build + 1
  /\ UNCHANGED <<deployed, confirmed, sessions, faults, pc, locals, where, files>>

\* A new session deploys the build, and only rows of that build are current.
Open(next) ==
  /\ pc \notin Running /\ sessions < MaxSessions
  /\ sessions' = sessions + 1 /\ pc' = next
  /\ deployed' = build
  /\ confirmed' = IF build = deployed THEN confirmed ELSE {}
  /\ winners' = NoWinners /\ digest' = 0 /\ batch' = 0 /\ at' = 1
  /\ UNCHANGED <<build, faults, files>>

\* run_sustained fails before deployment without a current confirmation.
RunSustained ==
  /\ build = deployed
  /\ cmd' \in {c \in Commands : \A k \in c.roofs : Best(confirmed, k) # None}
  /\ Open("select")

\* run_plan.
RunPlan == cmd' \in Commands /\ Open("confirm")

\* sustain takes the winners among some configurations, and digests its runner.
SelectAmong(groups) ==
  /\ winners' = [k \in RoofSet |->
       IF k \in cmd.roofs \/ cmd.roofs = {} THEN Best(groups, k) ELSE None]
  /\ digest' = build /\ batch' = 0 /\ at' = 1 /\ pc' = "next"
  /\ UNCHANGED cmd

\* The confirmation adds groups among this run's candidates, and sustain selects
\* among those candidates only (confirmation_configs); or the plan ends here.
Confirm ==
  /\ pc = "confirm"
  /\ \E new \in SUBSET Refs, others \in SUBSET confirmed :
       LET candidates == {ConfigOf[g] : g \in new \cup others} IN
       /\ confirmed' = confirmed \cup new
       /\ \/ /\ candidates # {}
             /\ SelectAmong({g \in confirmed' : ConfigOf[g] \in candidates})
          \/ Leave
  /\ UNCHANGED <<build, deployed, sessions, faults, files>>

\* The `sustain` command selects among all that is confirmed.
Select ==
  /\ pc = "select" /\ SelectAmong(confirmed)
  /\ UNCHANGED <<build, deployed, confirmed, sessions, faults, files>>

-----------------------------------------------------------------------------
(* The loops of sustain. *)

Keep == UNCHANGED <<build, deployed, confirmed, sessions>>

\* Mutant of Due: the directories do not tell batches apart.
DueUnnumbered(phase) ==
  [phase |-> phase, batch |-> 0, group |-> winners[Roofs[at]],
   duration |-> IF phase = "long" THEN cmd.duration ELSE 0,
   runner |-> digest, reference |-> deployed]

\* The configuration of the roof that is due, in the preflight and in the long run.
Due(phase) ==
  [phase |-> phase, batch |-> batch, group |-> winners[Roofs[at]],
   duration |-> IF phase = "long" THEN cmd.duration ELSE 0,
   runner |-> digest, reference |-> deployed]

Stored(f) == {r \in rows : r.file = f}

\* The search for finished rows: not excluded in this session.
Done == \E r \in Stored(Due("long")) : Current(r.file, deployed) /\ r.outcome = "steady"

Advance ==
  /\ pc' = "next" /\ UNCHANGED locals
  /\ IF at < Len(Roofs) THEN at' = at + 1 /\ UNCHANGED batch
                        ELSE at' = 1 /\ batch' = batch + 1

Finish ==
  /\ pc = "next" /\ batch = cmd.batches
  /\ pc' = "finished" /\ UNCHANGED <<faults, locals, where, files>> /\ Keep

Waiting == pc = "next" /\ batch < cmd.batches

Skip ==
  /\ Waiting /\ (winners[Roofs[at]] = None \/ Done)
  /\ Advance /\ UNCHANGED <<faults, files>> /\ Keep

\* path.exists() in Session.run.
Cached(f) == Stored(f)

\* Session.run returns what the file holds, or measures and replaces what it holds.
Run(f, outcome) ==
  \/ (\E r \in Cached(f) : r.outcome = outcome) /\ UNCHANGED <<faults, files>>
  \/ /\ Cached(f) = {} /\ f \notin raw
     /\ faults' = IF outcome = "steady" THEN faults ELSE faults + 1
     /\ faults' <= MaxFaults
     /\ rows' = (rows \ Stored(f)) \cup
                  {[file |-> f, outcome |-> outcome, ran |-> deployed]}
     /\ UNCHANGED raw

\* Mutant of AfterPreflight: a rejected preflight is repeated.
AfterPreflightAgain(outcome) ==
  /\ pc' = IF outcome = "rejected" THEN "next" ELSE "long"
  /\ UNCHANGED <<locals, where>>

\* if not preflight["accepted"]: raise
AfterPreflight(outcome) ==
  IF outcome = "rejected" THEN Leave ELSE pc' = "long" /\ UNCHANGED <<locals, where>>

Preflight ==
  /\ Waiting /\ winners[Roofs[at]] # None /\ ~Done
  /\ \E o \in {"rejected", "steady"} : Run(Due("preflight"), o) /\ AfterPreflight(o)
  /\ Keep

\* The long row is stored whatever it says; a fault or a lost device then ends sustain.
Long ==
  /\ pc = "long"
  /\ \E o \in Outcomes :
       /\ Run(Due("long"), o)
       /\ Advance \/ (o = "rejected" /\ rows' # rows /\ Leave)
  /\ Keep

\* What Session.run is called for next.
Called == IF pc = "long" THEN Due("long") ELSE Due("preflight")
Calling == pc = "long" \/ (Waiting /\ winners[Roofs[at]] # None /\ ~Done)

\* Session.run refuses a configuration whose raw file was left unfinished.
Refuse ==
  /\ Calling /\ Called \in raw /\ Cached(Called) = {}
  /\ Leave /\ UNCHANGED <<faults, files>> /\ Keep

\* An interrupt, a kill or a time limit, before or during a measurement.
Break ==
  /\ pc \in Running /\ faults < MaxFaults
  /\ faults' = faults + 1 /\ Leave
  /\ raw' = raw \/ (Calling /\ Cached(Called) = {} /\ raw' = raw \cup {Called})
  /\ UNCHANGED rows /\ Keep

\* The user moves an unfinished raw file aside.
MoveAside ==
  /\ pc \notin Running
  /\ \E f \in raw : raw' = raw \ {f}
  /\ UNCHANGED <<faults, pc, locals, where, rows>> /\ Keep

Step == Confirm \/ Select \/ Finish \/ Skip \/ Preflight \/ Long \/ Refuse

Next == Build \/ RunSustained \/ RunPlan \/ Step \/ Break \/ MoveAside

\* Cooldowns are finite and a runner that measures has a time limit.
Spec == Init /\ [][Next]_vars /\ WF_vars(Step)

-----------------------------------------------------------------------------
(* Properties. *)

TypeOK ==
  /\ build \in Versions /\ deployed \in Versions /\ digest \in Versions
  /\ confirmed \in SUBSET Refs
  /\ sessions \in 0..MaxSessions /\ faults \in 0..MaxFaults
  /\ pc \in Running \cup {"off", "finished"}
  /\ cmd \in Commands \cup {NoCommand}
  /\ winners \in [RoofSet -> Refs \cup {None}]
  /\ batch \in 0..cmd.batches /\ at \in DOMAIN Roofs
  /\ rows \in SUBSET Row /\ raw \in SUBSET File

\* Long measurements of group g for a duration by the deployed runner, with an outcome.
Ran(g, d, outcome) ==
  {r \in rows :
     /\ r.file.phase = "long" /\ r.file.group = g /\ r.file.duration = d
     /\ r.outcome = outcome /\ r.ran = deployed}

\* A roof is published as sustained only if the runner the manifest names held the
\* configuration that is confirmed now in enough batches of one duration, and no batch
\* of that duration that names the runner was unsteady (METHODOLOGY.md "Sustained values replace short-run
\* roofs only with at least three distinct batches ... all stable and linked").  A build
\* between the deployment and sustain, which then names a runner that the device does
\* not have, must not matter.
BasisIsEarned ==
  MaySustain =>
    \A k \in RoofSet : \E g \in Refs, d \in Durations :
      /\ Best(confirmed, k) # None /\ ConfigOf[g] = ConfigOf[Best(confirmed, k)]
      /\ Cardinality({r.file.batch : r \in Ran(g, d, "steady")}) >= MinBatches
      /\ \A r \in Ran(g, d, "unsteady") : ~Current(r.file, deployed)

PreflightOf(f) ==
  [phase |-> "preflight", batch |-> f.batch, group |-> f.group, duration |-> 0,
   runner |-> f.runner, reference |-> f.reference]

\* Every long measurement follows an accepted preflight of its batch, configuration and
\* build, over any number of commands: after a rejected one it never happens.
PreflightFirst ==
  \A r \in rows : r.file.phase = "long" =>
    \E q \in rows :
      q.file = PreflightOf(r.file) /\ q.outcome # "rejected"

\* A sustain that ends normally has a result for every selected roof in every batch,
\* whatever earlier commands left behind.
FinishedIsComplete ==
  pc = "finished" =>
    \A n \in 0..(cmd.batches - 1), k \in RoofSet : winners[k] # None =>
      \E r \in rows :
        /\ r.file.phase = "long" /\ r.file.batch = n /\ r.file.group = winners[k]
        /\ r.file.duration = cmd.duration /\ r.ran = deployed

\* The effort pays: enough batches of every roof that is confirmed now, without a build
\* in between and with nothing unsteady or rejected, make the report sustained, whatever
\* other durations and groups were measured before.
SteadyRunCounts ==
  /\ pc = "finished" /\ cmd.batches >= MinBatches /\ digest = deployed
  /\ \A k \in RoofSet : winners[k] # None /\ winners[k] = Best(confirmed, k)
  /\ \A r \in rows : r.file.phase = "long" => r.outcome = "steady"
  => MustSustain

\* An unsteady batch is not measured again until it is steady: a row of a long
\* measurement is never replaced or removed.
AttemptsStay == [][\A r \in rows : r.file.phase = "long" => r \in rows']_vars

\* Every command ends, with preflights that fail and files that block it.
SustainEnds == pc \in Running ~> pc \notin Running
=============================================================================
