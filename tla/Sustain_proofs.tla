----------------------------- MODULE Sustain_proofs -----------------------------
(***************************************************************************)
(* Sustained runs for any roofs, groups, durations and numbers of batches, *)
(* any number of builds, commands and faults: types, no long measurement   *)
(* without its accepted preflight, no row replaced, complete results of a  *)
(* command that ends normally, a sustained report that was earned, and one *)
(* that a complete and steady measurement makes.                           *)
(*                                                                         *)
(* Inductive are: the version that a row ran is the one its configuration  *)
(* names as reference (the session deploys both runners together, and the  *)
(* command that measures is the one that deployed), and the positions of   *)
(* the loops that were passed have their rows.                             *)
(***************************************************************************)
EXTENDS Sustain, FiniteSetTheorems, WellFoundedInduction, TLAPS

\* The files are those of configurations, and tell what ran.
RowsNameReference == \A r \in rows : r.ran = r.file.reference

LongHasDuration == \A r \in rows : r.file.phase = "long" => r.file.duration \in Durations

\* What is said of the files alone.
Files ==
  /\ rows \in SUBSET Row /\ raw \in SUBSET File /\ IsFiniteSet(rows)
  /\ RowsNameReference /\ LongHasDuration /\ PreflightFirst

\* A command in progress has settings.
Settings ==
  /\ pc \in Running \cup {"finished"} => cmd \in Commands
  /\ pc = "long" =>
       /\ batch < cmd.batches /\ winners[Roofs[at]] # None
       /\ \E q \in rows : q.file = Due("preflight") /\ q.outcome # "rejected"

\* The long result of a group in a batch, for a duration, by a runner that ran and the one
\* that its configuration names.
Has(stored, n, group, duration, ran, named) ==
  \E r \in stored :
    /\ r.file.phase = "long" /\ r.file.batch = n /\ r.file.group = group
    /\ r.file.duration = duration /\ r.ran = ran
    /\ r.file.reference = ran /\ r.file.runner = named

\* The positions that the loops have passed have their results.
Passed ==
  pc \in {"next", "long", "finished"} =>
    /\ \A n \in 0..(batch - 1), k \in RoofSet :
         winners[k] # None => Has(rows, n, winners[k], cmd.duration, deployed, digest)
    /\ \A i \in 1..(at - 1) : winners[Roofs[i]] # None =>
         Has(rows, batch, winners[Roofs[i]], cmd.duration, deployed, digest)
    /\ pc = "finished" => batch = cmd.batches

Control ==
  /\ build \in Versions /\ deployed \in Versions /\ digest \in Versions
  /\ confirmed \in SUBSET Refs
  /\ sessions \in 0..MaxSessions /\ faults \in 0..MaxFaults
  /\ pc \in Running \cup {"off", "finished"}
  /\ cmd \in Commands \cup {NoCommand}
  /\ winners \in [RoofSet -> Refs \cup {None}]
  /\ batch \in 0..cmd.batches /\ at \in DOMAIN Roofs

IInv == Files /\ Control /\ Settings /\ Passed

LEMMA BestType ==
  ASSUME NEW groups \in SUBSET Refs, NEW k
  PROVE  Best(groups, k) \in Refs \cup {None}
  BY DEF Best

LEMMA RoofsFacts ==
  /\ Len(Roofs) \in Nat \ {0} /\ DOMAIN Roofs = 1..Len(Roofs)
  /\ \A i \in 1..Len(Roofs) : Roofs[i] \in RoofSet
  BY ConstantsAssumption DEF RoofSet

LEMMA CommandType ==
  ASSUME NEW c \in Commands
  PROVE  c.batches \in Nat \ {0} /\ c.duration \in Durations
  BY ConstantsAssumption DEF Commands

LEMMA BatchesType ==
  ASSUME NEW c \in Commands \cup {NoCommand}
  PROVE  c.batches \in Nat
  BY CommandType DEF NoCommand

LEMMA InitIInv == Init => IInv
<1> SUFFICES ASSUME Init PROVE IInv
  OBVIOUS
<1>1. Control
  BY ConstantsAssumption, RoofsFacts
  DEF Init, Control, Versions, NoCommand, NoWinners, Running
<1>2. Files
  BY FS_EmptySet DEF Init, Files, RowsNameReference, LongHasDuration, PreflightFirst
<1> QED
  BY <1>1, <1>2 DEF Init, IInv, Settings, Passed, Running

\* The process ends: nothing is said of a command any more.
LEMMA LeaveKeeps ==
  ASSUME IInv, Leave, Files', UNCHANGED <<build, deployed, confirmed, sessions>>
  PROVE  faults' \in 0..MaxFaults => IInv'
<1> SUFFICES ASSUME faults' \in 0..MaxFaults PROVE IInv'
  OBVIOUS
<1>1. Control'
  BY ConstantsAssumption, RoofsFacts DEF IInv, Control, Leave, Versions, NoCommand, NoWinners
<1> QED BY <1>1 DEF IInv, Leave, Settings, Passed, Running

\* A command begins: only its settings and its place in the program are new.
LEMMA OpenKeeps ==
  ASSUME IInv, NEW next \in {"confirm", "select"}, Open(next), cmd' \in Commands
  PROVE  IInv'
<1>1. Files'
  BY DEF IInv, Files, Open, files, RowsNameReference, LongHasDuration, PreflightFirst
<1>2. cmd'.batches \in Nat
  BY CommandType
<1>3. sessions' \in 0..MaxSessions
  BY ConstantsAssumption DEF IInv, Control, Open
<1>4. Control'
  BY <1>2, <1>3, RoofsFacts, ConstantsAssumption DEF IInv, Control, Open, NoWinners, files, Versions, Running
<1> QED BY <1>1, <1>4 DEF IInv, Open, Settings, Passed, Running

\* The loops begin at their first position.
LEMMA SelectKeeps ==
  ASSUME IInv, pc \in {"confirm", "select"}, NEW groups \in SUBSET Refs,
         SelectAmong(groups), confirmed' \in SUBSET Refs,
         UNCHANGED <<build, deployed, sessions, faults, files>>
  PROVE  IInv'
<1>1. Files'
  BY DEF IInv, Files, files, RowsNameReference, LongHasDuration, PreflightFirst
<1>2. cmd \in Commands /\ cmd' = cmd
  BY DEF IInv, Settings, Running, SelectAmong
<1>3. winners' \in [RoofSet -> Refs \cup {None}]
  BY BestType DEF SelectAmong
<1>4. Control'
  BY <1>2, <1>3, CommandType, RoofsFacts DEF IInv, Control, SelectAmong, Versions, Running
<1>5. pc' = "next" /\ batch' = 0 /\ at' = 1
  BY DEF SelectAmong
<1>6. Settings'
  BY <1>2, <1>5 DEF Settings
<1>7. Passed'
  BY <1>5 DEF Passed
<1> QED BY <1>1, <1>4, <1>6, <1>7 DEF IInv

\* Session.run adds a row, or finds it, and the row tells what the device has run.
LEMMA RunKeeps ==
  ASSUME IInv, NEW phase \in {"preflight", "long"}, NEW outcome \in Outcomes,
         cmd \in Commands, winners[Roofs[at]] \in Refs, Run(Due(phase), outcome),
         phase = "long" =>
           \E q \in rows : q.file = Due("preflight") /\ q.outcome # "rejected",
         deployed' = deployed
  PROVE  /\ Files' /\ rows \subseteq rows' /\ faults' \in 0..MaxFaults
         /\ \E r \in rows' : /\ r.file = Due(phase) /\ r.outcome = outcome
                             /\ r.ran = deployed
<1> DEFINE f == Due(phase)
           new == [file |-> f, outcome |-> outcome, ran |-> deployed]
<1>1. f \in File /\ f.phase = phase /\ f.reference = deployed
      /\ (phase = "long" => f.duration \in Durations)
  BY RoofsFacts, CommandType, BatchesType DEF IInv, Control, Due, File
<1>2. CASE (\E r \in Cached(f) : r.outcome = outcome) /\ UNCHANGED <<faults, files>>
  <2>1. Files'
    BY <1>2 DEF IInv, Files, files, RowsNameReference, LongHasDuration, PreflightFirst
  <2>2. PICK r \in rows : r.file = f /\ r.outcome = outcome
    BY <1>2 DEF Cached, Stored
  <2>3. r.ran = deployed
    BY <1>1, <2>2 DEF IInv, Files, RowsNameReference
  <2> HIDE DEF f
  <2> QED BY <1>2, <2>1, <2>2, <2>3 DEF files, IInv, Control, f
<1>3. CASE /\ Cached(f) = {} /\ f \notin raw
           /\ faults' = IF outcome = "steady" THEN faults ELSE faults + 1
           /\ faults' <= MaxFaults
           /\ rows' = (rows \ Stored(f)) \cup {new}
           /\ UNCHANGED raw
  <2>1. rows' = rows \cup {new}
    BY <1>3 DEF Cached
  <2>2. new \in Row /\ new.file = f /\ new.outcome = outcome /\ new.ran = deployed
    BY <1>1 DEF Row, IInv, Control
  <2>3. faults' \in 0..MaxFaults
    BY <1>3, ConstantsAssumption DEF IInv, Control
  <2>4. IsFiniteSet(rows')
    BY <2>1, FS_AddElement DEF IInv, Files
  <2>5. RowsNameReference' /\ LongHasDuration'
    <3> HIDE DEF f, new
    <3> QED BY <1>1, <2>1, <2>2 DEF IInv, Files, RowsNameReference, LongHasDuration
  <2>6. PreflightFirst'
    <3> SUFFICES ASSUME NEW r \in rows', r.file.phase = "long"
                 PROVE  \E q \in rows' :
                          q.file = PreflightOf(r.file) /\ q.outcome # "rejected"
      BY DEF PreflightFirst
    <3>1. CASE r \in rows
      BY <2>1, <3>1 DEF IInv, Files, PreflightFirst
    <3>2. CASE r = new
      <4>1. phase = "long"
        BY <1>1, <2>2, <3>2
      <4>2. PreflightOf(f) = Due("preflight")
        BY <4>1 DEF Due, PreflightOf
      <4> HIDE DEF f, new
      <4> QED BY <2>1, <2>2, <3>2, <4>1, <4>2
    <3> QED BY <2>1, <3>1, <3>2
  <2>7. rows' \in SUBSET Row /\ raw' \in SUBSET File
    BY <1>3, <2>1, <2>2 DEF IInv, Files
  <2>8. Files'
    BY <2>4, <2>5, <2>6, <2>7 DEF Files
  <2> HIDE DEF f, new
  <2> QED BY <2>1, <2>2, <2>3, <2>8 DEF f
<1> QED BY <1>2, <1>3 DEF Run

\* The loops go on when the position has its result or no roof.
LEMMA AdvanceKeeps ==
  ASSUME IInv, pc \in {"next", "long"}, batch < cmd.batches, cmd \in Commands, Advance,
         winners[Roofs[at]] # None =>
           \E r \in rows' : /\ r.file = Due("long") /\ r.ran = deployed,
         Files', rows \subseteq rows', faults' \in 0..MaxFaults,
         UNCHANGED <<build, deployed, confirmed, sessions>>
  PROVE  IInv'
<1>1. batch \in Nat /\ at \in 1..Len(Roofs) /\ Len(Roofs) \in Nat \ {0}
      /\ cmd.batches \in Nat
  BY RoofsFacts, CommandType DEF IInv, Control
<1>2. pc' = "next" /\ UNCHANGED <<cmd, winners, digest>>
  BY DEF Advance, locals
<1>3. \/ at < Len(Roofs) /\ at' = at + 1 /\ batch' = batch
      \/ at = Len(Roofs) /\ at' = 1 /\ batch' = batch + 1
  BY <1>1 DEF Advance
<1>4. Control'
  BY <1>1, <1>2, <1>3, RoofsFacts DEF IInv, Control, Running
<1>5. Settings'
  BY <1>2 DEF Settings
<1>6. winners[Roofs[at]] # None =>
        Has(rows', batch, winners[Roofs[at]], cmd.duration, deployed, digest)
  BY DEF Has, Due
<1>7. \A n, g, d, v, w : Has(rows, n, g, d, v, w) => Has(rows', n, g, d, v, w)
  BY DEF Has
<1>8. \A n \in 0..(batch - 1), k \in RoofSet :
        winners[k] # None => Has(rows', n, winners[k], cmd.duration, deployed, digest)
  BY <1>7 DEF IInv, Passed
<1>9. \A i \in 1..at : winners[Roofs[i]] # None =>
        Has(rows', batch, winners[Roofs[i]], cmd.duration, deployed, digest)
  <2> TAKE i \in 1..at
  <2>1. i \in 1..(at - 1) \/ i = at
    BY <1>1
  <2> QED BY <1>6, <1>7, <2>1 DEF IInv, Passed
<1>10. Passed'
  <2>1. CASE at < Len(Roofs) /\ at' = at + 1 /\ batch' = batch
    <3>1. at' - 1 = at
      BY <1>1, <2>1
    <3> QED BY <1>2, <1>8, <1>9, <2>1, <3>1 DEF Passed
  <2>2. CASE at = Len(Roofs) /\ at' = 1 /\ batch' = batch + 1
    <3>1. \A k \in RoofSet : winners[k] # None =>
            Has(rows', batch, winners[k], cmd.duration, deployed, digest)
      BY <1>9, <2>2, RoofsFacts DEF RoofSet
    <3>2. \A n \in 0..(batch' - 1) : n \in 0..(batch - 1) \/ n = batch
      BY <1>1, <2>2
    <3> QED BY <1>2, <1>8, <2>2, <3>1, <3>2 DEF Passed
  <2> QED BY <1>3, <2>1, <2>2
<1> QED BY <1>4, <1>5, <1>10 DEF IInv

LEMMA StepKeeps ==
  ASSUME IInv, Step
  PROVE  IInv'
<1>1. CASE Confirm
  <2>1. PICK new \in SUBSET Refs, others \in SUBSET confirmed :
          LET candidates == {ConfigOf[g] : g \in new \cup others} IN
          /\ confirmed' = confirmed \cup new
          /\ \/ /\ candidates # {}
                /\ SelectAmong({g \in confirmed' : ConfigOf[g] \in candidates})
             \/ Leave
    BY <1>1 DEF Confirm
  <2>2. pc = "confirm" /\ UNCHANGED <<build, deployed, sessions, faults, files>>
        /\ confirmed' \in SUBSET Refs
    BY <1>1, <2>1 DEF Confirm, IInv, Control
  <2>3. CASE Leave
    <3>1. Files'
      BY <2>2 DEF IInv, Files, files, RowsNameReference, LongHasDuration, PreflightFirst
    <3>2. Control'
      BY <2>2, <2>3, ConstantsAssumption, RoofsFacts
      DEF IInv, Control, Leave, Versions, NoCommand, NoWinners
    <3> QED BY <2>3, <3>1, <3>2 DEF IInv, Leave, Settings, Passed, Running
  <2>4. CASE SelectAmong({g \in confirmed' : ConfigOf[g] \in
                             {ConfigOf[h] : h \in new \cup others}})
    BY <2>2, <2>4, SelectKeeps
  <2> QED BY <2>1, <2>3, <2>4
<1>2. CASE Select
  BY <1>2, SelectKeeps DEF Select, IInv, Control
<1>3. CASE Finish
  <2>1. Files'
    BY <1>3 DEF Finish, IInv, Files, files, RowsNameReference, LongHasDuration, PreflightFirst
  <2>2. Control'
    BY <1>3 DEF Finish, IInv, Control, Keep, locals, where
  <2>3. Settings' /\ Passed'
    BY <1>3 DEF Finish, IInv, Settings, Passed, Keep, locals, where, files, Running
  <2> QED BY <2>1, <2>2, <2>3 DEF IInv
<1>4. CASE Skip
  <2>1. pc = "next" /\ batch < cmd.batches /\ cmd \in Commands /\ Advance
        /\ UNCHANGED <<faults, rows, raw, build, deployed, confirmed, sessions>>
    BY <1>4 DEF Skip, Waiting, IInv, Settings, Running, files, Keep
  <2>2. Files'
    BY <2>1 DEF IInv, Files, RowsNameReference, LongHasDuration, PreflightFirst
  <2>3. winners[Roofs[at]] # None =>
          \E r \in rows' : r.file = Due("long") /\ r.ran = deployed
    BY <1>4, <2>1
    DEF Skip, Done, Stored, Current, IInv, Files, RowsNameReference
  <2>4. faults' \in 0..MaxFaults
    BY <2>1 DEF IInv, Control
  <2> QED BY <2>1, <2>2, <2>3, <2>4, AdvanceKeeps
<1>5. CASE Preflight
  <2>1. PICK o \in {"rejected", "steady"} : Run(Due("preflight"), o) /\ AfterPreflight(o)
    BY <1>5 DEF Preflight
  <2>2. pc = "next" /\ batch < cmd.batches /\ cmd \in Commands
        /\ winners[Roofs[at]] \in Refs
        /\ UNCHANGED <<build, deployed, confirmed, sessions>>
    BY <1>5, RoofsFacts
    DEF Preflight, Waiting, IInv, Settings, Control, Running, Keep
  <2>3. /\ Files' /\ rows \subseteq rows' /\ faults' \in 0..MaxFaults
        /\ \E r \in rows' : r.file = Due("preflight") /\ r.outcome = o /\ r.ran = deployed
    BY <2>1, <2>2, RunKeeps DEF Outcomes
  <2>4. CASE o = "rejected"
    BY <2>1, <2>2, <2>3, <2>4, LeaveKeeps DEF AfterPreflight
  <2>5. CASE o = "steady"
    <3>1. pc' = "long" /\ UNCHANGED <<cmd, winners, digest, batch, at>>
      BY <2>1, <2>5 DEF AfterPreflight, locals, where
    <3>2. Control'
      BY <2>2, <2>3, <3>1 DEF IInv, Control, Running
    <3>3. Due("preflight")' = Due("preflight")
      BY <2>2, <3>1 DEF Due
    <3>4. Settings'
      BY <2>2, <2>3, <2>5, <3>1, <3>3, ConstantsAssumption DEF Settings
    <3>5. \A n, g, d, v, w : Has(rows, n, g, d, v, w) => Has(rows', n, g, d, v, w)
      BY <2>3 DEF Has
    <3>6. Passed'
      BY <2>2, <3>1, <3>5 DEF IInv, Passed
    <3> QED BY <2>3, <3>2, <3>4, <3>6 DEF IInv
  <2> QED BY <2>4, <2>5
<1>6. CASE Long
  <2>1. PICK o \in Outcomes :
          Run(Due("long"), o) /\ (Advance \/ (o = "rejected" /\ rows' # rows /\ Leave))
    BY <1>6 DEF Long
  <2>2. /\ pc = "long" /\ batch < cmd.batches /\ cmd \in Commands
        /\ winners[Roofs[at]] \in Refs
        /\ UNCHANGED <<build, deployed, confirmed, sessions>>
        /\ \E q \in rows : q.file = Due("preflight") /\ q.outcome # "rejected"
    BY <1>6, RoofsFacts DEF Long, IInv, Settings, Control, Running, Keep
  <2>3. /\ Files' /\ rows \subseteq rows' /\ faults' \in 0..MaxFaults
        /\ \E r \in rows' : r.file = Due("long") /\ r.outcome = o /\ r.ran = deployed
    BY <2>1, <2>2, RunKeeps
  <2>4. CASE Advance
    BY <2>2, <2>3, <2>4, AdvanceKeeps
  <2>5. CASE Leave
    BY <2>2, <2>3, <2>5, LeaveKeeps
  <2> QED BY <2>1, <2>4, <2>5
<1>7. CASE Refuse
  <2>1. Files' /\ faults' \in 0..MaxFaults
    BY <1>7
    DEF Refuse, IInv, Control, Files, files, RowsNameReference, LongHasDuration,
        PreflightFirst
  <2> QED BY <1>7, <2>1, LeaveKeeps DEF Refuse, Keep
<1> QED BY <1>1, <1>2, <1>3, <1>4, <1>5, <1>6, <1>7 DEF Step

LEMMA NextIInv == IInv /\ [Next]_vars => IInv'
<1> SUFFICES ASSUME IInv, [Next]_vars PROVE IInv'
  OBVIOUS
<1>1. CASE Build
  <2>1. Files'
    BY <1>1 DEF Build, IInv, Files, files, RowsNameReference, LongHasDuration, PreflightFirst
  <2>2. Control'
    BY <1>1, ConstantsAssumption DEF Build, IInv, Control, Versions, locals, where
  <2>3. Settings' /\ Passed'
    BY <1>1 DEF Build, IInv, Settings, Passed, locals, where, files
  <2> QED BY <2>1, <2>2, <2>3 DEF IInv
<1>2. CASE RunSustained
  BY <1>2, OpenKeeps DEF RunSustained
<1>3. CASE RunPlan
  BY <1>3, OpenKeeps DEF RunPlan
<1>4. CASE Step
  BY <1>4, StepKeeps
<1>5. CASE Break
  <2>1. faults' \in 0..MaxFaults
    BY <1>5, ConstantsAssumption DEF Break, IInv, Control
  <2>2. Calling => Called \in File
    <3> SUFFICES ASSUME Calling PROVE Called \in File
      OBVIOUS
    <3>1. cmd \in Commands /\ winners[Roofs[at]] \in Refs
      BY RoofsFacts DEF Calling, Waiting, IInv, Settings, Control, Running
    <3>2. \A phase \in {"preflight", "long"} : Due(phase) \in File
      BY <3>1, RoofsFacts, CommandType, BatchesType DEF IInv, Control, Due, File
    <3> QED BY <3>2 DEF Called
  <2>3. Files'
    BY <1>5, <2>2
    DEF Break, IInv, Files, RowsNameReference, LongHasDuration, PreflightFirst
  <2> QED BY <1>5, <2>1, <2>3, LeaveKeeps DEF Break, Keep
<1>6. CASE MoveAside
  <2>1. Files'
    BY <1>6
    DEF MoveAside, IInv, Files, RowsNameReference, LongHasDuration, PreflightFirst
  <2>2. Control'
    BY <1>6 DEF MoveAside, IInv, Control, Keep, locals, where
  <2>3. pc # "long" /\ UNCHANGED <<pc, cmd, winners, digest, batch, at, rows, deployed>>
    BY <1>6 DEF MoveAside, Running, Keep, locals, where
  <2>4. Settings'
    BY <2>3 DEF IInv, Settings
  <2>5. Passed'
    BY <2>3 DEF IInv, Passed
  <2> QED BY <2>1, <2>2, <2>4, <2>5 DEF IInv
<1>7. CASE UNCHANGED vars
  <2>1. Files'
    BY <1>7 DEF vars, IInv, Files, files, RowsNameReference, LongHasDuration, PreflightFirst
  <2>2. Control'
    BY <1>7 DEF vars, IInv, Control, locals, where
  <2>3. UNCHANGED <<pc, cmd, winners, digest, batch, at, rows, deployed>>
    BY <1>7 DEF vars, locals, where, files
  <2>4. Settings'
    BY <2>3 DEF IInv, Settings, Due
  <2>5. Passed'
    BY <2>3 DEF IInv, Passed
  <2> QED BY <2>1, <2>2, <2>4, <2>5 DEF IInv
<1> QED BY <1>1, <1>2, <1>3, <1>4, <1>5, <1>6, <1>7 DEF Next

LEMMA Invariance == Spec => []IInv
<1> QED BY InitIInv, NextIInv, PTL DEF Spec

-----------------------------------------------------------------------------
(* Theorems. *)

\* The state keeps its types, for any bounds.
THEOREM TypeCorrect == Spec => []TypeOK
<1>1. IInv => TypeOK
  BY DEF IInv, Files, Control, TypeOK
<1> QED BY <1>1, Invariance, PTL

\* No long measurement was made without an accepted preflight of its batch,
\* configuration and build.
THEOREM PreflightsFirst == Spec => []PreflightFirst
<1>1. IInv => PreflightFirst
  BY DEF IInv, Files
<1> QED BY <1>1, Invariance, PTL

\* A sustain that ends normally has a result of every selected roof in every batch.
THEOREM FinishedComplete == Spec => []FinishedIsComplete
<1>1. ASSUME IInv PROVE FinishedIsComplete
  <2> SUFFICES ASSUME pc = "finished", NEW n \in 0..(cmd.batches - 1), NEW k \in RoofSet,
                      winners[k] # None
               PROVE  Has(rows, n, winners[k], cmd.duration, deployed, digest)
    BY DEF FinishedIsComplete, Has
  <2> QED BY <1>1 DEF IInv, Passed
<1> QED BY <1>1, Invariance, PTL

\* What sustain adds to its results it only adds.
LEMMA RowsGrow == IInv /\ [Next]_vars => rows \subseteq rows'
<1> SUFFICES ASSUME IInv, [Next]_vars PROVE rows \subseteq rows'
  OBVIOUS
<1>1. CASE Preflight \/ Long
  <2>1. \A f, o : Run(f, o) => rows \subseteq rows'
    BY DEF Run, Cached, files
  <2> QED BY <1>1, <2>1 DEF Preflight, Long
<1>2. CASE ~(Preflight \/ Long)
  BY <1>2
  DEF Next, Step, Build, RunSustained, RunPlan, Open, Confirm, Select, Finish, Skip, Refuse,
      Break, MoveAside, vars, files
<1> QED BY <1>1, <1>2

\* No row of a long measurement is ever replaced or removed.
THEOREM AttemptsKept == Spec => AttemptsStay
<1>1. IInv /\ [Next]_vars => [\A r \in rows : r.file.phase = "long" => r \in rows']_vars
  BY RowsGrow
<1> QED BY <1>1, Invariance, PTL DEF Spec, AttemptsStay

\* A sustained report was earned by the deployed runner, whatever was built, interrupted
\* and measured for other durations and configurations.
THEOREM BasisEarned == Spec => []BasisIsEarned
<1>1. ASSUME IInv PROVE BasisIsEarned
  <2> SUFFICES ASSUME MaySustain, NEW k \in RoofSet
               PROVE  \E g \in Refs, d \in Durations :
                 /\ Best(confirmed, k) # None /\ ConfigOf[g] = ConfigOf[Best(confirmed, k)]
                 /\ Cardinality({r.file.batch : r \in Ran(g, d, "steady")}) >= MinBatches
                 /\ \A r \in Ran(g, d, "unsteady") : ~Current(r.file, deployed)
    BY DEF BasisIsEarned
  <2> DEFINE of == {r \in rows : Counted(r) /\ RoofOf[r.file.group] = k}
  <2>1. PICK c \in Cohorts(k) : Complete(c)
    BY DEF MaySustain, Published
  <2>2. PICK s \in of : c = {r \in of : Identity(r.file) = Identity(s.file)}
    BY <2>1 DEF Cohorts
  <2> DEFINE g == s.file.group
             d == s.file.duration
  <2>3. g \in Refs /\ d \in Durations
    BY <1>1 DEF IInv, Files, LongHasDuration, Counted, Row, File
  <2>4. Best(confirmed, k) # None /\ ConfigOf[g] = ConfigOf[Best(confirmed, k)]
    BY DEF Counted, Linked
  <2>5. c \subseteq Ran(g, d, "steady")
    <3> SUFFICES ASSUME NEW r \in c PROVE r \in Ran(g, d, "steady")
      OBVIOUS
    <3>1. r \in rows /\ Counted(r) /\ r.file.group = g /\ r.file.duration = d
      BY <2>2 DEF Identity
    <3>2. r.outcome = "steady"
      BY <2>1 DEF Complete
    <3>3. r.ran = deployed
      BY <1>1, <3>1 DEF IInv, Files, RowsNameReference, Counted, Current
    <3> QED BY <3>1, <3>2, <3>3 DEF Ran, Counted
  <2>6. Cardinality({r.file.batch : r \in Ran(g, d, "steady")}) >= MinBatches
    <3> DEFINE all == {r.file.batch : r \in Ran(g, d, "steady")}
    <3>1. IsFiniteSet(Ran(g, d, "steady"))
      BY <1>1, FS_Subset DEF IInv, Files, Ran
    <3>2. IsFiniteSet(all)
      <4> DEFINE numbers == [r \in Ran(g, d, "steady") |-> r.file.batch]
      <4>1. numbers \in Surjection(Ran(g, d, "steady"), all)
        BY DEF Surjection
      <4> QED BY <3>1, <4>1, FS_Surjection
    <3>3. Batches(c) \subseteq all
      BY <2>5 DEF Batches
    <3>4. /\ Cardinality(Batches(c)) \in Nat /\ Cardinality(all) \in Nat
          /\ Cardinality(Batches(c)) <= Cardinality(all)
      <4> HIDE DEF all
      <4> QED BY <3>2, <3>3, FS_Subset, FS_CardinalityType
    <3>5. Cardinality(Batches(c)) >= MinBatches
      BY <2>1 DEF Complete
    <3> HIDE DEF all
    <3> QED BY <3>4, <3>5, ConstantsAssumption DEF all
  <2>7. ASSUME NEW r \in Ran(g, d, "unsteady"), Current(r.file, deployed) PROVE FALSE
    <3>1. r \in of /\ Identity(r.file) = Identity(s.file)
      BY <2>7 DEF Ran, Counted, Linked, Identity
    <3>2. r.outcome = "steady"
      BY <2>1, <2>2, <3>1 DEF Complete
    <3> QED BY <3>2 DEF Ran
  <2> HIDE DEF g, d
  <2> QED BY <2>3, <2>4, <2>6, <2>7
<1> QED BY <1>1, Invariance, PTL
-----------------------------------------------------------------------------
(* A complete and steady measurement. *)

\* A cohort has finitely many batches, no more than there are rows.
LEMMA CohortSize ==
  ASSUME IInv, NEW k, NEW c \in Cohorts(k)
  PROVE  /\ IsFiniteSet(Batches(c)) /\ Cardinality(Batches(c)) \in Nat
         /\ Cardinality(rows) \in Nat /\ Cardinality(Batches(c)) <= Cardinality(rows)
<1>1. c \subseteq rows
  BY DEF Cohorts
<1>2. /\ IsFiniteSet(c) /\ Cardinality(c) \in Nat /\ Cardinality(rows) \in Nat
      /\ Cardinality(c) <= Cardinality(rows)
  BY <1>1, FS_Subset, FS_CardinalityType DEF IInv, Files
<1> DEFINE numbers == [r \in c |-> r.file.batch]
<1>3. numbers \in Surjection(c, Batches(c))
  BY DEF Surjection, Batches
<1>4. /\ IsFiniteSet(Batches(c)) /\ Cardinality(Batches(c)) \in Nat
      /\ Cardinality(Batches(c)) <= Cardinality(c)
  BY <1>2, <1>3, FS_Surjection, FS_CardinalityType
<1> QED BY <1>2, <1>4

\* A set of naturals has a least element.
LEMMA LeastOf ==
  ASSUME NEW T \in SUBSET Nat, T # {}
  PROVE  \E x \in T : \A y \in T : x <= y
<1> DEFINE R == OpToRel(<, Nat)
<1>1. IsWellFoundedOn(R, Nat)
  BY NatLessThanWellFounded
<1>2. \A x, y \in Nat : <<y, x>> \in R <=> y < x
  BY DEF OpToRel
<1> HIDE DEF R
<1>3. PICK x \in T : \A y \in T : ~(<<y, x>> \in R)
  BY <1>1, WFMin
<1>4. ASSUME NEW y \in T PROVE x <= y
  <2>1. x \in Nat /\ y \in Nat /\ ~(y < x)
    BY <1>2, <1>3
  <2> QED BY <2>1
<1> QED BY <1>4

\* Some cohort of a roof has the most batches.
LEMMA MostBatches ==
  ASSUME IInv, NEW k, Cohorts(k) # {}
  PROVE  Published(k) # {}
<1> DEFINE most == Cardinality(rows)
           Left(c) == most - Cardinality(Batches(c))
           left == {Left(c) : c \in Cohorts(k)}
<1>1. \A c \in Cohorts(k) : /\ Cardinality(Batches(c)) \in Nat /\ most \in Nat
                            /\ Cardinality(Batches(c)) <= most
  BY CohortSize
<1> HIDE DEF most
<1>2. left \in SUBSET Nat /\ left # {}
  BY <1>1
<1>3. PICK x \in left : \A y \in left : x <= y
  BY <1>2, LeastOf
<1>4. PICK c \in Cohorts(k) : x = Left(c)
  OBVIOUS
<1>5. ASSUME NEW d \in Cohorts(k) PROVE Cardinality(Batches(d)) <= Cardinality(Batches(c))
  BY <1>1, <1>3, <1>4
<1> QED BY <1>5 DEF Published

\* A command that has ended normally, without a build between its deployment and sustain,
\* has made a cohort with all of its batches for a roof whose winner is confirmed now.
LEMMA FinishedCohort ==
  ASSUME IInv, pc = "finished", digest = deployed, cmd.batches >= MinBatches,
         NEW k \in RoofSet, winners[k] # None, winners[k] = Best(confirmed, k),
         \A r \in rows : r.file.phase = "long" => r.outcome = "steady"
  PROVE  \E c \in Cohorts(k) : Cardinality(Batches(c)) >= MinBatches
<1> DEFINE g == winners[k]
           d == cmd.duration
           of == {r \in rows : Counted(r) /\ RoofOf[r.file.group] = k}
           c == {r \in of : Identity(r.file) = <<g, d>>}
<1>1. RoofOf[g] = k
  BY DEF Best
<1>2. ASSUME NEW n \in 0..(cmd.batches - 1)
      PROVE  \E r \in c : r.file.batch = n
  <2>1. PICK r \in rows :
          /\ r.file.phase = "long" /\ r.file.batch = n /\ r.file.group = g
          /\ r.file.duration = d /\ r.file.reference = deployed /\ r.file.runner = deployed
    BY DEF IInv, Passed, Has
  <2>2. Counted(r)
    <3>1. r.outcome # "rejected" /\ Current(r.file, deployed)
      BY <2>1 DEF Current
    <3>2. Linked(r.file)
      BY <1>1, <2>1 DEF Linked
    <3> QED BY <2>1, <3>1, <3>2 DEF Counted
  <2> QED BY <1>1, <2>1, <2>2 DEF Identity
<1>3. cmd.batches \in Nat \ {0} /\ MinBatches \in Nat \ {0}
  BY CommandType, ConstantsAssumption DEF IInv, Settings
<1>4. c \in Cohorts(k)
  <2>1. PICK s \in c : s.file.batch = 0
    BY <1>2, <1>3
  <2>2. c = {r \in of : Identity(r.file) = Identity(s.file)}
    OBVIOUS
  <2> QED BY <2>2 DEF Cohorts
<1>5. Cardinality(Batches(c)) >= MinBatches
  <2> HIDE DEF c
  <2>1. 0..(cmd.batches - 1) \subseteq Batches(c)
    BY <1>2 DEF Batches
  <2>2. IsFiniteSet(Batches(c))
    <3>1. IsFiniteSet(c)
      BY FS_Subset DEF c, IInv, Files
    <3> DEFINE numbers == [r \in c |-> r.file.batch]
    <3>2. numbers \in Surjection(c, Batches(c))
      BY DEF Surjection, Batches
    <3> QED BY <3>1, <3>2, FS_Surjection
  <2>3. Cardinality(0..(cmd.batches - 1)) = cmd.batches
    BY <1>3, FS_Interval
  <2> DEFINE planned == 0..(cmd.batches - 1)
             made == Batches(c)
  <2>4. Cardinality(planned) <= Cardinality(made) /\ Cardinality(made) \in Nat
    <3>1. planned \in SUBSET made /\ IsFiniteSet(made)
      BY <2>1, <2>2
    <3> HIDE DEF planned, made
    <3> QED BY <3>1, FS_Subset, FS_CardinalityType
  <2> QED BY <1>3, <2>3, <2>4
<1> QED BY <1>4, <1>5

\* Enough batches of every roof that is confirmed now, with nothing unsteady or rejected,
\* make the report sustained, whichever of the longest cohorts it publishes.
THEOREM SteadyCounts == Spec => []SteadyRunCounts
<1>1. ASSUME IInv PROVE SteadyRunCounts
  <2> SUFFICES ASSUME pc = "finished", cmd.batches >= MinBatches, digest = deployed,
                      \A k \in RoofSet : winners[k] # None /\ winners[k] = Best(confirmed, k),
                      \A r \in rows : r.file.phase = "long" => r.outcome = "steady",
                      NEW k \in RoofSet
               PROVE  Published(k) # {} /\ \A c \in Published(k) : Complete(c)
    BY DEF SteadyRunCounts, MustSustain
  <2>1. PICK full \in Cohorts(k) : Cardinality(Batches(full)) >= MinBatches
    BY <1>1, FinishedCohort
  <2>2. Published(k) # {}
    BY <1>1, <2>1, MostBatches
  <2>3. ASSUME NEW c \in Published(k) PROVE Complete(c)
    <3>1. Cardinality(Batches(full)) <= Cardinality(Batches(c)) /\ c \in Cohorts(k)
      BY DEF Published
    <3>2. \A r \in c : r \in rows /\ r.file.phase = "long"
      BY <3>1 DEF Cohorts, Counted
    <3>3. Cardinality(Batches(c)) >= MinBatches
      <4>1. \A e \in Cohorts(k) : Cardinality(Batches(e)) \in Nat
        BY <1>1, CohortSize
      <4> QED BY <2>1, <3>1, <4>1, ConstantsAssumption
    <3> QED BY <3>2, <3>3 DEF Complete
  <2> QED BY <2>2, <2>3
<1> QED BY <1>1, Invariance, PTL
=============================================================================
