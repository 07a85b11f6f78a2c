-------------------------- MODULE Campaign_proofs --------------------------
(***************************************************************************)
(* For any plan, any period of checks and any number of restarts: a slow   *)
(* row survives only where SlowRowsExplained says, a finished plan is      *)
(* bracketed, slow readings join the reference only after half of it had   *)
(* left the fast state, and rows are preserved.                            *)
(***************************************************************************)
EXTENDS Campaign, FiniteSetTheorems, WellFoundedInduction, TLAPS

Busy == {"running", "ended", "observing", "telemetered", "writing", "written"}

\* Where the process stands in the program while it measures a configuration.
PlaceInv ==
  /\ pc \in Busy => at <= Len(Program) /\ Step.op = "run"
  /\ pc \in {"probing", "quarantine"} => at <= Len(Program)
  /\ pc = "probing" /\ probes.edge # "every" => Step.op = "check" /\ Step.edge = probes.edge
  /\ pc = "probing" /\ probes.edge = "every" => Step.op = "run"
  /\ moving # None => pc = "quarantine"
  /\ workflow = "finished" => pc = "off"

\* Times: nothing lies ahead of the clock, a run is younger than the last good
\* probe, and the rows on disk are no younger than the check under way.
TimeInv ==
  /\ guard.lastGood <= clock
  /\ runUtc <= clock
  /\ \A k \in Keys : disk[k].tele <= clock
  /\ pc \in Busy => runUtc > guard.lastGood
  /\ pc \in {"telemetered", "writing"} => disk[Step.key].tele = runUtc
  /\ pc = "probing" => /\ probes.started <= clock
                       /\ \A k \in Keys : disk[k].tele <= probes.started

\* What the fresh end checks of a process guarantee on the way.
BracketInv ==
  /\ pc = "next" /\ at > 1 /\ Program[at - 1] = Check("end") => Younger(guard.lastGood) = {}
  /\ pc \notin {"off", "quarantine"} =>
       \A i \in 1..(at - 1) : Program[i].op = "run" => disk[Program[i].key].row = "done"
  /\ pc \in {"running", "ended", "observing", "telemetered"} => disk[Step.key].row = "none"
  /\ pc = "writing" => disk[Step.key].row = "torn"
  /\ pc = "written" => disk[Step.key].row = "done"
  /\ pc = "probing" /\ probes.edge = "every" => disk[Step.key].row = "done"

\* A slow row that nothing explains yet.
OpenSlow(k) == disk[k].row = "done" /\ disk[k].state = "slow" /\ k \notin untrusted

\* An unexplained slow row means that the device is still slow, so that the check
\* that will judge its interval has only slow readings.
SlowInv ==
  /\ \A k \in Keys : OpenSlow(k) =>
       /\ device = "slow" /\ pc # "off"
       /\ disk[k].tele > guard.lastGood \/ k = moving
  /\ pc \in {"ended", "observing", "telemetered", "writing"} /\ seen = "slow" =>
       device = "slow"
  /\ pc = "probing" /\ (\E i \in DOMAIN probes.list : probes.list[i] > SlowCeiling) =>
       \A k \in Keys : ~OpenSlow(k)

\* The readings below the fast state.
Low(list) == {i \in DOMAIN list : list[i] < FastFloor}

\* A list of more than one reading was called for by a suspicious first reading; while
\* the device is at full speed the low readings are the misread ones.
ProbesInv ==
  /\ pc = "probing" /\ probes.list # <<>> => Degraded(probes.list[1], guard.readings)
  /\ pc = "probing" /\ ~noise.sagged => Cardinality(Low(probes.list)) <= noise.misread
  /\ pc = "probing" => Len(probes.list) < Confirm

IInv ==
  TypeOK /\ PlaceInv /\ TimeInv /\ BracketInv /\ SlowInv /\ ProbesInv /\ DriftNeedsMajority

-----------------------------------------------------------------------------
(* Facts about steps. *)

\* Every position of the program holds a check or a run of a key.
LEMMA StepType ==
  ASSUME NEW i \in 1..Len(Program)
  PROVE  \/ Program[i] = Check("start")
         \/ Program[i] = Check("end")
         \/ \E k \in Keys : Program[i] = Run(k)
  BY ConstantsAssumption

LEMMA StepFields ==
  /\ \A e : Check(e).op = "check" /\ Check(e).edge = e /\ Check(e).key = None
  /\ \A k : Run(k).op = "run" /\ Run(k).edge = None /\ Run(k).key = k
  BY DEF Check, Run

\* A position whose step is a run names a configuration.
LEMMA RunKey ==
  ASSUME NEW i \in 1..Len(Program), Program[i].op = "run"
  PROVE  Program[i].key \in Keys
<1>1. PICK k \in Keys : Program[i] = Run(k)
  BY StepType, StepFields
<1> QED
  BY <1>1, StepFields

-----------------------------------------------------------------------------
(* Readings, ranks and medians. *)

\* The scatter of the fast state lies inside the threshold, the slow state outside.
LEMMA Bands ==
  /\ FastFloor \in Nat /\ FastCeiling \in Nat /\ SlowCeiling \in Nat
  /\ \A r \in Rates : r \in Nat /\ r <= FastCeiling
  /\ 200 * SlowCeiling < 85 * (2 * FastFloor)
  /\ 85 * (2 * FastCeiling) <= 200 * FastFloor
<1>1. /\ FastFloor \in Nat /\ FastCeiling \in Nat /\ SlowCeiling \in Nat
      /\ Rates \subseteq 0..FastCeiling
      /\ 100 * SlowCeiling < 85 * FastFloor /\ 85 * FastCeiling <= 100 * FastFloor
  BY ConstantsAssumption
<1>2. \A r \in Rates : r \in Nat /\ r <= FastCeiling
  BY <1>1
<1>3. /\ 200 * SlowCeiling < 85 * (2 * FastFloor)
      /\ 85 * (2 * FastCeiling) <= 200 * FastFloor
  BY <1>1
<1> QED
  BY <1>1, <1>2, <1>3

\* A set of naturals has a least element.
LEMMA LeastOf ==
  ASSUME NEW T \in SUBSET Nat, T # {}
  PROVE  \E x \in T : \A y \in T : x <= y
<1> DEFINE R == OpToRel(<, Nat)
<1>1. IsWellFoundedOn(R, Nat)
  BY NatLessThanWellFounded
<1>2. \A x, y \in Nat : <<y, x>> \in R <=> y < x
  BY DEF OpToRel
<1> HIDE DEF R
<1>3. PICK x \in T : \A y \in T : ~(<<y, x>> \in R)
  BY <1>1, WFMin
<1>4. \A y \in T : x \in Nat /\ y \in Nat /\ ~(y < x)
  BY <1>2, <1>3
<1> QED
  BY <1>4

\* Positions of a list can be counted.
LEMMA DomainSize ==
  ASSUME NEW list \in Seq(Rates)
  PROVE  /\ Len(list) \in Nat /\ DOMAIN list = 1..Len(list)
         /\ IsFiniteSet(DOMAIN list) /\ Cardinality(DOMAIN list) = Len(list)
<1> DEFINE n == Len(list)
<1>1. n \in Nat /\ DOMAIN list = 1..n
  OBVIOUS
<1> HIDE DEF n
<1>2. IsFiniteSet(1..n) /\ Cardinality(1..n) = IF 1 > n THEN 0 ELSE n - 1 + 1
  BY <1>1, FS_Interval
<1>3. Cardinality(1..n) = n
  BY <1>1, <1>2
<1> QED
  BY <1>1, <1>2, <1>3 DEF n

\* A set of positions is finite and has a size.
LEMMA Positions ==
  ASSUME NEW list \in Seq(Rates), NEW S \in SUBSET (DOMAIN list)
  PROVE  IsFiniteSet(S) /\ Cardinality(S) \in 0..Len(list)
<1>1. IsFiniteSet(DOMAIN list) /\ Cardinality(DOMAIN list) = Len(list) /\ Len(list) \in Nat
  BY DomainSize
<1>3. IsFiniteSet(S) /\ Cardinality(S) <= Len(list)
  BY <1>1, FS_Subset
<1> QED
  BY <1>1, <1>3, FS_CardinalityType

\* More positions are not fewer.
LEMMA MorePositions ==
  ASSUME NEW list \in Seq(Rates), NEW T \in SUBSET (DOMAIN list), NEW S \in SUBSET T
  PROVE  Cardinality(S) <= Cardinality(T)
  BY Positions, FS_Subset

\* The n-th smallest reading exists, and is one of the readings.
LEMMA RankedFacts ==
  ASSUME NEW list \in Seq(Rates), NEW n \in 1..Len(list)
  PROVE  /\ Ranked(list, n) \in Rates
         /\ \E i \in DOMAIN list : list[i] = Ranked(list, n)
         /\ n <= Cardinality({i \in DOMAIN list : list[i] <= Ranked(list, n)})
<1> DEFINE Below(r) == {i \in DOMAIN list : list[i] < r}
           UpTo(r) == {i \in DOMAIN list : list[i] <= r}
           Good(r) == Cardinality(Below(r)) < n /\ n <= Cardinality(UpTo(r))
           T == {r \in Nat : n <= Cardinality(UpTo(r))}
<1>0. /\ Len(list) \in Nat /\ n \in Nat /\ n > 0
      /\ \A i \in DOMAIN list : list[i] \in Rates /\ list[i] \in Nat /\ list[i] <= FastCeiling
  BY Bands
<1>1. \A r : Cardinality(Below(r)) \in Nat /\ Cardinality(UpTo(r)) \in Nat
  BY Positions
<1>2. FastCeiling \in T
  <2>1. UpTo(FastCeiling) = DOMAIN list
    BY <1>0
  <2>2. Cardinality(UpTo(FastCeiling)) = Len(list)
    BY <2>1, DomainSize
  <2>3. n <= Cardinality(UpTo(FastCeiling))
    BY <1>0, <2>2
  <2> QED
    BY <2>3, Bands
<1>3. PICK r \in T : \A q \in T : r <= q
  BY <1>2, LeastOf
<1>4. Cardinality(Below(r)) < n
  <2>1. CASE r = 0
    <3>1. Below(r) = {}
      BY <2>1, <1>0
    <3> QED
      BY <3>1, <1>0, FS_EmptySet
  <2>2. CASE r # 0
    <3>1. r - 1 \in Nat /\ ~(r <= r - 1)
      BY <1>3, <2>2
    <3>2. r - 1 \notin T
      BY <1>3, <3>1
    <3>3. Below(r) = UpTo(r - 1)
      BY <1>0, <1>3
    <3>4. ~(n <= Cardinality(UpTo(r - 1)))
      BY <3>1, <3>2
    <3>5. ~(n <= Cardinality(Below(r))) /\ Cardinality(Below(r)) \in Nat
      BY <1>1, <3>3, <3>4
    <3> HIDE DEF Below
    <3> QED
      BY <1>0, <3>5
  <2> QED
    BY <2>1, <2>2
<1>5. Good(r)
  BY <1>3, <1>4
<1>6. ASSUME NEW q \in Nat, Good(q)
      PROVE  \E i \in DOMAIN list : list[i] = q
  <2>1. Cardinality(Below(q)) # Cardinality(UpTo(q))
    <3>1. /\ Cardinality(Below(q)) < n /\ n <= Cardinality(UpTo(q))
          /\ Cardinality(Below(q)) \in Nat /\ Cardinality(UpTo(q)) \in Nat
      BY <1>1, <1>6
    <3> HIDE DEF Below, UpTo
    <3> QED
      BY <1>0, <3>1
  <2>2. \A i \in DOMAIN list : list[i] # q => (list[i] <= q <=> list[i] < q)
    <3> SUFFICES ASSUME NEW i \in DOMAIN list, list[i] # q
                 PROVE  list[i] <= q <=> list[i] < q
      OBVIOUS
    <3>1. list[i] \in Nat
      BY <1>0
    <3> QED
      BY <3>1
  <2>3. (\A i \in DOMAIN list : list[i] # q) => Below(q) = UpTo(q)
    BY <2>2
  <2> QED
    BY <2>1, <2>3
<1>7. r \in Rates
  BY <1>0, <1>5, <1>6
<1>8. Ranked(list, n) \in Rates /\ Good(Ranked(list, n))
  BY <1>5, <1>7 DEF Ranked
<1> QED
  BY <1>6, <1>8, Bands

\* The middle readings of a list with a majority above a floor are above it.
LEMMA MajorityRules ==
  ASSUME NEW list \in Seq(Rates), NEW floor \in Nat,
         2 * Cardinality({i \in DOMAIN list : list[i] < floor}) < Len(list),
         NEW n \in 1..Len(list), Len(list) <= 2 * n
  PROVE  Ranked(list, n) >= floor
<1> DEFINE r == Ranked(list, n)
           UpTo == {i \in DOMAIN list : list[i] <= r}
           Under == {i \in DOMAIN list : list[i] < floor}
<1>1. r \in Nat /\ n <= Cardinality(UpTo)
  BY RankedFacts, Bands
<1> SUFFICES ASSUME r < floor
             PROVE  FALSE
  BY <1>1
<1>2. \A i \in DOMAIN list : list[i] \in Nat
  BY Bands
<1>3. UpTo \subseteq Under
  BY <1>1, <1>2
<1>4. Cardinality(UpTo) <= Cardinality(Under) /\ Cardinality(UpTo) \in Nat /\ Cardinality(Under) \in Nat
  BY <1>3, Positions, MorePositions
<1> HIDE DEF r, UpTo, Under
<1>5. 2 * Cardinality(Under) < Len(list)
  BY DEF Under
<1> QED
  BY <1>1, <1>4, <1>5

\* What a median lies between, and what it is with a fast majority.
LEMMA MedianFacts ==
  ASSUME NEW list \in Seq(Rates), list # <<>>
  PROVE  /\ Middle(list) \in Rates /\ \E i \in DOMAIN list : list[i] = Middle(list)
         /\ Median2(list) \in Nat /\ Median2(list) <= 2 * FastCeiling
         /\ FastMajority(list) => Middle(list) >= FastFloor /\ Median2(list) >= 2 * FastFloor
<1> DEFINE a == (Len(list) + 1) \div 2
           b == Len(list) \div 2 + 1
<1>1. Len(list) \in Nat /\ Len(list) > 0
  OBVIOUS
<1>2. a \in 1..Len(list) /\ b \in 1..Len(list) /\ Len(list) <= 2 * a /\ Len(list) <= 2 * b
  BY <1>1
<1> HIDE DEF a, b
<1>3. /\ Ranked(list, a) \in Rates /\ \E i \in DOMAIN list : list[i] = Ranked(list, a)
      /\ Ranked(list, b) \in Rates
  BY <1>2, RankedFacts
<1>4. FastMajority(list) => Ranked(list, a) >= FastFloor /\ Ranked(list, b) >= FastFloor
  BY <1>2, MajorityRules, Bands DEF FastMajority
<1>5. Middle(list) = Ranked(list, a) /\ Median2(list) = Ranked(list, a) + Ranked(list, b)
  BY DEF Middle, Median2, a, b
<1> QED
  BY <1>3, <1>4, <1>5, Bands

\* A lone reading is its own median.
LEMMA LoneReading ==
  ASSUME NEW v \in Rates
  PROVE  Middle(<<v>>) = v
<1>1. <<v>> \in Seq(Rates) /\ <<v>> # <<>> /\ DOMAIN <<v>> = {1} /\ <<v>>[1] = v
  OBVIOUS
<1> QED
  BY <1>1, MedianFacts

\* With a fast majority among the readings, one of the slow state is below the threshold;
\* a reading of the fast state never is.
LEMMA ThresholdSeparates ==
  ASSUME NEW readings \in Seq(Rates), NEW v \in Rates
  PROVE  /\ FastMajority(readings) /\ readings # <<>> /\ v <= SlowCeiling => Degraded(v, readings)
         /\ v >= FastFloor => ~Degraded(v, readings)
<1>1. CASE readings = <<>>
  BY <1>1 DEF Degraded
<1>2. CASE readings # <<>>
  <2>1. /\ Median2(readings) \in Nat /\ Median2(readings) <= 2 * FastCeiling
        /\ FastMajority(readings) => Median2(readings) >= 2 * FastFloor
    BY <1>2, MedianFacts
  <2> QED
    BY <1>2, <2>1, Bands DEF Degraded
<1> QED
  BY <1>1, <1>2

-----------------------------------------------------------------------------
(* Type correctness, with the position in the program. *)

\* Steps update one file, one field of the Guard or one field of the check.
LEMMA FileUpdates ==
  ASSUME NEW files \in Files, NEW time \in Nat, NEW state \in States \cup {"none"}
  PROVE  /\ \A b \in BOOLEAN : [files EXCEPT !.raw = b] \in Files
         /\ \A b \in BOOLEAN : [files EXCEPT !.tele = time, !.cut = b] \in Files
         /\ [files EXCEPT !.tele = time] \in Files
         /\ [files EXCEPT !.row = "torn"] \in Files
         /\ [files EXCEPT !.row = "done", !.state = state] \in Files
         /\ [files EXCEPT !.row = "none", !.state = "none"] \in Files
  BY DEF Files

LEMMA GuardUpdates ==
  ASSUME NEW g \in Guards
  PROVE  /\ \A b \in BOOLEAN : [g EXCEPT !.reusable = b] \in Guards
         /\ \A n \in Nat : [g EXCEPT !.count = n] \in Guards
         /\ \A n \in Nat, b \in BOOLEAN, list \in Seq(Rates) :
              [g EXCEPT !.readings = list, !.lastGood = n, !.reusable = b] \in Guards
  BY DEF Guards

LEMMA GuardNew ==
  ASSUME NEW n \in Nat
  PROVE  /\ NewGuard(n) \in Guards
         /\ NewGuard(n).lastGood = n /\ NewGuard(n).readings = <<>>
  BY DEF Guards, NewGuard

LEMMA CheckNew ==
  /\ NoProbes \in Checks
  /\ \A n \in Nat, edge \in {"start", "end", "every"} :
       [NoProbes EXCEPT !.started = n, !.edge = edge] \in Checks
<1>1. <<>> \in Seq(Rates)
  OBVIOUS
<1> QED
  BY <1>1 DEF Checks, NoProbes

LEMMA CheckUpdates ==
  ASSUME NEW c \in Checks
  PROVE  /\ \A list \in Seq(Rates) : [c EXCEPT !.list = list, !.attempt = 0] \in Checks
         /\ \A n \in Nat : [c EXCEPT !.attempt = n] \in Checks
  BY DEF Checks

LEMMA QuietType == Quiet \in Noises /\ Quiet.misread = 0
  BY ConstantsAssumption DEF Quiet, Noises

\* The readings of a check with one more, and their median.
LEMMA ListFacts ==
  ASSUME TypeOK, NEW v \in Rates
  PROVE  /\ probes.list \in Seq(Rates) /\ Len(probes.list) \in Nat
         /\ List(v) \in Seq(Rates) /\ List(v) # <<>>
         /\ Len(List(v)) = Len(probes.list) + 1
         /\ DOMAIN List(v) = 1..(Len(probes.list) + 1)
         /\ \A i \in DOMAIN probes.list : List(v)[i] = probes.list[i]
         /\ List(v)[Len(probes.list) + 1] = v
         /\ Value(v) \in Rates
         /\ \E i \in DOMAIN List(v) : List(v)[i] = Value(v)
<1>1. probes.list \in Seq(Rates)
  BY DEF TypeOK, Checks
<1>2. /\ Len(probes.list) \in Nat
      /\ List(v) \in Seq(Rates) /\ List(v) # <<>>
      /\ Len(List(v)) = Len(probes.list) + 1
      /\ DOMAIN List(v) = 1..(Len(probes.list) + 1)
      /\ \A i \in DOMAIN probes.list : List(v)[i] = probes.list[i]
      /\ List(v)[Len(probes.list) + 1] = v
  BY <1>1 DEF List
<1>3. Value(v) \in Rates /\ \E i \in DOMAIN List(v) : List(v)[i] = Value(v)
  BY <1>2, MedianFacts DEF Value
<1> QED
  BY <1>1, <1>2, <1>3

LEMMA TypeInit == Init => TypeOK /\ PlaceInv
<1> SUFFICES ASSUME Init
             PROVE  TypeOK /\ PlaceInv
  OBVIOUS
<1>1. NoFiles \in Files /\ NewGuard(0) \in Guards /\ NoProbes \in Checks /\ Quiet \in Noises
  <2>1. NoFiles \in Files
    BY DEF NoFiles, Files
  <2>2. NewGuard(0) \in Guards
    <3>1. 0 \in Nat
      OBVIOUS
    <3> QED
      BY <3>1, GuardNew
  <2> QED
    BY <2>1, <2>2, CheckNew, QuietType
<1>2. at \in 1..(Len(Program) + 1)
  BY ConstantsAssumption DEF Init
<1>3. TypeOK
  BY <1>1, <1>2, ConstantsAssumption DEF Init, TypeOK, Phases, States
<1>4. PlaceInv
  BY DEF Init, PlaceInv, Busy
<1> QED
  BY <1>3, <1>4

LEMMA TypeNext == TypeOK /\ PlaceInv /\ [Next]_vars => TypeOK' /\ PlaceInv'
<1> SUFFICES ASSUME TypeOK, PlaceInv, [Next]_vars
             PROVE  TypeOK' /\ PlaceInv'
  OBVIOUS
<1> USE DEF PlaceInv, Busy, Phases, process, history
<1>0. /\ Program # <<>> /\ Len(Program) \in Nat
      /\ Confirm \in Nat /\ MaxStarts \in Nat /\ 1 \in 1..(Len(Program) + 1)
      /\ Quiet \in Noises /\ NoProbes \in Checks
  <2>1. /\ Program # <<>> /\ Len(Program) \in Nat
        /\ Confirm \in Nat /\ MaxStarts \in Nat
    BY ConstantsAssumption
  <2>2. 1 \in 1..(Len(Program) + 1)
    BY <2>1
  <2> QED
    BY <2>1, <2>2, QuietType, CheckNew
<1>k. AtStep("run") => Step.key \in Keys
  BY RunKey DEF AtStep, Step, TypeOK
<1>b. pc \in Busy => Step.key \in Keys
  BY RunKey DEF Step, TypeOK
<1>d. \A k \in Keys : disk[k] \in Files
  BY DEF TypeOK
<1>t. guard \in Guards /\ probes \in Checks /\ clock \in Nat /\ clock + 1 \in Nat
  BY DEF TypeOK
<1>l. guard.readings \in Seq(Rates) /\ guard.count \in Nat /\ guard.lastGood \in Nat
      /\ probes.list \in Seq(Rates) /\ probes.started \in Nat /\ probes.attempt \in Nat
  BY DEF TypeOK, Guards, Checks
<1>h. \A v : Heard(v) \subseteq Noises
  BY DEF Heard
<1>e. ASSUME Exit
      PROVE  /\ at' \in 1..(Len(Program) + 1) /\ runUtc' \in Nat /\ seen' \in States \cup {"none"}
             /\ guard' \in Guards /\ probes' \in Checks /\ noise' \in Noises
             /\ moving' = None /\ verdict' = "none" /\ pc' = "off"
  BY <1>0, <1>e, <1>l, GuardNew DEF Exit
<1>1. CASE Start
  <2>1. guard' \in Guards
    BY <1>1, GuardNew DEF Start, TypeOK
  <2> QED
    BY <1>1, <1>0, <2>1 DEF Start, TypeOK
<1>2. CASE Finish
  BY <1>2, <1>e DEF Finish, TypeOK
<1>3. CASE Cached
  BY <1>3, <1>0 DEF Cached, AtStep, TypeOK
<1>4. CASE BeginRun
  <2>1. disk' \in [Keys -> Files]
    BY <1>4, <1>k, <1>d, FileUpdates DEF BeginRun, TypeOK
  <2>2. guard' \in Guards
    BY <1>4, GuardUpdates DEF BeginRun, TypeOK
  <2> QED
    BY <1>4, <1>0, <2>1, <2>2 DEF BeginRun, AtStep, TypeOK, Step
<1>5. CASE RunnerEnds
  BY <1>5, <1>0 DEF RunnerEnds, TypeOK, Step
<1>6. CASE WriteTelemetry
  <2>1. disk' \in [Keys -> Files]
    BY <1>6, <1>b, <1>d, FileUpdates DEF WriteTelemetry, TypeOK
  <2> QED
    BY <1>6, <1>0, <1>b, <2>1 DEF WriteTelemetry, TypeOK, Step
<1>23. CASE OpenTelemetry
  <2>1. disk' \in [Keys -> Files]
    BY <1>23, <1>b, <1>d, FileUpdates DEF OpenTelemetry, TypeOK
  <2> QED
    BY <1>23, <1>0, <1>b, <2>1 DEF OpenTelemetry, TypeOK, Step
<1>7. CASE OpenRow
  <2>1. disk' \in [Keys -> Files]
    BY <1>7, <1>b, <1>d, FileUpdates DEF OpenRow, TypeOK
  <2> QED
    BY <1>7, <1>0, <1>b, <2>1 DEF OpenRow, TypeOK, Step
<1>8. CASE CloseRow
  <2>1. disk' \in [Keys -> Files]
    BY <1>8, <1>b, <1>d, FileUpdates DEF CloseRow, TypeOK
  <2> QED
    BY <1>8, <1>0, <1>b, <2>1 DEF CloseRow, TypeOK, Step
<1>9. CASE After
  <2>1. guard' \in Guards
    <3>1. guard.count + 1 \in Nat
      BY <1>l
    <3> QED
      BY <1>9, <1>t, <3>1, GuardUpdates DEF After
  <2>2. probes' \in Checks /\ clock' \in Nat /\ at' \in 1..(Len(Program) + 1)
        /\ noise' \in Noises
    <3>1. CASE (guard.count + 1) % Every = 0
      <4>1. probes' \in Checks /\ clock' \in Nat
        BY <1>9, <3>1, <1>t, CheckNew DEF After, BeginProbes
      <4> QED
        BY <1>9, <3>1, <4>1, <1>0 DEF After, BeginProbes, TypeOK
    <3>2. CASE (guard.count + 1) % Every # 0
      BY <1>9, <3>2, <1>0, <1>t DEF After, TypeOK
    <3> QED
      BY <3>1, <3>2
  <2>3. pc' = "probing" => probes'.edge = "every"
    BY <1>9 DEF After, BeginProbes, NoProbes
  <2> QED
    BY <1>9, <1>0, <2>1, <2>2, <2>3 DEF After, BeginProbes, TypeOK, Step
<1>10. CASE ReuseCheck
  <2>1. guard' \in Guards
    BY <1>10, GuardUpdates DEF ReuseCheck, TypeOK
  <2> QED
    BY <1>10, <1>0, <2>1 DEF ReuseCheck, AtStep, TypeOK, Step
<1>11. CASE FreshCheck
  <2>1. Step.edge \in {"start", "end"}
    BY <1>11, StepType, StepFields DEF FreshCheck, AtStep, Step, TypeOK
  <2>2. guard' \in Guards
    BY <1>11, GuardUpdates DEF FreshCheck, TypeOK
  <2>3. probes' \in Checks /\ clock' \in Nat
    BY <1>11, <1>t, <2>1, CheckNew DEF FreshCheck, BeginProbes
  <2>4. probes'.edge = Step.edge
    BY <1>11 DEF FreshCheck, BeginProbes, NoProbes
  <2> QED
    BY <1>11, <1>0, <2>1, <2>2, <2>3, <2>4
       DEF FreshCheck, AtStep, BeginProbes, TypeOK, Step
<1>12. CASE InvalidProbe
  <2>1. probes' \in Checks /\ (pc' = "probing" => probes'.edge = probes.edge)
    <3>1. probes.attempt + 1 \in Nat
      BY <1>l
    <3>2. [probes EXCEPT !.attempt = @ + 1] \in Checks
      BY <1>t, <3>1, CheckUpdates
    <3> QED
      BY <1>12, <1>0, <1>t, <3>2 DEF InvalidProbe, BeginQuarantine, Checks
  <2> QED
    BY <1>12, <1>0, <2>1 DEF InvalidProbe, BeginQuarantine, TypeOK, Step
<1>13. ASSUME NEW v \in Rates, Recheck(v)
       PROVE  TypeOK' /\ PlaceInv'
  <2>1. List(v) \in Seq(Rates)
    BY ListFacts
  <2>2. probes' \in Checks /\ probes'.edge = probes.edge
    BY <1>13, <1>t, <2>1, CheckUpdates DEF Recheck, Checks
  <2> QED
    BY <1>13, <1>0, <1>h, <2>2 DEF Recheck, Reads, TypeOK, Step
<1>14. ASSUME NEW v \in Rates, Accept(v)
       PROVE  TypeOK' /\ PlaceInv'
  <2>1. guard' \in Guards
    <3>1. Append(guard.readings, Value(v)) \in Seq(Rates)
      BY <1>l, ListFacts
    <3> QED
      BY <1>14, <1>l, <1>t, <3>1, GuardUpdates DEF Accept
  <2>2. untrusted' \subseteq Keys /\ noise' \in Noises /\ probes' \in Checks
    BY <1>14, <1>0 DEF Accept, Younger, TypeOK
  <2>3. /\ pc = "probing" /\ pc' = "next" /\ at' = at + 1
        /\ UNCHANGED <<device, disk, workflow, clock, starts, runUtc, seen, moving, verdict>>
    BY <1>14 DEF Accept, Reads
  <2>4. at' \in 1..(Len(Program) + 1)
    BY <2>3, <1>0 DEF TypeOK
  <2>5. TypeOK'
    BY <2>1, <2>2, <2>3, <2>4 DEF TypeOK
  <2>6. PlaceInv'
    BY <2>3
  <2> QED
    BY <2>5, <2>6
<1>15. ASSUME NEW v \in Rates, DropConfirmed(v)
       PROVE  TypeOK' /\ PlaceInv'
  BY <1>15, <1>0, <1>h DEF DropConfirmed, BeginQuarantine, Reads, TypeOK, Step
<1>16. ASSUME NEW k \in Keys, PickKey(k)
       PROVE  TypeOK' /\ PlaceInv'
  BY <1>16, <1>0 DEF PickKey, TypeOK, Step
<1>17. ASSUME NEW f \in {"raw", "tele", "row"}, MoveFile(f)
       PROVE  TypeOK' /\ PlaceInv'
  <2>1. moving \in Keys /\ WithoutFile(disk[moving], f) \in Files
    BY <1>17, <1>d, FileUpdates DEF MoveFile, WithoutFile, TypeOK
  <2> QED
    BY <1>17, <1>0, <2>1 DEF MoveFile, TypeOK, Step
<1>18. CASE Pause
  BY <1>18, <1>e DEF Pause, TypeOK
<1>19. ASSUME NEW phase \in {"stopped_by_user", "failed", workflow}, Broken(phase)
       PROVE  TypeOK' /\ PlaceInv'
  BY <1>19, <1>e DEF Broken, Younger, TypeOK
<1>20. ASSUME NEW k \in Keys, MoveAside(k)
       PROVE  TypeOK' /\ PlaceInv'
  <2>1. disk' \in [Keys -> Files]
    BY <1>20, <1>d, FileUpdates DEF MoveAside, TypeOK
  <2> QED
    BY <1>20, <1>0, <2>1 DEF MoveAside, TypeOK, Step
<1>21. CASE SlowDown \/ Reboot
  BY <1>21, <1>0 DEF States, SlowDown, Reboot, TypeOK, Step
<1>22. CASE UNCHANGED vars
  BY <1>22 DEF vars, TypeOK, Step
<1> QED
  BY <1>1, <1>2, <1>3, <1>4, <1>5, <1>6, <1>7, <1>8, <1>9, <1>10, <1>11, <1>12,
     <1>13, <1>14, <1>15, <1>16, <1>17, <1>18, <1>19, <1>20, <1>21, <1>22, <1>23
     DEF Next, ProcessStep, Measure, Bracket, Quarantine, Interrupted, Killed, Failed

-----------------------------------------------------------------------------
(* Times. *)

LEMMA TimeInit == Init => TimeInv
  BY DEF Init, TimeInv, NewGuard, NoFiles, Busy

\* Steps that write files: who is written, and which fields stay.
LEMMA DiskSteps ==
  ASSUME TypeOK, PlaceInv, Next
  PROVE  \A k \in Keys :
           /\ disk'[k].tele # disk[k].tele =>
                \/ WriteTelemetry /\ k = Step.key /\ disk'[k].tele = runUtc
                \/ OpenTelemetry /\ disk'[k].tele = 0
                \/ (\E f \in {"raw", "tele", "row"} : MoveFile(f)) /\ disk'[k].tele = 0
           /\ disk'[k].row # disk[k].row \/ disk'[k].state # disk[k].state =>
                \/ OpenRow /\ k = Step.key /\ disk'[k].row = "torn"
                \/ CloseRow /\ k = Step.key /\ disk'[k].row = "done" /\ disk'[k].state = seen
                \/ (\E f \in {"raw", "tele", "row"} : MoveFile(f)) /\ k = moving
                      /\ disk'[k].row = "none"
<1> SUFFICES ASSUME NEW k \in Keys
             PROVE  /\ disk'[k].tele # disk[k].tele =>
                         \/ WriteTelemetry /\ k = Step.key /\ disk'[k].tele = runUtc
                         \/ OpenTelemetry /\ disk'[k].tele = 0
                         \/ /\ \E f \in {"raw", "tele", "row"} : MoveFile(f)
                            /\ disk'[k].tele = 0
                    /\ disk'[k].row # disk[k].row \/ disk'[k].state # disk[k].state =>
                         \/ OpenRow /\ k = Step.key /\ disk'[k].row = "torn"
                         \/ /\ CloseRow /\ k = Step.key
                            /\ disk'[k].row = "done" /\ disk'[k].state = seen
                         \/ /\ \E f \in {"raw", "tele", "row"} : MoveFile(f)
                            /\ k = moving /\ disk'[k].row = "none"
  OBVIOUS
<1>1. disk[k] \in Files /\ disk \in [Keys -> Files]
  BY DEF TypeOK
<1>2. CASE disk' = disk
  BY <1>2
<1>3. CASE BeginRun
  BY <1>1, <1>3 DEF BeginRun, Files
<1>4. CASE WriteTelemetry
  BY <1>1, <1>4 DEF WriteTelemetry, Files
<1>10. CASE OpenTelemetry
  BY <1>1, <1>10 DEF OpenTelemetry, Files
<1>5. CASE OpenRow
  BY <1>1, <1>5 DEF OpenRow, Files
<1>6. CASE CloseRow
  BY <1>1, <1>6 DEF CloseRow, Files
<1>7. ASSUME NEW f \in {"raw", "tele", "row"}, MoveFile(f)
      PROVE  /\ disk'[k].tele # disk[k].tele => disk'[k].tele = 0
             /\ disk'[k].row # disk[k].row \/ disk'[k].state # disk[k].state =>
                  k = moving /\ disk'[k].row = "none"
  BY <1>1, <1>7 DEF MoveFile, WithoutFile, Files
<1>8. ASSUME NEW q \in Keys, MoveAside(q)
      PROVE  disk'[k].tele = disk[k].tele /\ disk'[k].row = disk[k].row
             /\ disk'[k].state = disk[k].state
  BY <1>1, <1>8 DEF MoveAside, Files
<1>9. \/ disk' = disk \/ BeginRun \/ OpenTelemetry \/ WriteTelemetry \/ OpenRow \/ CloseRow
      \/ \E f \in {"raw", "tele", "row"} : MoveFile(f)
      \/ \E q \in Keys : MoveAside(q)
  BY DEF Next, ProcessStep, Measure, Bracket, Quarantine, Start, Finish, Cached,
         RunnerEnds, After, ReuseCheck, FreshCheck, InvalidProbe, BeginQuarantine,
         Recheck, Accept, DropConfirmed, PickKey, Pause, Failed, Interrupted, Killed,
         Broken, SlowDown, Reboot
<1> QED
  BY <1>2, <1>3, <1>4, <1>5, <1>6, <1>7, <1>8, <1>9, <1>10

\* No file carries a time from the future, before and after a step.
LEMMA TeleBound ==
  ASSUME TypeOK, PlaceInv, TimeInv, Next, NEW k \in Keys
  PROVE  disk'[k].tele \in Nat /\ disk'[k].tele <= clock
<1>1. disk[k].tele \in Nat /\ runUtc \in Nat /\ clock \in Nat
  BY DEF TypeOK, Files
<1> QED
  BY <1>1, DiskSteps DEF TimeInv

LEMMA TimeNext == TypeOK /\ PlaceInv /\ TimeInv /\ [Next]_vars => TimeInv'
<1> SUFFICES ASSUME TypeOK, PlaceInv, TimeInv, Next
             PROVE  TimeInv'
  BY DEF vars, process, TimeInv, Step, Busy
<1>0. /\ clock \in Nat /\ runUtc \in Nat /\ guard.lastGood \in Nat
      /\ probes.started \in Nat /\ guard \in Guards /\ probes \in Checks
  BY DEF TypeOK, Guards, Checks
<1>1. \A k \in Keys : disk'[k].tele \in Nat /\ disk'[k].tele <= clock
  BY TeleBound
<1>2. \A k \in Keys : disk[k].tele \in Nat
  BY DEF TypeOK, Files
<1>3. pc \in Busy => Step.key \in Keys
  BY RunKey DEF Step, TypeOK, PlaceInv
<1> USE DEF TimeInv, Busy
<1>4. CASE Start
  BY <1>4, <1>0, <1>1 DEF Start, NewGuard
<1>5. CASE BeginRun
  BY <1>5, <1>0, <1>1 DEF BeginRun, Guards
<1>6. CASE WriteTelemetry
  <2>1. disk'[Step.key].tele = runUtc
    BY <1>6, <1>3 DEF WriteTelemetry, TypeOK, Files
  <2> QED
    BY <1>6, <1>0, <1>1, <2>1 DEF WriteTelemetry, Step
<1>16. CASE OpenTelemetry
  BY <1>16, <1>0, <1>1 DEF OpenTelemetry, Step
<1>7. CASE OpenRow \/ CloseRow
  <2>1. disk'[Step.key].tele = disk[Step.key].tele
    BY SMTT(30), <1>7, <1>3 DEF OpenRow, CloseRow, TypeOK, Files
  <2> QED
    BY <1>7, <1>0, <1>1, <2>1 DEF OpenRow, CloseRow, Step
<1>8. CASE After
  <2>1. guard'.lastGood = guard.lastGood
    BY <1>8, <1>0 DEF After, Guards
  <2>2. pc' = "probing" => probes'.started = clock' /\ clock' = clock + 1
    BY <1>8 DEF After, BeginProbes, NoProbes
  <2>3. clock' = clock \/ clock' = clock + 1
    BY <1>8 DEF After, BeginProbes
  <2>4. pc' \in {"probing", "next"} /\ runUtc' = runUtc
    BY <1>8 DEF After, BeginProbes
  <2> QED
    BY <1>0, <1>1, <2>1, <2>2, <2>3, <2>4
<1>9. CASE FreshCheck
  <2>1. guard'.lastGood = guard.lastGood
    BY <1>9, <1>0 DEF FreshCheck, Guards
  <2>2. pc' = "probing" /\ probes'.started = clock' /\ clock' = clock + 1
    BY <1>9 DEF FreshCheck, BeginProbes, NoProbes
  <2> QED
    BY <1>0, <1>1, <1>9, <2>1, <2>2 DEF FreshCheck
<1>10. ASSUME NEW v \in Rates, Accept(v)
       PROVE  TimeInv'
  <2>1. guard'.lastGood = probes.started
    BY <1>10, <1>0 DEF Accept, Guards
  <2> QED
    BY <1>10, <1>0, <1>1, <2>1 DEF Accept, Reads
<1>11. CASE InvalidProbe \/ \E v \in Rates : Recheck(v) \/ DropConfirmed(v)
  <2>1. pc' = "probing" => probes'.started = probes.started
    BY <1>11, <1>0 DEF InvalidProbe, BeginQuarantine, Recheck, DropConfirmed, Checks
  <2>2. disk' = disk /\ pc' \in {"probing", "quarantine"} /\ pc = "probing"
        /\ UNCHANGED <<guard, clock, runUtc>>
    BY <1>11 DEF InvalidProbe, BeginQuarantine, Recheck, DropConfirmed, Reads
  <2> QED
    BY <1>0, <1>1, <2>1, <2>2
<1>12. CASE ReuseCheck
  BY <1>12, <1>0, <1>1 DEF ReuseCheck, AtStep, Guards
<1>13. CASE RunnerEnds
  BY <1>13, <1>0, <1>1 DEF RunnerEnds
<1>14. CASE Cached \/ (\E k \in Keys : PickKey(k))
            \/ \E f \in {"raw", "tele", "row"} : MoveFile(f)
  BY <1>14, <1>0, <1>1 DEF Cached, AtStep, PickKey, MoveFile
<1>17. CASE Finish \/ Pause \/ Interrupted \/ Killed \/ Failed
  <2>1. Exit /\ clock' = clock
    BY <1>17 DEF Finish, Pause, Interrupted, Killed, Failed, Broken
  <2>2. guard'.lastGood = guard.lastGood /\ runUtc' = 0 /\ pc' = "off"
    BY <1>0, <2>1, GuardNew DEF Exit
  <2> QED
    BY <1>0, <1>1, <2>1, <2>2
<1>15. CASE (\E k \in Keys : MoveAside(k)) \/ SlowDown \/ Reboot
  <2>1. \A k \in Keys : disk'[k].tele = disk[k].tele
    BY <1>15, DiskSteps
       DEF MoveAside, SlowDown, Reboot, OpenTelemetry, WriteTelemetry, MoveFile
  <2>2. (pc = "off" \/ disk' = disk) /\ UNCHANGED <<process, clock>>
    BY <1>15 DEF MoveAside, SlowDown, Reboot
  <2> QED
    BY <1>0, <1>1, <2>1, <2>2 DEF process, Step
<1> QED
  BY <1>4, <1>5, <1>6, <1>7, <1>8, <1>9, <1>10, <1>11, <1>12, <1>13, <1>14, <1>15,
     <1>16, <1>17
     DEF Next, ProcessStep, Measure, Bracket, Quarantine

-----------------------------------------------------------------------------
(* The bracket of each row. *)

LEMMA BracketInit == Init => BracketInv /\ SlowInv /\ ProbesInv /\ DriftNeedsMajority
  BY DEF Init, BracketInv, SlowInv, ProbesInv, OpenSlow, NoFiles, DriftNeedsMajority, NewGuard

LEMMA BracketNext ==
  TypeOK /\ PlaceInv /\ TimeInv /\ BracketInv /\ [Next]_vars => BracketInv'
<1> SUFFICES ASSUME TypeOK, PlaceInv, TimeInv, BracketInv, Next
             PROVE  BracketInv'
  BY DEF vars, process, BracketInv, Step, Younger
<1>0. /\ guard \in Guards /\ probes \in Checks /\ at \in 1..(Len(Program) + 1)
      /\ Len(Program) \in Nat /\ disk \in [Keys -> Files]
      /\ \A k \in Keys : disk[k].tele \in Nat
  BY ConstantsAssumption DEF TypeOK, Files
<1>1. \A i \in 1..Len(Program) : Program[i].op = "run" => Program[i].key \in Keys
  BY RunKey
<1>2. \A i \in 1..Len(Program) : Program[i].op = "run" => Program[i] # Check("end")
  BY StepFields
<1>3. Check("end") # Check("start")
  BY StepFields
<1>4. pc \in Busy => Step.key \in Keys /\ at <= Len(Program) /\ Step.op = "run"
  BY <1>0, <1>1 DEF Step, PlaceInv
<1> USE DEF BracketInv, Busy
<1>5. CASE Start
  BY <1>5 DEF Start
<1>6. CASE Finish \/ Pause \/ Interrupted \/ Killed \/ Failed
           \/ (\E k \in Keys : MoveAside(k))
  BY <1>6 DEF Finish, Pause, Interrupted, Killed, Failed, Broken, Exit, MoveAside, process
<1>7. CASE Cached
  BY <1>0, <1>2, <1>7 DEF Cached, AtStep, Step
<1>8. CASE BeginRun
  <2>1. \A k \in Keys : disk'[k].row = disk[k].row
    BY <1>8, DiskSteps DEF BeginRun, OpenRow, CloseRow, MoveFile
  <2>2. Step.key \in Keys /\ at <= Len(Program)
    BY <1>0, <1>1, <1>8 DEF BeginRun, AtStep, Step
  <2>3. pc' = "running" /\ at' = at /\ disk[Step.key].row = "none" /\ pc = "next"
    BY <1>8 DEF BeginRun, AtStep
  <2>4. \A i \in 1..(at - 1) : Program[i].op = "run" => disk'[Program[i].key].row = "done"
    <3>1. \A i \in 1..(at - 1) : i \in 1..Len(Program)
      BY <1>0
    <3> QED
      BY <1>1, <2>1, <2>3, <3>1
  <2>5. disk'[Step.key].row = "none"
    BY <2>1, <2>2, <2>3
  <2> QED
    BY <2>3, <2>4, <2>5 DEF Step
<1>9. CASE RunnerEnds
  BY <1>9 DEF RunnerEnds, Step
<1>10. CASE OpenTelemetry \/ WriteTelemetry
  <2>1. \A k \in Keys : disk'[k].row = disk[k].row
    BY <1>10, DiskSteps DEF OpenTelemetry, WriteTelemetry, OpenRow, CloseRow, MoveFile
  <2> QED
    BY <1>0, <1>1, <1>4, <1>10, <2>1 DEF OpenTelemetry, WriteTelemetry, Step
<1>11. CASE OpenRow
  <2>1. \A k \in Keys : k # Step.key => disk'[k].row = disk[k].row
    BY <1>0, <1>11 DEF OpenRow
  <2>2. disk'[Step.key].row = "torn"
    BY <1>0, <1>4, <1>11 DEF OpenRow, Files
  <2>3. \A i \in 1..(at - 1) : Program[i].op = "run" => Program[i].key # Step.key
    BY <1>11 DEF OpenRow
  <2> QED
    BY <1>0, <1>1, <1>4, <1>11, <2>1, <2>2, <2>3 DEF OpenRow, Step
<1>12. CASE CloseRow
  <2>1. \A k \in Keys : k # Step.key => disk'[k].row = disk[k].row
    BY <1>0, <1>12 DEF CloseRow
  <2>2. disk'[Step.key].row = "done"
    BY <1>0, <1>4, <1>12 DEF CloseRow, Files
  <2> QED
    BY <1>0, <1>1, <1>4, <1>12, <2>1, <2>2 DEF CloseRow, Step
<1>13. CASE After
  <2>1. guard'.lastGood = guard.lastGood /\ disk' = disk
    BY <1>0, <1>13 DEF After, Guards
  <2>2. \/ pc' = "next" /\ at' = at + 1
        \/ pc' = "probing" /\ at' = at
    BY <1>13 DEF After, BeginProbes
  <2> QED
    BY <1>0, <1>2, <1>4, <1>13, <2>1, <2>2 DEF After, Step
<1>14. CASE ReuseCheck
  <2>1. Step # Check("end") /\ Step.op # "run"
    BY <1>14, StepFields DEF ReuseCheck, AtStep
  <2> QED
    BY <1>0, <1>14, <2>1 DEF ReuseCheck, AtStep, Step
<1>15. CASE FreshCheck
  <2>1. Step.edge # "every"
    BY <1>0, <1>15, StepType, StepFields DEF FreshCheck, AtStep, Step
  <2>2. probes'.edge = Step.edge
    BY <1>15 DEF FreshCheck, BeginProbes, NoProbes
  <2> QED
    BY <1>0, <1>15, <2>1, <2>2 DEF FreshCheck, BeginProbes, AtStep, Step
<1>16. ASSUME NEW v \in Rates, Accept(v)
       PROVE  BracketInv'
  <2>1. guard'.lastGood = probes.started
    BY <1>0, <1>16 DEF Accept, Guards
  <2>2. Younger(guard.lastGood)' = {}
    BY <1>0, <1>16, <2>1 DEF Accept, Reads, Younger, TimeInv, Checks
  <2>3. Step.op = "run" => disk[Step.key].row = "done"
    BY <1>0, <1>16 DEF Accept, Reads, PlaceInv
  <2> QED
    BY <1>0, <1>16, <2>2, <2>3 DEF Accept, Reads, Step
<1>17. CASE InvalidProbe \/ \E v \in Rates : Recheck(v) \/ DropConfirmed(v)
  <2>1. pc' = "probing" => probes'.edge = probes.edge
    BY <1>0, <1>17 DEF InvalidProbe, BeginQuarantine, Recheck, DropConfirmed, Checks
  <2>2. disk' = disk /\ pc' \in {"probing", "quarantine"} /\ pc = "probing" /\ at' = at
    BY <1>17 DEF InvalidProbe, BeginQuarantine, Recheck, DropConfirmed, Reads
  <2> QED
    BY <2>1, <2>2 DEF Step
<1>18. CASE (\E k \in Keys : PickKey(k)) \/ \E f \in {"raw", "tele", "row"} : MoveFile(f)
  BY <1>18 DEF PickKey, MoveFile
<1>19. CASE SlowDown \/ Reboot
  BY <1>19 DEF SlowDown, Reboot, process, Younger, Step
<1> QED
  BY <1>5, <1>6, <1>7, <1>8, <1>9, <1>10, <1>11, <1>12, <1>13, <1>14, <1>15, <1>16,
     <1>17, <1>18, <1>19
     DEF Next, ProcessStep, Measure, Bracket, Quarantine

-----------------------------------------------------------------------------
(* Slow rows. *)

\* One more low reading in the list, or one that is not low.
LEMMA AppendLow ==
  ASSUME NEW list \in Seq(Rates), NEW v \in Rates
  PROVE  /\ Cardinality(Low(list)) \in Nat
         /\ v >= FastFloor => Cardinality(Low(Append(list, v))) = Cardinality(Low(list))
         /\ Cardinality(Low(Append(list, v))) <= Cardinality(Low(list)) + 1
<1>1. /\ Len(list) \in Nat /\ DOMAIN list = 1..Len(list)
      /\ DOMAIN Append(list, v) = 1..(Len(list) + 1)
      /\ \A i \in 1..Len(list) : Append(list, v)[i] = list[i]
      /\ Append(list, v)[Len(list) + 1] = v
  OBVIOUS
<1>2. IsFiniteSet(Low(list)) /\ Cardinality(Low(list)) \in Nat /\ Len(list) + 1 \notin Low(list)
  BY <1>1, Positions DEF Low
<1>3. v >= FastFloor => Low(Append(list, v)) = Low(list)
  BY <1>1, Bands DEF Low
<1>4. v < FastFloor => Low(Append(list, v)) = Low(list) \cup {Len(list) + 1}
  BY <1>1, Bands DEF Low
<1>5. Cardinality(Low(list) \cup {Len(list) + 1}) = Cardinality(Low(list)) + 1
  BY <1>2, FS_AddElement
<1>6. v >= FastFloor \/ v < FastFloor
  BY Bands
<1>7. CASE v >= FastFloor
  <2>1. ~(v < FastFloor)
    BY <1>7, Bands
  <2> QED
    BY <1>2, <1>3, <1>7, <2>1
<1>8. CASE v < FastFloor
  <2>1. ~(v >= FastFloor)
    BY <1>8, Bands
  <2>2. Cardinality(Low(Append(list, v))) = Cardinality(Low(list)) + 1
    BY <1>4, <1>5, <1>8
  <2> QED
    BY <1>2, <2>1, <2>2
<1> QED
  BY <1>6, <1>7, <1>8

\* What a probe says of the device, and what the list of readings then looks like.
LEMMA ReadsFacts ==
  ASSUME TypeOK, ProbesInv, NEW v \in Rates, Reads(v)
  PROVE  /\ v > SlowCeiling => device = "fast"
         /\ \A n \in Heard(v) : ~n.sagged =>
              Cardinality(Low(List(v))) <= n.misread /\ n.misread <= MaxGlitches
         /\ Decided(v) => \/ Len(List(v)) = Confirm
                          \/ List(v) = <<v>> /\ ~Degraded(v, guard.readings)
<1>1. noise \in Noises /\ device \in {"fast", "slow"} /\ pc = "probing"
  BY DEF TypeOK, States, Reads
<1>2. probes.list \in Seq(Rates)
  BY DEF TypeOK, Checks
<1>3. v > SlowCeiling => device = "fast"
  BY <1>1, Bands DEF Reads, Heard
<1>4. ASSUME NEW n \in Heard(v), ~n.sagged
      PROVE  Cardinality(Low(List(v))) <= n.misread /\ n.misread <= MaxGlitches
  <2>1. n \in Noises /\ n.misread \in 0..MaxGlitches /\ MaxGlitches \in Nat
    BY <1>4, ConstantsAssumption DEF Heard, Noises
  <2>2. \/ v >= FastFloor /\ n = noise
        \/ n = [noise EXCEPT !.misread = @ + 1]
    BY <1>1, <1>4 DEF Heard, Noises
  <2>3. ~noise.sagged /\ noise.misread \in Nat
    BY <1>1, <1>4, <2>1, <2>2 DEF Noises
  <2>4. Cardinality(Low(probes.list)) <= noise.misread
    BY <1>1, <2>3 DEF ProbesInv
  <2>5. n.misread = noise.misread \/ n.misread = noise.misread + 1
    BY <1>1, <2>2 DEF Noises
  <2>6. CASE v >= FastFloor /\ n = noise
    <3>1. Cardinality(Low(List(v))) = Cardinality(Low(probes.list))
      BY <1>2, <2>6, AppendLow DEF List
    <3> QED
      BY <2>1, <2>4, <2>6, <3>1
  <2>7. CASE n = [noise EXCEPT !.misread = @ + 1]
    <3>1. /\ Cardinality(Low(List(v))) <= Cardinality(Low(probes.list)) + 1
          /\ Cardinality(Low(probes.list)) \in Nat /\ Cardinality(Low(List(v))) \in Nat
      BY <1>2, ListFacts, AppendLow DEF List
    <3>2. n.misread = noise.misread + 1
      BY <1>1, <2>7 DEF Noises
    <3> QED
      BY <2>1, <2>3, <2>4, <3>1, <3>2
  <2> QED
    BY <2>2, <2>6, <2>7
<1>5. probes.list # <<>> => Suspicious(v)
  BY <1>1, <1>2 DEF ProbesInv, Suspicious, List
<1>6. probes.list = <<>> => List(v) = <<v>> /\ List(v)[1] = v
  BY DEF List
<1> QED
  BY <1>3, <1>4, <1>5, <1>6 DEF Decided, Suspicious

\* A check that has read a rate above the slow state meets no open slow row.
LEMMA SlowReadings ==
  ASSUME IInv, NEW v \in Rates, Reads(v), NEW i \in DOMAIN List(v), List(v)[i] > SlowCeiling
  PROVE  \A k \in Keys : ~OpenSlow(k)
<1>1. CASE i = Len(probes.list) + 1
  <2>1. device = "fast"
    BY <1>1, ListFacts, ReadsFacts DEF IInv
  <2> QED
    BY <2>1 DEF IInv, SlowInv
<1>2. CASE i \in DOMAIN probes.list
  BY <1>2, ListFacts DEF IInv, SlowInv, Reads
<1> QED
  BY <1>1, <1>2, ListFacts DEF IInv

LEMMA SlowNext == IInv /\ [Next]_vars => SlowInv'
<1> SUFFICES ASSUME IInv, Next
             PROVE  SlowInv'
  BY DEF vars, process, history, IInv, SlowInv, OpenSlow
<1>0. /\ guard \in Guards /\ probes \in Checks /\ disk \in [Keys -> Files]
      /\ guard.lastGood \in Nat /\ None \notin Keys /\ device \in {"fast", "slow"}
      /\ \A k \in Keys : disk[k].tele \in Nat
  BY ConstantsAssumption DEF IInv, TypeOK, Files, Guards, States
<1>1. pc \in Busy => Step.key \in Keys
  BY RunKey DEF IInv, TypeOK, PlaceInv, Step
<1>2. moving # None => pc = "quarantine"
  BY DEF IInv, PlaceInv
<1>e. Exit => guard'.lastGood = guard.lastGood /\ pc' = "off"
  BY <1>0, GuardNew DEF Exit
<1> USE DEF SlowInv, OpenSlow, Busy
<1>3. CASE BeginRun \/ RunnerEnds \/ OpenTelemetry \/ WriteTelemetry \/ OpenRow
  <2>1. \A k \in Keys : /\ disk'[k].row = "done" => disk[k].row = "done"
                        /\ disk'[k].state = disk[k].state
                        /\ disk[k].row = "done" \/ disk[k].row # "done"
                        /\ \/ disk'[k].tele = disk[k].tele \/ disk'[k].tele > guard.lastGood
                           \/ disk[k].row # "done"
    <3>1. CASE BeginRun \/ RunnerEnds
      BY <1>0, <3>1 DEF BeginRun, RunnerEnds, Files
    <3>2. CASE WriteTelemetry
      <4>1. runUtc > guard.lastGood
        BY <3>2 DEF WriteTelemetry, IInv, TimeInv
      <4> QED
        BY <1>0, <1>1, <3>2, <4>1 DEF WriteTelemetry, Files
    <3>3. CASE OpenRow
      BY <1>0, <1>1, <3>3 DEF OpenRow, Files
    <3>4. CASE OpenTelemetry
      <4>1. disk[Step.key].row = "none"
        BY <3>4 DEF OpenTelemetry, IInv, BracketInv
      <4> QED
        BY <1>0, <1>1, <3>4, <4>1 DEF OpenTelemetry, Files
    <3> QED
      BY <1>3, <3>1, <3>2, <3>3, <3>4
  <2>2. /\ guard'.lastGood = guard.lastGood
        /\ device' = device /\ moving' = moving /\ untrusted' = untrusted
        /\ pc' \in Busy
    BY <1>0, <1>3
       DEF BeginRun, RunnerEnds, OpenTelemetry, WriteTelemetry, OpenRow, Guards, history
  <2>3. pc' \in {"ended", "observing", "telemetered", "writing"} /\ seen' = "slow" =>
          device' = "slow"
    BY <1>0, <1>3 DEF BeginRun, RunnerEnds, OpenTelemetry, WriteTelemetry, OpenRow, IInv
  <2>4. ASSUME NEW k \in Keys, disk'[k].row = "done", disk'[k].state = "slow",
               k \notin untrusted'
        PROVE  device' = "slow" /\ (disk'[k].tele > guard'.lastGood \/ k = moving')
    <3>1. OpenSlow(k)
      BY <2>1, <2>2, <2>4
    <3>2. device = "slow" /\ (disk[k].tele > guard.lastGood \/ k = moving)
      BY <3>1 DEF IInv
    <3> QED
      BY <2>1, <2>2, <3>1, <3>2
  <2> QED
    BY <2>2, <2>3, <2>4
<1>4. CASE CloseRow
  <2>1. \A k \in Keys \ {Step.key} : disk'[k] = disk[k]
    BY <1>0, <1>4 DEF CloseRow
  <2>2. disk'[Step.key].state = seen /\ disk'[Step.key].tele = runUtc
    BY <1>0, <1>1, <1>4 DEF CloseRow, Files, IInv, TimeInv
  <2>3. seen = "slow" => device = "slow"
    BY <1>4 DEF CloseRow, IInv
  <2>4. runUtc > guard.lastGood
    BY <1>4 DEF CloseRow, IInv, TimeInv
  <2>5. UNCHANGED <<device, moving, guard>> /\ untrusted' = untrusted \ {Step.key}
        /\ pc' = "written"
    BY <1>4 DEF CloseRow
  <2> QED
    BY <1>0, <1>1, <2>1, <2>2, <2>3, <2>4, <2>5 DEF IInv
<1>5. CASE After \/ ReuseCheck \/ FreshCheck
  <2>1. guard'.lastGood = guard.lastGood
    BY <1>0, <1>5 DEF After, ReuseCheck, FreshCheck, Guards
  <2>2. pc' = "probing" => probes'.list = <<>>
    BY <1>5 DEF After, ReuseCheck, FreshCheck, AtStep, BeginProbes, NoProbes
  <2>3. UNCHANGED <<device, disk, moving, untrusted>> /\ pc # "off"
        /\ pc' \in {"probing", "next"}
    BY <1>5 DEF After, ReuseCheck, FreshCheck, AtStep, BeginProbes, history
  <2> QED
    BY <2>1, <2>2, <2>3 DEF IInv
<1>6. ASSUME NEW v \in Rates, Recheck(v)
      PROVE  SlowInv'
  <2>1. probes'.list = List(v)
    BY <1>0, <1>6 DEF Recheck, Checks
  <2>2. (\E i \in DOMAIN List(v) : List(v)[i] > SlowCeiling) => \A k \in Keys : ~OpenSlow(k)
    BY <1>6, SlowReadings DEF Recheck
  <2> QED
    BY <1>6, <2>1, <2>2 DEF Recheck, Reads, history, IInv
<1>7. ASSUME NEW v \in Rates, Accept(v)
      PROVE  SlowInv'
  <2>0. guard.readings \in Seq(Rates) /\ Reads(v) /\ ~Degraded(Value(v), guard.readings)
    BY <1>7 DEF Accept, IInv, TypeOK, Guards
  <2>1. \A k \in Keys : ~OpenSlow(k)'
    <3>1. CASE Value(v) > SlowCeiling
      <4>1. \A k \in Keys : ~OpenSlow(k)
        BY <2>0, <3>1, ListFacts, SlowReadings DEF IInv
      <4> QED
        BY <1>7, <3>1, <4>1 DEF Accept
    <3>2. CASE ~(Value(v) > SlowCeiling) /\ FastMajority(guard.readings)
      <4>1. Value(v) \in Rates /\ Value(v) <= SlowCeiling
        BY <3>2, ListFacts, Bands DEF IInv
      <4>2. guard.readings # <<>>
        <5>1. Cardinality({i \in DOMAIN guard.readings : guard.readings[i] < FastFloor}) \in Nat
          BY <2>0, Positions
        <5>2. Len(guard.readings) # 0
          BY <2>0, <3>2, <5>1 DEF FastMajority
        <5> QED
          BY <5>2
      <4> QED
        BY <2>0, <3>2, <4>1, <4>2, ThresholdSeparates
    <3>3. CASE ~(Value(v) > SlowCeiling) /\ ~FastMajority(guard.readings)
      <4>1. untrusted' = untrusted \cup Younger(guard.lastGood) /\ disk' = disk
        BY <1>7, <3>3 DEF Accept
      <4>2. moving = None
        BY <1>2, <2>0 DEF Reads
      <4> QED
        BY <1>0, <4>1, <4>2 DEF Younger, IInv
    <3> QED
      BY <3>1, <3>2, <3>3
  <2> QED
    BY <1>7, <2>1 DEF Accept
<1>8. CASE InvalidProbe \/ \E v \in Rates : DropConfirmed(v)
  <2>1. pc' = "probing" => probes'.list = probes.list
    BY <1>0, <1>8 DEF InvalidProbe, BeginQuarantine, DropConfirmed, Checks
  <2>2. UNCHANGED <<device, disk, guard, moving, untrusted>> /\ pc = "probing"
        /\ pc' \in {"probing", "quarantine"}
    BY <1>8 DEF InvalidProbe, BeginQuarantine, DropConfirmed, Reads, history
  <2> QED
    BY <2>1, <2>2 DEF IInv
<1>9. ASSUME NEW q \in Keys, PickKey(q)
      PROVE  SlowInv'
  BY <1>0, <1>9 DEF PickKey, history, IInv
<1>10. ASSUME NEW f \in {"raw", "tele", "row"}, MoveFile(f)
       PROVE  SlowInv'
  <2>1. \A k \in Keys \ {moving} : disk'[k] = disk[k]
    BY <1>0, <1>10 DEF MoveFile
  <2>2. moving \in Keys /\ pc = "quarantine"
    BY <1>10 DEF MoveFile, IInv, TypeOK
  <2>3. disk'[moving].row = "done" => /\ disk[moving].row = "done" /\ moving' = moving
                                      /\ disk'[moving].state = disk[moving].state
    BY <1>0, <1>10, <2>2 DEF MoveFile, WithoutFile, NoFiles, Files
  <2>4. UNCHANGED <<device, guard, untrusted, pc>>
    BY <1>10 DEF MoveFile, history
  <2> QED
    BY <2>1, <2>2, <2>3, <2>4 DEF IInv
<1>11. CASE Pause
  <2>1. moving = None /\ Younger(guard.lastGood) = {} /\ UNCHANGED <<disk, untrusted>>
    BY <1>11 DEF Pause, history
  <2>2. \A k \in Keys : ~OpenSlow(k)
    BY <1>0, <2>1 DEF Younger, IInv
  <2> QED
    BY <1>11, <1>e, <2>1, <2>2 DEF Pause
<1>12. ASSUME NEW phase, Broken(phase)
       PROVE  SlowInv'
  <2>1. /\ untrusted' = untrusted \cup Younger(guard.lastGood)
                        \cup (IF moving = None THEN {} ELSE {moving})
        /\ disk' = disk /\ pc' = "off"
    BY <1>12, <1>e DEF Broken
  <2>2. \A k \in Keys : ~OpenSlow(k)'
    BY <1>0, <2>1 DEF Younger, IInv
  <2> QED
    BY <2>1, <2>2
<1>13. CASE Finish
  <2>1. at > 1 /\ Program[at - 1] = Check("end")
    BY <1>13, ConstantsAssumption DEF Finish
  <2>2. Younger(guard.lastGood) = {} /\ moving = None /\ UNCHANGED <<disk, untrusted>>
    BY <1>2, <1>13, <2>1 DEF Finish, IInv, BracketInv, history
  <2>3. \A k \in Keys : ~OpenSlow(k)
    BY <1>0, <2>2 DEF Younger, IInv
  <2> QED
    BY <1>13, <1>e, <2>2, <2>3 DEF Finish
<1>14. CASE Start
  BY <1>14 DEF Start, history, IInv
<1>15. ASSUME NEW q \in Keys, MoveAside(q)
       PROVE  SlowInv'
  <2>1. \A k \in Keys : disk'[k].row = disk[k].row /\ disk'[k].state = disk[k].state
    BY <1>0, <1>15 DEF MoveAside, Files
  <2> QED
    BY <1>15, <2>1 DEF MoveAside, process, history, IInv
<1>16. CASE Cached \/ SlowDown \/ Reboot
  BY <1>16 DEF Cached, AtStep, SlowDown, Reboot, process, history, IInv
<1> QED
  BY <1>3, <1>4, <1>5, <1>6, <1>7, <1>8, <1>9, <1>10, <1>11, <1>12, <1>13, <1>14, <1>15,
     <1>16
     DEF Next, ProcessStep, Measure, Bracket, Quarantine, Interrupted, Killed, Failed

LEMMA ProbesNext == IInv /\ [Next]_vars => ProbesInv'
<1> SUFFICES ASSUME IInv, Next
             PROVE  ProbesInv'
  BY DEF vars, process, IInv, ProbesInv
<1>0. guard \in Guards /\ probes \in Checks /\ noise \in Noises /\ Confirm \in Nat \ {0}
  BY ConstantsAssumption DEF IInv, TypeOK
<1> USE DEF ProbesInv
<1>1. CASE After \/ FreshCheck
  <2>1. pc' = "probing" => probes'.list = <<>> /\ noise' = Quiet
    BY <1>1 DEF After, FreshCheck, BeginProbes, NoProbes
  <2>2. Cardinality(Low(<<>>)) = 0
    BY FS_EmptySet DEF Low
  <2>3. ASSUME pc' = "probing"
        PROVE  /\ Len(probes'.list) < Confirm
               /\ Cardinality(Low(probes'.list)) <= noise'.misread
    <3>1. probes'.list = <<>> /\ noise'.misread = 0
      BY <2>1, <2>3, QuietType
    <3>2. Cardinality(Low(probes'.list)) = 0
      BY <2>2, <3>1
    <3> QED
      BY <1>0, <3>1, <3>2
  <2> QED
    BY <2>1, <2>3
<1>2. ASSUME NEW v \in Rates, Recheck(v)
      PROVE  ProbesInv'
  <2>1. probes'.list = List(v) /\ noise' \in Heard(v) /\ guard' = guard
    BY <1>0, <1>2 DEF Recheck, Checks
  <2>2. ~noise'.sagged => Cardinality(Low(List(v))) <= noise'.misread
    BY <1>2, <2>1, ReadsFacts DEF Recheck, IInv
  <2> QED
    BY <1>2, <2>1, <2>2 DEF Recheck, Suspicious
<1>3. CASE InvalidProbe
  BY <1>0, <1>3 DEF InvalidProbe, BeginQuarantine, Checks, IInv
<1>4. CASE SlowDown
  BY <1>4 DEF SlowDown, process, IInv
<1>5. CASE \E k \in Keys : MoveAside(k)
  BY <1>5 DEF MoveAside, process, IInv
<1>6. CASE ~(After \/ FreshCheck \/ InvalidProbe \/ SlowDown)
           /\ ~(\E v \in Rates : Recheck(v)) /\ ~(\E k \in Keys : MoveAside(k))
  <2>1. pc' # "probing"
    BY <1>6 DEF Next, ProcessStep, Measure, Bracket, Quarantine, Start, Finish, Exit, Cached,
         BeginRun, RunnerEnds, OpenTelemetry, WriteTelemetry, OpenRow, CloseRow, ReuseCheck,
         AtStep, Accept, DropConfirmed, BeginQuarantine, PickKey, MoveFile, Pause, Failed,
         Interrupted, Killed, Broken, Reboot, process
  <2> QED
    BY <2>1
<1> QED
  BY <1>1, <1>2, <1>3, <1>4, <1>5, <1>6

-----------------------------------------------------------------------------
(* The reference. *)

\* A step leaves the readings, empties them or appends a value that passed the test.
LEMMA ReadingsSteps ==
  ASSUME TypeOK, Next
  PROVE  \/ guard'.readings = guard.readings
         \/ guard'.readings = <<>>
         \/ \E x \in Rates : /\ ~Degraded(x, guard.readings)
                             /\ guard'.readings = Append(guard.readings, x)
<1>0. guard \in Guards
  BY DEF TypeOK
<1>1. CASE Start
  BY <1>1 DEF Start, NewGuard
<1>2. CASE Finish \/ Pause \/ Interrupted \/ Killed \/ Failed
  BY <1>2 DEF Finish, Pause, Interrupted, Killed, Failed, Broken, Exit, NewGuard
<1>3. ASSUME NEW v \in Rates, Accept(v)
      PROVE  \E x \in Rates : /\ ~Degraded(x, guard.readings)
                              /\ guard'.readings = Append(guard.readings, x)
  <2>1. Value(v) \in Rates
    BY ListFacts
  <2>2. guard'.readings = Append(guard.readings, Value(v))
    BY <1>0, <1>3 DEF Accept, Guards
  <2> QED
    BY <1>3, <2>1, <2>2 DEF Accept
<1>4. CASE BeginRun \/ After \/ ReuseCheck \/ FreshCheck
  BY <1>0, <1>4 DEF BeginRun, After, ReuseCheck, FreshCheck, Guards
<1>5. CASE UNCHANGED guard
  BY <1>5
<1> QED
  BY <1>1, <1>2, <1>3, <1>4, <1>5
     DEF process, Next, ProcessStep, Measure, Bracket, Quarantine, Cached, RunnerEnds,
         OpenTelemetry, WriteTelemetry, OpenRow, CloseRow, InvalidProbe, BeginQuarantine,
         Recheck, DropConfirmed, PickKey, MoveFile, MoveAside, SlowDown, Reboot

LEMMA DriftNext == TypeOK /\ DriftNeedsMajority /\ [Next]_vars => DriftNeedsMajority'
<1> SUFFICES ASSUME TypeOK, DriftNeedsMajority, Next
             PROVE  DriftNeedsMajority'
  BY DEF vars, process, DriftNeedsMajority
<1> DEFINE r == guard.readings
<1>0. r \in Seq(Rates) /\ Len(r) \in Nat
  BY DEF TypeOK, Guards
<1>1. CASE guard'.readings = r
  BY <1>1 DEF DriftNeedsMajority
<1>2. CASE guard'.readings = <<>>
  BY <1>2 DEF DriftNeedsMajority
<1>3. ASSUME NEW x \in Rates, ~Degraded(x, r), guard'.readings = Append(r, x)
      PROVE  DriftNeedsMajority'
  <2> SUFFICES ASSUME NEW n \in 1..(Len(r) + 1), Append(r, x)[n] <= SlowCeiling,
                      FastMajority(SubSeq(Append(r, x), 1, n - 1))
               PROVE  FALSE
    BY <1>0, <1>3 DEF DriftNeedsMajority
  <2>1. SubSeq(Append(r, x), 1, n - 1) = SubSeq(r, 1, n - 1)
    BY <1>0
  <2>2. CASE n \in 1..Len(r)
    <3>1. Append(r, x)[n] = r[n] /\ n \in DOMAIN r
      BY <1>0, <2>2
    <3> QED
      BY <2>1, <3>1 DEF DriftNeedsMajority
  <2>3. CASE n = Len(r) + 1
    <3>1. x <= SlowCeiling
      BY <1>0, <2>3
    <3>2. SubSeq(r, 1, n - 1) = r
      BY <1>0, <2>3
    <3>3. FastMajority(r)
      BY <2>1, <3>2
    <3>4. r # <<>>
      <4>1. Cardinality({i \in DOMAIN r : r[i] < FastFloor}) \in Nat
        BY <1>0, Positions
      <4>2. Len(r) # 0
        BY <1>0, <3>3, <4>1 DEF FastMajority
      <4> QED
        BY <4>2
    <3> QED
      BY <1>0, <1>3, <3>1, <3>3, <3>4, ThresholdSeparates
  <2> QED
    BY <1>0, <2>2, <2>3
<1> QED
  BY <1>1, <1>2, <1>3, ReadingsSteps

-----------------------------------------------------------------------------
(* The theorems. *)

LEMMA Inductive == Spec => []IInv
<1>1. Init => IInv
  BY TypeInit, TimeInit, BracketInit DEF IInv
<1>2. IInv /\ [Next]_vars => IInv'
  BY TypeNext, TimeNext, BracketNext, SlowNext, ProbesNext, DriftNext DEF IInv
<1> QED
  BY <1>1, <1>2, PTL DEF Spec

\* The state keeps its types, the files and the Guard's fields included.
THEOREM TypeCorrect == Spec => []TypeOK
<1>1. IInv => TypeOK
  BY DEF IInv
<1> QED
  BY <1>1, Inductive, PTL

\* Whatever the plan, the restarts and the misread probes: a slow row is in the open
\* interval, or its interval was never closed by a fast sentinel.
THEOREM SlowRows == Spec => []SlowRowsExplained
<1>1. IInv => SlowRowsExplained
  BY DEF IInv, SlowInv, OpenSlow, SlowRowsExplained
<1> QED
  BY <1>1, Inductive, PTL

\* A finished plan has every row, and a probe closed the interval of each.
THEOREM FinishedBracketed == Spec => []FinishedIsBracketed
<1>1. Init => FinishedIsBracketed
  BY DEF Init, FinishedIsBracketed
<1>2. IInv /\ FinishedIsBracketed /\ [Next]_vars => FinishedIsBracketed'
  <2> SUFFICES ASSUME IInv, FinishedIsBracketed, [Next]_vars, workflow' = "finished",
                      NEW i \in 1..Len(Program), Program[i].op = "run"
               PROVE  /\ disk'[Program[i].key].row = "done"
                      /\ disk'[Program[i].key].tele <= guard'.lastGood
    BY DEF FinishedIsBracketed
  <2>1. Program[i].key \in Keys
    BY RunKey
  <2>2. workflow = "finished" => pc = "off"
    BY DEF IInv, PlaceInv
  <2>3. CASE Finish
    <3>1. i \in 1..(at - 1) /\ at > 1 /\ Program[at - 1] = Check("end")
      BY <2>3, ConstantsAssumption DEF Finish
    <3>2. Younger(guard.lastGood) = {} /\ disk[Program[i].key].row = "done"
      BY <2>3, <3>1 DEF Finish, IInv, BracketInv
    <3>3. disk[Program[i].key].tele \in Nat /\ guard.lastGood \in Nat
      BY <2>1 DEF IInv, TypeOK, Files, Guards
    <3>4. guard'.lastGood = guard.lastGood
      BY <2>3, <3>3, GuardNew DEF Finish, Exit
    <3> QED
      BY <2>1, <2>3, <3>2, <3>3, <3>4 DEF Finish, Younger
  <2>4. CASE \E k \in Keys : MoveAside(k)
    <3>1. /\ disk'[Program[i].key].row = disk[Program[i].key].row
          /\ disk'[Program[i].key].tele = disk[Program[i].key].tele
      BY <2>1, <2>4 DEF MoveAside, IInv, TypeOK, Files
    <3> QED
      BY <2>4, <3>1 DEF MoveAside, process, FinishedIsBracketed
  <2>5. CASE SlowDown \/ Reboot \/ UNCHANGED vars
    BY <2>5 DEF SlowDown, Reboot, vars, process, FinishedIsBracketed
  <2>6. CASE Start \/ Pause
    BY <2>6 DEF Start, Pause, IInv, TypeOK
  <2>7. CASE pc # "off" /\ workflow' = workflow
    BY <2>2, <2>7
  <2>8. CASE Interrupted \/ Killed \/ Failed
    BY <2>2, <2>8 DEF Interrupted, Killed, Failed, Broken
  <2> QED
    BY <2>3, <2>4, <2>5, <2>6, <2>7, <2>8
       DEF Next, ProcessStep, Measure, Bracket, Quarantine, Cached, AtStep, BeginRun,
           RunnerEnds, OpenTelemetry, WriteTelemetry, OpenRow, CloseRow, After, ReuseCheck,
           FreshCheck, InvalidProbe, BeginQuarantine, Recheck, Accept, DropConfirmed, Reads,
           PickKey, MoveFile
<1> QED
  BY <1>1, <1>2, Inductive, PTL DEF Spec

\* A row that is there is never written again; only quarantine takes it away.
THEOREM RowsPreserved == Spec => RowsArePreserved
<1>1. IInv /\ [Next]_vars =>
        [\A k \in Keys : disk[k].row = "done" /\ disk'[k] # disk[k] =>
            pc = "quarantine" /\ moving = k]_vars
  <2> SUFFICES ASSUME IInv, Next, NEW k \in Keys, disk[k].row = "done", disk'[k] # disk[k]
               PROVE  pc = "quarantine" /\ moving = k
    OBVIOUS
  <2>0. disk \in [Keys -> Files]
    BY DEF IInv, TypeOK
  <2>1. CASE BeginRun \/ OpenTelemetry \/ WriteTelemetry \/ OpenRow \/ CloseRow
    <3>1. k = Step.key
      BY <2>0, <2>1 DEF BeginRun, OpenTelemetry, WriteTelemetry, OpenRow, CloseRow
    <3>2. disk[Step.key].row # "done"
      BY <2>1
         DEF BeginRun, OpenTelemetry, WriteTelemetry, OpenRow, CloseRow, IInv, BracketInv
    <3> QED
      BY <3>1, <3>2
  <2>2. CASE \E f \in {"raw", "tele", "row"} : MoveFile(f)
    BY <2>0, <2>2 DEF MoveFile
  <2>3. CASE \E q \in Keys : MoveAside(q)
    BY <2>0, <2>3 DEF MoveAside
  <2> QED
    BY <2>1, <2>2, <2>3
       DEF Next, ProcessStep, Measure, Bracket, Quarantine, Start, Finish, Cached,
           RunnerEnds, After, ReuseCheck, FreshCheck, InvalidProbe, BeginQuarantine,
           Recheck, Accept, DropConfirmed, PickKey, Pause, Failed, Interrupted, Killed,
           Broken, SlowDown, Reboot
<1> QED
  BY <1>1, Inductive, PTL DEF Spec, RowsArePreserved

\* With a fast majority among the readings of a check its median is a fast one, and no
\* reference makes that a drop.
LEMMA FastCheckPasses ==
  ASSUME IInv, NEW v \in Rates, FastMajority(List(v))
  PROVE  ~Degraded(Value(v), guard.readings)
<1>1. guard.readings \in Seq(Rates)
  BY DEF IInv, TypeOK, Guards
<1>2. Value(v) \in Rates /\ Value(v) >= FastFloor
  BY ListFacts, MedianFacts DEF IInv, Value
<1> QED
  BY <1>1, <1>2, ThresholdSeparates

\* A confirmed drop has met a device below full speed, for any plan and any history, as
\* long as under half of the readings of a check are misread.
THEOREM DropsAreReal ==
  ASSUME 2 * MaxGlitches < Confirm
  PROVE  Spec => []NoFalseAlarm
<1>1. Init => NoFalseAlarm
  BY DEF Init, NoFalseAlarm
<1>2. IInv /\ NoFalseAlarm /\ [Next]_vars => NoFalseAlarm'
  <2> SUFFICES ASSUME IInv, NoFalseAlarm, [Next]_vars,
                      pc' = "quarantine", verdict' = "paused_device_degraded"
               PROVE  noise'.sagged
    BY DEF NoFalseAlarm
  <2>1. ASSUME NEW v \in Rates, DropConfirmed(v)
        PROVE  noise'.sagged
    <3> SUFFICES ASSUME ~noise'.sagged
                 PROVE  FALSE
      OBVIOUS
    <3>1. Reads(v) /\ Decided(v) /\ noise' \in Heard(v) /\ Degraded(Value(v), guard.readings)
      BY <2>1 DEF DropConfirmed
    <3>2. Cardinality(Low(List(v))) <= noise'.misread /\ noise'.misread <= MaxGlitches
      BY <3>1, ReadsFacts DEF IInv
    <3>3. CASE Len(List(v)) = Confirm
      <4>1. Cardinality(Low(List(v))) \in Nat /\ noise'.misread \in Nat
        BY <3>1, ListFacts, Positions DEF Heard, Noises, Low, IInv
      <4>2. 2 * Cardinality(Low(List(v))) < Len(List(v))
        <5>1. MaxGlitches \in Nat /\ Confirm \in Nat
          BY ConstantsAssumption
        <5> QED
          BY <3>2, <3>3, <4>1, <5>1
      <4>3. FastMajority(List(v))
        BY <4>2 DEF FastMajority, Low
      <4> QED
        BY <3>1, <4>3, FastCheckPasses
    <3>4. CASE List(v) = <<v>> /\ ~Degraded(v, guard.readings)
      BY <3>1, <3>4, LoneReading DEF Value
    <3> QED
      BY <3>1, <3>3, <3>4, ReadsFacts DEF IInv
  <2>2. CASE Start
    BY <2>2 DEF Start
  <2>3. CASE InvalidProbe
    BY <2>3 DEF InvalidProbe, BeginQuarantine
  <2>4. CASE UNCHANGED <<noise, pc, verdict>>
    BY <2>4 DEF NoFalseAlarm
  <2>5. CASE pc' # "quarantine"
    BY <2>5
  <2> QED
    BY <2>1, <2>2, <2>3, <2>4, <2>5
       DEF vars, process, Next, ProcessStep, Measure, Bracket, Quarantine, Finish, Exit,
           Cached, AtStep, BeginRun, RunnerEnds, OpenTelemetry, WriteTelemetry, OpenRow,
           CloseRow, After, ReuseCheck, FreshCheck, BeginProbes, Recheck, Accept, Reads,
           PickKey, MoveFile, Pause, Failed, Interrupted, Killed, Broken, MoveAside,
           SlowDown, Reboot
<1> QED
  BY <1>1, <1>2, Inductive, PTL DEF Spec

\* Whatever the scatter of the readings and however long they sink: a reading of the
\* slow state joins the reference only when at least half of the readings before it had
\* already left the fast state.
THEOREM DriftIsMajority == Spec => []DriftNeedsMajority
<1>1. IInv => DriftNeedsMajority
  BY DEF IInv
<1> QED
  BY <1>1, Inductive, PTL
=============================================================================
