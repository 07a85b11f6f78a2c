------------------------- MODULE Confirmation_proofs -------------------------
(***************************************************************************)
(* For any roofs, configurations, rates, drifts, plans and check interval: *)
(* when roofs are chosen every planned repeat has its row; a row that was  *)
(* written leaves confirm/ only when the Guard isolates the open interval; *)
(* a run exports the best group it confirmed and the report names the best *)
(* of all runs, in whatever order the files are listed; and in an          *)
(* uninterrupted run drift does not beat a faster configuration.           *)
(*                                                                         *)
(* The first follows from an invariant of the run in progress (IInv): the  *)
(* positions before the present one have their rows.  For the exported     *)
(* roofs the loops over a listing are followed position by position        *)
(* (WinnerIsBest, PeakIsRight), and the sorted listing that a median reads *)
(* is shown to exist.  For the drift, an invariant ties every row of an    *)
(* uninterrupted run to the time of its turn (Straight): the two repeats   *)
(* in the middle then lie, whatever repeat was lost, within one pass       *)
(* (MiddleTime).                                                           *)
(***************************************************************************)
EXTENDS Confirmation, FiniteSetTheorems, WellFoundedInduction, TLAPS

\* A row for candidate number n of this run in repeat i.
Has(n, i) == \E r \in rows : r.config = work[n] /\ r.reps = plan.reps /\ r.replicate = i

\* The candidate that comes p-th in the present pass.
Place(p) == IF pass % 2 = 0 THEN p ELSE Len(work) + 1 - p

Shape ==
  /\ work \in Seq(Configs) /\ plan \in Plans
  /\ pass \in 0..plan.reps /\ at \in Nat
  /\ work # <<>> => at \in 1..Len(work)

Complete ==
  /\ \A n \in DOMAIN work, i \in 0..(pass - 1) : Has(n, i)
  /\ \A p \in 1..(at - 1) : Has(Place(p), pass)

IInv ==
  /\ Shape
  /\ pc \in {"confirm", "select"} => Complete
  /\ pc = "select" => Finished

\* Every order of candidates is a sequence of configurations.
LEMMA WorkListsAreSequences ==
  ASSUME NEW top
  PROVE  WorkLists(top) \subseteq Seq(Configs)
<1>1. Cardinality(Configs) \in Nat
  BY ConstantsAssumption, FS_CardinalityType
<1>2. \A n \in 0..Cardinality(Configs) : [1..n -> Configs] \subseteq Seq(Configs)
  BY <1>1
<1> QED BY <1>2 DEF WorkLists

LEMMA PlanType ==
  ASSUME NEW p \in Plans
  PROVE  p.reps \in Nat \ {0} /\ p.top \in Nat \ {0}
  BY ConstantsAssumption

LEMMA InitIInv == Init => IInv
<1> SUFFICES ASSUME Init PROVE IInv
  OBVIOUS
<1>1. plan \in Plans
  BY ConstantsAssumption DEF Init
<1>2. plan.reps \in Nat
  BY <1>1, PlanType
<1> QED BY <1>1, <1>2 DEF Init, IInv, Shape

\* After the row that is due is there, going on keeps the invariant: this covers both
\* the configuration that was measured and the one that was found.
LEMMA AdvanceKeepsIInv ==
  ASSUME IInv, Measuring, Advance, rows \subseteq rows',
         \E r \in rows' : r.config = Due /\ r.reps = plan.reps /\ r.replicate = pass
  PROVE  IInv'
<1> DEFINE N == Len(work)
           HasNow(n, i) == \E r \in rows' : r.config = work[n] /\ r.reps = plan.reps
                                            /\ r.replicate = i
<1>1. /\ work \in Seq(Configs) /\ work # <<>> /\ plan \in Plans /\ pass \in Nat
      /\ at \in 1..N /\ N \in Nat \ {0} /\ DOMAIN work = 1..N /\ pc = "confirm"
  <2>1. work \in Seq(Configs) /\ work # <<>> /\ plan \in Plans /\ at \in 1..N
        /\ pc = "confirm" /\ pass \in 0..plan.reps
    BY DEF IInv, Shape, Measuring, Finished
  <2> QED BY <2>1, PlanType
<1>2. plan.reps \in Nat /\ pass < plan.reps
  <2>1. plan.reps \in Nat /\ pass \in 0..plan.reps /\ pass # plan.reps
    BY <1>1, PlanType DEF IInv, Shape, Measuring, Finished
  <2> QED BY <2>1
<1>3. /\ work' = work /\ plan' = plan /\ pc' = pc
      /\ at' = (IF at < N THEN at + 1 ELSE 1)
      /\ pass' = (IF at < N THEN pass ELSE pass + 1)
  BY DEF Advance
<1>4. Shape'
  BY <1>1, <1>2, <1>3 DEF Shape
<1>5. \A n \in 1..N, i \in 0..(pass - 1) : HasNow(n, i)
  BY <1>1 DEF IInv, Complete, Has
<1>6. \A p \in 1..(at - 1) : HasNow(Place(p), pass)
  BY <1>1 DEF IInv, Complete, Has
<1>7. HasNow(Place(at), pass)
  <2>1. Due = work[Place(at)]
    BY DEF Due, Place
  <2> QED BY <2>1
<1>8. \A p \in 1..at : HasNow(Place(p), pass)
  BY <1>1, <1>6, <1>7
<1> HIDE DEF HasNow
<1>9. Complete'
  <2>1. CASE at < N
    <3>1. at' = at + 1 /\ pass' = pass
      BY <2>1, <1>3
    <3>2. \A p \in 1..(at' - 1) : HasNow(Place(p), pass)
      BY <3>1, <1>8, <1>1
    <3> QED BY <3>1, <3>2, <1>5, <1>3, <1>1 DEF Complete, Has, HasNow, Place
  <2>2. CASE at = N
    <3>1. at' = 1 /\ pass' = pass + 1
      BY <2>2, <1>3, <1>1
    <3>2. \A n \in 1..N : HasNow(n, pass)
      <4> TAKE n \in 1..N
      <4>1. CASE pass % 2 = 0
        BY <4>1, <2>2, <1>8 DEF Place
      <4>2. CASE pass % 2 # 0
        <5>1. N + 1 - n \in 1..at /\ N + 1 - (N + 1 - n) = n
          BY <2>2, <1>1
        <5>2. Place(N + 1 - n) = n
          BY <5>1, <4>2 DEF Place
        <5> QED BY <5>1, <5>2, <1>8
      <4> QED BY <4>1, <4>2
    <3>3. \A n \in 1..N, i \in 0..pass : HasNow(n, i)
      <4> TAKE n \in 1..N, i \in 0..pass
      <4>1. i = pass \/ i \in 0..(pass - 1)
        BY <1>1
      <4> QED BY <4>1, <1>5, <3>2
    <3>4. 1..(at' - 1) = {} /\ 0..(pass' - 1) = 0..pass
      BY <3>1, <1>1
    <3> QED BY <3>3, <3>4, <1>3, <1>1 DEF Complete, Has, HasNow
  <2>3. at < N \/ at = N
    <3>1. at \in 1..N /\ N \in Nat
      BY <1>1
    <3> HIDE DEF N
    <3> QED BY <3>1
  <2> QED BY <2>1, <2>2, <2>3
<1> QED BY <1>1, <1>3, <1>4, <1>9 DEF IInv

LEMMA NextIInv == IInv /\ [Next]_vars => IInv'
<1> SUFFICES ASSUME IInv, [Next]_vars PROVE IInv'
  OBVIOUS
<1>1. CASE Start
  <2>1. plan' \in Plans /\ work' \in Seq(Configs) /\ pass' = 0 /\ at' = 1
        /\ pc' = "confirm"
    BY <1>1, WorkListsAreSequences DEF Start
  <2>2. plan'.reps \in Nat
    BY <2>1, PlanType
  <2>3. Shape'
    BY <2>1, <2>2 DEF Shape
  <2>4. Complete'
    BY <2>1 DEF Complete
  <2> QED BY <2>1, <2>3, <2>4 DEF IInv
<1>2. CASE Skip
  <2>1. \E r \in rows : r.config = Due /\ r.reps = plan.reps /\ r.replicate = pass
    BY <1>2 DEF Skip, HasRow, Stored
  <2>2. Measuring /\ Advance /\ rows' = rows
    BY <1>2 DEF Skip
  <2> QED BY <2>1, <2>2, AdvanceKeepsIInv
<1>3. CASE Measure
  <2>1. Measuring /\ Advance
    BY <1>3 DEF Measure
  <2>2. PICK ok \in BOOLEAN :
          rows' = (rows \ Stored) \cup
                  {[config |-> Due, reps |-> plan.reps, replicate |-> pass,
                    rate |-> base[Due] - drift * time, ok |-> ok]}
    BY <1>3 DEF Measure
  <2> DEFINE row == [config |-> Due, reps |-> plan.reps, replicate |-> pass,
                     rate |-> base[Due] - drift * time, ok |-> ok]
  <2>3. Stored = {}
    BY <1>3 DEF Measure, HasRow
  <2>4. rows \subseteq rows'
    BY <2>2, <2>3
  <2>5. \E r \in rows' : r.config = Due /\ r.reps = plan.reps /\ r.replicate = pass
    <3>1. row \in rows'
      BY <2>2
    <3>2. row.config = Due /\ row.reps = plan.reps /\ row.replicate = pass
      OBVIOUS
    <3> QED BY <3>1, <3>2
  <2> QED BY <2>1, <2>4, <2>5, AdvanceKeepsIInv
<1>4. CASE CheckAccepted
  <2>1. /\ UNCHANGED <<plan, work, pass, at, rows>>
        /\ pc = "confirm"
        /\ pc' = IF Finished THEN "select" ELSE pc
    BY <1>4 DEF CheckAccepted, Checking
  <2>2. Shape' /\ Complete' /\ (Finished' <=> Finished)
    BY <2>1 DEF IInv, Shape, Complete, Has, Place, Finished
  <2> QED BY <2>1, <2>2 DEF IInv
<1>5. CASE CheckFails
  BY <1>5 DEF CheckFails, IInv, Shape
<1>6. CASE Interrupt
  BY <1>6 DEF Interrupt, IInv, Shape
<1>7. CASE Select
  BY <1>7 DEF Select, IInv, Shape
<1>8. CASE UNCHANGED vars
  BY <1>8 DEF vars, IInv, Shape, Complete, Has, Place, Finished
<1> QED BY <1>1, <1>2, <1>3, <1>4, <1>5, <1>6, <1>7, <1>8 DEF Next

LEMMA IInvRepeats == IInv => RepeatsAreComplete
<1> SUFFICES ASSUME IInv, pc = "select",
                    NEW n \in DOMAIN work, NEW i \in 0..(plan.reps - 1)
             PROVE  Has(n, i)
  BY DEF RepeatsAreComplete, Has
<1>1. work # <<>>
  BY DEF IInv, Shape
<1>2. pass = plan.reps /\ Complete
  BY <1>1 DEF IInv, Finished
<1> QED BY <1>2 DEF Complete

(* When roofs are chosen, every candidate of the run has all its planned repeats,
   whatever was interrupted, isolated and measured again before (confirm and the Guard
   of stages.py, Session.run). *)
THEOREM RepeatsAreCompleteAlways == Spec => []RepeatsAreComplete
  BY InitIInv, NextIInv, IInvRepeats, PTL DEF Spec

(* No step takes a row out of confirm/ but the isolation of the open interval, so the
   repeats that failed stay in the denominator (confirmed_groups of admission.py). *)
THEOREM AttemptsStayAlways == Spec => AttemptsStay
<1> DEFINE Stays == \A r \in rows : r \notin rows' => r \in recent /\ pc' = "off"
<1>1. [Next]_vars => [Stays]_vars
  <2> SUFFICES ASSUME Next PROVE Stays
    OBVIOUS
  <2>1. CASE Measure
    BY <2>1 DEF Measure, HasRow
  <2>2. CASE CheckFails
    BY <2>2 DEF CheckFails
  <2>3. CASE Start \/ Skip \/ CheckAccepted \/ Interrupt \/ Select
    BY <2>3 DEF Start, Skip, CheckAccepted, Interrupt, Select
  <2> QED BY <2>1, <2>2, <2>3 DEF Next
<1> QED BY <1>1, PTL DEF Spec, AttemptsStay
-----------------------------------------------------------------------------
(* Finite sets, sorted listings and folds. *)

\* A set of naturals has a least element.
LEMMA LeastOf ==
  ASSUME NEW T \in SUBSET Nat, T # {}
  PROVE  \E x \in T : \A y \in T : x <= y
<1> DEFINE R == OpToRel(<, Nat)
<1>1. IsWellFoundedOn(R, Nat)
  BY NatLessThanWellFounded
<1>2. \A x, y \in Nat : <<y, x>> \in R <=> y < x
  BY DEF OpToRel
<1> HIDE DEF R
<1>3. PICK x \in T : \A y \in T : ~(<<y, x>> \in R)
  BY <1>1, WFMin
<1>4. ASSUME NEW y \in T PROVE x <= y
  <2>1. x \in Nat /\ y \in Nat /\ ~(y < x)
    BY <1>2, <1>3
  <2> QED BY <2>1
<1> QED BY <1>4

\* A finite set has an element whose key is greatest: the one with most elements below it.
LEMMA GreatestOf ==
  ASSUME NEW S, IsFiniteSet(S), S # {}, NEW key \in [S -> Int]
  PROVE  \E x \in S : \A y \in S : key[y] <= key[x]
<1> DEFINE Below(x) == {y \in S : key[y] < key[x]}
           Left(x) == Cardinality(S) - Cardinality(Below(x))
           left == {Left(x) : x \in S}
<1>1. Cardinality(S) \in Nat
  BY FS_CardinalityType
<1>2. ASSUME NEW x \in S
      PROVE  /\ IsFiniteSet(Below(x)) /\ Cardinality(Below(x)) \in Nat
             /\ Cardinality(Below(x)) <= Cardinality(S)
  <2>1. Below(x) \in SUBSET S
    OBVIOUS
  <2> HIDE DEF Below
  <2> QED BY <2>1, FS_Subset, FS_CardinalityType
<1>3. left \in SUBSET Nat /\ left # {}
  <2> HIDE DEF Below
  <2> QED BY <1>1, <1>2
<1>4. PICK l \in left : \A m \in left : l <= m
  <2> HIDE DEF left
  <2> QED BY <1>3, LeastOf
<1>5. PICK x \in S : l = Left(x)
  OBVIOUS
<1>6. ASSUME NEW y \in S, key[y] > key[x] PROVE FALSE
  <2>1. Below(x) \in SUBSET Below(y) /\ x \in Below(y) /\ x \notin Below(x)
    <3>1. key[x] \in Int /\ key[y] \in Int
      OBVIOUS
    <3>2. \A z \in S : key[z] \in Int
      OBVIOUS
    <3> QED BY <3>1, <3>2, <1>6
  <2>2. Left(x) <= Left(y)
    BY <1>4, <1>5
  <2> HIDE DEF Below
  <2>3. Cardinality(Below(x)) <= Cardinality(Below(y))
    BY <2>1, <1>2, FS_Subset
  <2>4. Cardinality(Below(x)) = Cardinality(Below(y))
    BY <2>2, <2>3, <1>1, <1>2
  <2> QED BY <2>1, <2>4, <1>2, FS_Subset
<1>7. ASSUME NEW y \in S PROVE key[y] <= key[x]
  <2>1. key[x] \in Int /\ key[y] \in Int
    OBVIOUS
  <2> QED BY <2>1, <1>6
<1> QED BY <1>7

\* A finite set has a listing by rising keys.
LEMMA SortedListing ==
  ASSUME NEW S, IsFiniteSet(S), NEW key \in [S -> Int]
  PROVE  \E s \in SetToSeqs(S) : \A m, n \in DOMAIN s : m < n => key[s[m]] <= key[s[n]]
<1> DEFINE Sorts(T, s) == \A m, n \in DOMAIN s : m < n => key[s[m]] <= key[s[n]]
           Can(T) == \E s \in SetToSeqs(T) : Sorts(T, s)
           bad == {Cardinality(T) : T \in {U \in SUBSET S : ~Can(U)}}
<1>1. \A T \in SUBSET S : IsFiniteSet(T) /\ Cardinality(T) \in Nat
  BY FS_Subset, FS_CardinalityType
<1>2. SUFFICES ASSUME ~Can(S) PROVE FALSE
  OBVIOUS
<1>3. bad \in SUBSET Nat /\ bad # {}
  <2> HIDE DEF Can
  <2> QED BY <1>1, <1>2
<1>4. PICK c \in bad : \A d \in bad : c <= d
  <2> HIDE DEF bad
  <2> QED BY <1>3, LeastOf
<1>5. PICK T \in SUBSET S : ~Can(T) /\ c = Cardinality(T)
  <2> HIDE DEF Can
  <2> QED BY <1>4
<1>6. T # {}
  <2> SUFFICES ASSUME T = {} PROVE FALSE
    OBVIOUS
  <2>1. 1..Cardinality(T) = {}
    BY FS_EmptySet
  <2>2. [x \in {} |-> x] \in SetToSeqs(T)
    BY <2>1 DEF SetToSeqs
  <2>3. Sorts(T, [x \in {} |-> x])
    OBVIOUS
  <2> QED BY <2>2, <2>3, <1>5
<1>7. PICK r \in T : \A y \in T : key[y] <= key[r]
  <2> DEFINE k == [x \in T |-> key[x]]
  <2>1. k \in [T -> Int]
    OBVIOUS
  <2>2. \A x \in T : k[x] = key[x]
    OBVIOUS
  <2> HIDE DEF k
  <2>3. \E x \in T : \A y \in T : k[y] <= k[x]
    BY <2>1, <1>1, <1>6, GreatestOf
  <2> QED BY <2>2, <2>3
<1> DEFINE U == T \ {r}
           N == Cardinality(T)
<1>8. U \in SUBSET S /\ Cardinality(U) = N - 1 /\ N \in Nat /\ N - 1 \in Nat
  <2>1. Cardinality(U) = N - 1
    BY <1>1, FS_RemoveElement
  <2>2. U \in SUBSET S
    OBVIOUS
  <2>3. Cardinality(U) \in Nat
    BY <2>2, <1>1
  <2> QED BY <2>1, <2>2, <2>3, <1>1
<1>9. PICK s \in SetToSeqs(U) : Sorts(U, s)
  <2>1. Can(U)
    <3> HIDE DEF Can
    <3>1. ASSUME ~Can(U) PROVE FALSE
      <4>1. Cardinality(U) \in bad
        BY <3>1, <1>8
      <4>2. N <= Cardinality(U)
        BY <4>1, <1>4, <1>5
      <4> QED BY <4>2, <1>8
    <3> QED BY <3>1
  <2> QED BY <2>1
<1> DEFINE t == [i \in 1..N |-> IF i < N THEN s[i] ELSE r]
<1>10. /\ s \in [1..(N - 1) -> U]
       /\ \A i, j \in 1..(N - 1) : i # j => s[i] # s[j]
  BY <1>8 DEF SetToSeqs
<1>11. \A i \in 1..N : \/ i = N /\ t[i] = r
                       \/ i \in 1..(N - 1) /\ t[i] = s[i] /\ t[i] \in U
  <2>1. \A i \in 1..N : (i = N /\ ~(i < N)) \/ (i \in 1..(N - 1) /\ i < N)
    BY <1>8
  <2> HIDE DEF N, U
  <2> QED BY <2>1, <1>10
<1>12. t \in SetToSeqs(T)
  <2>1. t \in [1..N -> T]
    <3>1. \A i \in 1..N : t[i] \in T
      BY <1>11
    <3> QED BY <3>1
  <2>2. \A i, j \in 1..N : i # j => t[i] # t[j]
    <3> HIDE DEF t, N
    <3> QED BY <1>10, <1>11
  <2> QED BY <2>1, <2>2 DEF SetToSeqs
<1>13. Sorts(T, t)
  <2>1. DOMAIN t = 1..N
    OBVIOUS
  <2>2. DOMAIN s = 1..(N - 1)
    BY <1>10
  <2>3. \A i \in 1..N : t[i] \in T
    BY <1>12 DEF SetToSeqs
  <2> HIDE DEF t
  <2> SUFFICES ASSUME NEW m \in 1..N, NEW n \in 1..N, m < n PROVE key[t[m]] <= key[t[n]]
    BY <2>1
  <2>4. m \in 1..(N - 1) /\ t[m] = s[m]
    BY <1>11, <1>8
  <2>5. CASE n = N
    BY <2>5, <1>7, <1>11, <2>3, <1>8
  <2>6. CASE n # N
    <3>1. n \in 1..(N - 1) /\ t[n] = s[n]
      BY <2>6, <1>11
    <3> QED BY <3>1, <2>4, <2>2, <1>9
  <2> QED BY <2>5, <2>6
<1> QED BY <1>12, <1>13, <1>5
\* A bounded set of numbers has a maximum.
LEMMA MaxOf ==
  ASSUME NEW n \in Nat, NEW s \in SUBSET (1..n), s # {}
  PROVE  Max(s) \in s /\ \A y \in s : Max(s) >= y
<1> DEFINE all == 1..n
<1>1. IsFiniteSet(s)
  <2>1. IsFiniteSet(all) /\ s \in SUBSET all
    BY FS_Interval
  <2> HIDE DEF all
  <2> QED BY <2>1, FS_Subset
<1> DEFINE key == [x \in s |-> x]
<1>2. key \in [s -> Int] /\ \A x \in s : key[x] = x
  OBVIOUS
<1> HIDE DEF key
<1>3. PICK x \in s : \A y \in s : key[y] <= key[x]
  BY <1>1, <1>2, GreatestOf
<1>4. \E z \in s : \A y \in s : z >= y
  <2>1. ASSUME NEW y \in s PROVE x >= y
    <3>1. x \in Int /\ y \in Int /\ key[y] = y /\ key[x] = x /\ key[y] <= key[x]
      BY <1>2, <1>3
    <3> QED BY <3>1
  <2> QED BY <2>1
<1> QED BY <1>4 DEF Max

LEMMA MaxOfInterval ==
  ASSUME NEW m \in Nat \ {0}
  PROVE  Max(1..m) = m /\ (1..m) \ {m} = 1..(m - 1) /\ 1..m # {}
<1>1. m \in 1..m
  OBVIOUS
<1>2. Max(1..m) \in 1..m /\ Max(1..m) >= m
  BY <1>1, MaxOf
<1>3. (1..m) \ {m} = 1..(m - 1)
  OBVIOUS
<1> QED BY <1>1, <1>2, <1>3

\* g folds f over the subsets of 1..N, in the order of their numbers.
IsFold(g, N, V, b, f) ==
  /\ g \in [SUBSET (1..N) -> V]
  /\ \A s \in SUBSET (1..N) : g[s] = IF s = {} THEN b ELSE f[<<Max(s), g[s \ {Max(s)}]>>]

\* The recursive function behind a fold over 1..N exists, whatever its step f.
LEMMA FoldExists ==
  ASSUME NEW N \in Nat, NEW V, NEW b \in V, NEW f \in [(1..N) \X V -> V]
  PROVE  \E g : IsFold(g, N, V, b, f)
<1> DEFINE Folds(m, g) == \A s \in SUBSET (1..m) :
                            g[s] = IF s = {} THEN b ELSE f[<<Max(s), g[s \ {Max(s)}]>>]
           Can(m) == \E g \in [SUBSET (1..m) -> V] : Folds(m, g)
           bad == {m \in 0..N : ~Can(m)}
<1>1. SUFFICES ASSUME ~Can(N) PROVE FALSE
  BY DEF IsFold
<1>2. bad \in SUBSET Nat /\ bad # {}
  <2> HIDE DEF Can
  <2> QED BY <1>1
<1>3. PICK m \in bad : \A d \in bad : m <= d
  <2> HIDE DEF bad
  <2> QED BY <1>2, LeastOf
<1>4. m # 0
  <2> SUFFICES ASSUME m = 0 PROVE FALSE
    OBVIOUS
  <2> DEFINE g == [s \in SUBSET (1..0) |-> b]
  <2>1. g \in [SUBSET (1..0) -> V]
    OBVIOUS
  <2>2. \A s \in SUBSET (1..0) : s = {} /\ g[s] = b
    OBVIOUS
  <2> HIDE DEF g
  <2>3. Folds(0, g)
    BY <2>2
  <2> QED BY <2>1, <2>3
<1>5. m \in 1..N /\ m \in Nat \ {0} /\ m - 1 \in 0..N
  <2> HIDE DEF Can
  <2> QED BY <1>4
<1>6. PICK g \in [SUBSET (1..(m - 1)) -> V] : Folds(m - 1, g)
  <2>1. Can(m - 1)
    <3> HIDE DEF Can
    <3> QED BY <1>3, <1>5
  <2> QED BY <2>1
<1> DEFINE h == [s \in SUBSET (1..m) |-> IF m \in s THEN f[<<m, g[s \ {m}]>>] ELSE g[s]]
<1>7. ASSUME NEW s \in SUBSET (1..m)
      PROVE  /\ s \ {m} \in SUBSET (1..(m - 1))
             /\ m \notin s => s \in SUBSET (1..(m - 1))
  <2>1. (1..m) \ {m} = 1..(m - 1)
    BY <1>5
  <2> QED BY <2>1
<1>8. ASSUME NEW s \in SUBSET (1..m)
      PROVE  /\ m \in s => h[s] = f[<<m, g[s \ {m}]>>]
             /\ m \notin s => h[s] = g[s]
             /\ h[s] \in V
  <2>1. g[s \ {m}] \in V /\ (m \notin s => g[s] \in V)
    BY <1>7
  <2>2. f[<<m, g[s \ {m}]>>] \in V
    BY <2>1, <1>5
  <2>3. CASE m \in s
    BY <2>2, <2>3
  <2>4. CASE m \notin s
    BY <2>1, <2>4
  <2> QED BY <2>3, <2>4
<1>9. h \in [SUBSET (1..m) -> V]
  <2>1. h = [s \in SUBSET (1..m) |-> h[s]]
    OBVIOUS
  <2> HIDE DEF h
  <2> QED BY <2>1, <1>8
<1> HIDE DEF h
<1>10. ASSUME NEW s \in SUBSET (1..m)
       PROVE  h[s] = IF s = {} THEN b ELSE f[<<Max(s), h[s \ {Max(s)}]>>]
  <2>1. CASE s = {}
    <3>1. h[s] = g[s] /\ s \in SUBSET (1..(m - 1))
      BY <2>1, <1>7, <1>8
    <3> QED BY <3>1, <2>1, <1>6
  <2>2. CASE m \in s
    <3>1. Max(s) = m
      <4>1. Max(s) \in s /\ Max(s) >= m
        BY <2>2, <1>5, MaxOf
      <4>2. Max(s) \in 1..m
        BY <4>1
      <4> QED BY <4>1, <4>2, <1>5
    <3>2. h[s \ {m}] = g[s \ {m}]
      <4>1. s \ {m} \in SUBSET (1..m) /\ m \notin s \ {m}
        OBVIOUS
      <4> QED BY <4>1, <1>8
    <3> QED BY SMTT(30), <3>1, <3>2, <2>2, <1>8
  <2>3. CASE s # {} /\ m \notin s
    <3>1. s \in SUBSET (1..(m - 1)) /\ h[s] = g[s]
      BY <2>3, <1>7, <1>8
    <3>2. s \ {Max(s)} \in SUBSET (1..m) /\ m \notin s \ {Max(s)}
      BY <2>3
    <3>3. h[s \ {Max(s)}] = g[s \ {Max(s)}]
      BY <3>2, <1>8
    <3> QED BY <3>1, <3>3, <2>3, <1>6
  <2> QED BY <2>1, <2>2, <2>3
<1>11. Can(m)
  BY <1>9, <1>10
<1> QED BY <1>11

\* best goes through a fold, element by element, to the value v.
IsTrace(best, N, V, b, f, v) ==
  /\ best \in [0..N -> V] /\ best[0] = b /\ best[N] = v
  /\ \A m \in 1..N : best[m] = f[<<m, best[m - 1]>>]

\* it does what a fold does, as far as its values are in V.
Iterates(it, N, V, b, f) ==
  /\ it[{}] = b
  /\ \A s \in SUBSET (1..N) :
       s # {} /\ it[s \ {Max(s)}] \in V => it[s] = f[<<Max(s), it[s \ {Max(s)}]>>]

\* A fold over 1..N goes through the numbers in their order.
LEMMA TraceExists ==
  ASSUME NEW N \in Nat, NEW V, NEW b \in V, NEW f \in [(1..N) \X V -> V],
         NEW it, Iterates(it, N, V, b, f)
  PROVE  \E best : IsTrace(best, N, V, b, f, it[1..N])
<1> DEFINE best == [m \in 0..N |-> it[1..m]]
<1>1. ASSUME NEW m \in 1..N, it[1..(m - 1)] \in V
      PROVE  it[1..m] = f[<<m, it[1..(m - 1)]>>] /\ it[1..m] \in V
  <2>1. 1..m \in SUBSET (1..N) /\ m \in Nat \ {0}
    OBVIOUS
  <2>2. Max(1..m) = m /\ (1..m) \ {m} = 1..(m - 1) /\ 1..m # {}
    BY <2>1, MaxOfInterval
  <2>3. it[1..m] = f[<<m, it[1..(m - 1)]>>]
    BY <2>1, <2>2, <1>1 DEF Iterates
  <2>4. <<m, it[1..(m - 1)]>> \in (1..N) \X V
    BY <1>1
  <2> QED BY <2>3, <2>4
<1>2. it[1..0] = b
  <2>1. 1..0 = {}
    OBVIOUS
  <2> QED BY <2>1 DEF Iterates
<1>3. ASSUME NEW m \in 0..N PROVE it[1..m] \in V
  <2> DEFINE bad == {i \in 0..N : it[1..i] \notin V}
  <2>1. SUFFICES ASSUME bad # {} PROVE FALSE
    OBVIOUS
  <2>2. PICK i \in bad : \A j \in bad : i <= j
    <3>1. bad \in SUBSET Nat
      OBVIOUS
    <3> HIDE DEF bad
    <3> QED BY <2>1, <3>1, LeastOf
  <2>3. i # 0
    BY <1>2
  <2>4. i \in 1..N /\ i - 1 \in 0..N /\ ~(i <= i - 1)
    BY <2>3
  <2>5. it[1..(i - 1)] \in V
    BY <2>2, <2>4
  <2> QED BY <2>4, <2>5, <1>1
<1>4. best \in [0..N -> V] /\ best[0] = b /\ best[N] = it[1..N]
  BY <1>2, <1>3
<1>5. ASSUME NEW m \in 1..N PROVE best[m] = f[<<m, best[m - 1]>>]
  <2>1. m \in 0..N /\ m - 1 \in 0..N
    OBVIOUS
  <2> QED BY <2>1, <1>1, <1>3
<1> HIDE DEF best
<1> QED BY <1>4, <1>5 DEF IsTrace

-----------------------------------------------------------------------------
(* What the two loops of the code compute, position by position. *)

\* The group g becomes the best one of its roof, in place of the best one so far.
Better(rs, k, g, best) ==
  /\ RoofOf[g[1]] = k /\ Confirmed(rs, g)
  /\ best = <<>> \/ GroupMedian(rs, g) > GroupMedian(rs, best)

\* best[m] is the best group after m places of the listing.
Bests(best, rs, k, G, N, listing) ==
  /\ best \in [0..N -> {<<>>} \cup G]
  /\ best[0] = <<>> /\ Winner(rs, listing, k) = best[N]
  /\ \A m \in 1..N : best[m] = IF Better(rs, k, listing[m], best[m - 1])
                                 THEN listing[m] ELSE best[m - 1]

LEMMA WinnerTrace ==
  ASSUME NEW rs, NEW k, NEW G, NEW N \in Nat, NEW listing \in [1..N -> G]
  PROVE  \E best : Bests(best, rs, k, G, N, listing)
<1> DEFINE V == {<<>>} \cup G
           D == SUBSET (1..N)
           Step(x, acc) == IF Better(rs, k, listing[x], acc) THEN listing[x] ELSE acc
           Is(g) == g = [s \in D |-> IF s = {} THEN <<>> ELSE Step(Max(s), g[s \ {Max(s)}])]
           it == CHOOSE g : Is(g)
           f == [p \in (1..N) \X V |-> Step(p[1], p[2])]
<1>1. Winner(rs, listing, k) = it[1..N]
  <2>1. DOMAIN listing = 1..N
    OBVIOUS
  <2> QED BY <2>1 DEF Winner, FoldLeft, MapThenFoldSet, Better
<1>0. <<>> \in V
  OBVIOUS
<1>2. f \in [(1..N) \X V -> V]
  OBVIOUS
<1>3. ASSUME NEW x \in 1..N, NEW v \in V PROVE f[<<x, v>>] = Step(x, v)
  OBVIOUS
<1> HIDE DEF f
<1>4. PICK g : IsFold(g, N, V, <<>>, f)
  <2> HIDE DEF V
  <2> QED BY <1>0, <1>2, FoldExists
<1>5. ASSUME NEW s \in D
      PROVE  g[s] = IF s = {} THEN <<>> ELSE Step(Max(s), g[s \ {Max(s)}])
  <2>1. CASE s # {}
    <3>1. Max(s) \in 1..N
      BY <2>1, MaxOf
    <3>2. g[s \ {Max(s)}] \in V
      BY <1>4 DEF IsFold
    <3> QED BY <3>1, <3>2, <2>1, <1>3, <1>4 DEF IsFold
  <2> QED BY <2>1, <1>4 DEF IsFold
<1>6. Is(it)
  <2>1. g = [s \in D |-> g[s]]
    BY <1>4 DEF IsFold
  <2>2. Is(g)
    <3> HIDE DEF Step
    <3> QED BY <1>5, <2>1
  <2> HIDE DEF Is
  <2> QED BY <2>2
<1> HIDE DEF it
<1>7. Iterates(it, N, V, <<>>, f)
  <2>1. ASSUME NEW s \in D
        PROVE  it[s] = IF s = {} THEN <<>> ELSE Step(Max(s), it[s \ {Max(s)}])
    <3> HIDE DEF Step
    <3> QED BY <1>6
  <2>2. ASSUME NEW s \in D, s # {}, it[s \ {Max(s)}] \in V
        PROVE  it[s] = f[<<Max(s), it[s \ {Max(s)}]>>]
    <3>1. Max(s) \in 1..N
      BY <2>2, MaxOf
    <3> HIDE DEF Step, V
    <3> QED BY <3>1, <2>1, <2>2, <1>3
  <2> HIDE DEF Step, V
  <2> QED BY <2>1, <2>2 DEF Iterates
<1>8. PICK best : IsTrace(best, N, V, <<>>, f, it[1..N])
  <2> HIDE DEF V
  <2> QED BY <1>0, <1>2, <1>7, TraceExists
<1>9. ASSUME NEW m \in 1..N PROVE best[m] = Step(m, best[m - 1])
  <2>1. m - 1 \in 0..N
    OBVIOUS
  <2>2. best[m - 1] \in V /\ best[m] = f[<<m, best[m - 1]>>]
    BY <2>1, <1>8 DEF IsTrace
  <2> HIDE DEF Step
  <2> QED BY <2>2, <1>3
<1> QED BY <1>1, <1>8, <1>9 DEF IsTrace, Bests

\* The item x takes the place of the peak so far.
Higher(x, best) ==
  \/ x.confirmed \/ best = <<>>
  \/ ~best[1].confirmed /\ x.value > best[1].value

\* best[m] is the peak after m items.
Peaks(best, X, N, items) ==
  /\ best \in [0..N -> {<<>>} \cup {<<x>> : x \in X}]
  /\ best[0] = <<>> /\ Peak(items) = best[N]
  /\ \A m \in 1..N : best[m] = IF Higher(items[m], best[m - 1])
                                 THEN <<items[m]>> ELSE best[m - 1]

LEMMA PeakTrace ==
  ASSUME NEW X, NEW N \in Nat, NEW items \in [1..N -> X]
  PROVE  \E best : Peaks(best, X, N, items)
<1> DEFINE V == {<<>>} \cup {<<x>> : x \in X}
           D == SUBSET (1..N)
           Step(x, acc) == IF Higher(items[x], acc) THEN <<items[x]>> ELSE acc
           Is(g) == g = [s \in D |-> IF s = {} THEN <<>> ELSE Step(Max(s), g[s \ {Max(s)}])]
           it == CHOOSE g : Is(g)
           f == [p \in (1..N) \X V |-> Step(p[1], p[2])]
<1>1. Peak(items) = it[1..N]
  <2>1. DOMAIN items = 1..N
    OBVIOUS
  <2> QED BY <2>1 DEF Peak, FoldLeft, MapThenFoldSet, Higher
<1>0. <<>> \in V
  OBVIOUS
<1>2. f \in [(1..N) \X V -> V]
  OBVIOUS
<1>3. ASSUME NEW x \in 1..N, NEW v \in V PROVE f[<<x, v>>] = Step(x, v)
  OBVIOUS
<1> HIDE DEF f
<1>4. PICK g : IsFold(g, N, V, <<>>, f)
  <2> HIDE DEF V
  <2> QED BY <1>0, <1>2, FoldExists
<1>5. ASSUME NEW s \in D
      PROVE  g[s] = IF s = {} THEN <<>> ELSE Step(Max(s), g[s \ {Max(s)}])
  <2>1. CASE s # {}
    <3>1. Max(s) \in 1..N
      BY <2>1, MaxOf
    <3>2. g[s \ {Max(s)}] \in V
      BY <1>4 DEF IsFold
    <3> QED BY <3>1, <3>2, <2>1, <1>3, <1>4 DEF IsFold
  <2> QED BY <2>1, <1>4 DEF IsFold
<1>6. Is(it)
  <2>1. g = [s \in D |-> g[s]]
    BY <1>4 DEF IsFold
  <2>2. Is(g)
    <3> HIDE DEF Step
    <3> QED BY <1>5, <2>1
  <2> HIDE DEF Is
  <2> QED BY <2>2
<1> HIDE DEF it
<1>7. Iterates(it, N, V, <<>>, f)
  <2>1. ASSUME NEW s \in D
        PROVE  it[s] = IF s = {} THEN <<>> ELSE Step(Max(s), it[s \ {Max(s)}])
    <3> HIDE DEF Step
    <3> QED BY <1>6
  <2>2. ASSUME NEW s \in D, s # {}, it[s \ {Max(s)}] \in V
        PROVE  it[s] = f[<<Max(s), it[s \ {Max(s)}]>>]
    <3>1. Max(s) \in 1..N
      BY <2>2, MaxOf
    <3> HIDE DEF Step, V
    <3> QED BY <3>1, <2>1, <2>2, <1>3
  <2> HIDE DEF Step, V
  <2> QED BY <2>1, <2>2 DEF Iterates
<1>8. PICK best : IsTrace(best, N, V, <<>>, f, it[1..N])
  <2> HIDE DEF V
  <2> QED BY <1>0, <1>2, <1>7, TraceExists
<1>9. ASSUME NEW m \in 1..N PROVE best[m] = Step(m, best[m - 1])
  <2>1. m - 1 \in 0..N
    OBVIOUS
  <2>2. best[m - 1] \in V /\ best[m] = f[<<m, best[m - 1]>>]
    BY <2>1, <1>8 DEF IsTrace
  <2> HIDE DEF Step
  <2> QED BY <2>2, <1>3
<1> QED BY <1>1, <1>8, <1>9 DEF IsTrace, Peaks

-----------------------------------------------------------------------------
(* Medians and the winner. *)

\* A listing has every element of its set, once.
LEMMA ListingOnto ==
  ASSUME NEW S, IsFiniteSet(S), NEW listing \in SetToSeqs(S)
  PROVE  /\ Cardinality(S) \in Nat /\ listing \in [1..Cardinality(S) -> S]
         /\ \A x \in S : \E m \in 1..Cardinality(S) : listing[m] = x
<1> DEFINE N == Cardinality(S)
           D == 1..N
<1>1. N \in Nat
  BY FS_CardinalityType
<1>2. /\ listing \in [D -> S]
      /\ \A m, n \in D : m # n => listing[m] # listing[n]
  BY DEF SetToSeqs
<1>3. IsFiniteSet(D) /\ Cardinality(D) = N
  BY <1>1, FS_Interval
<1> HIDE DEF D
<1>4. listing \in Injection(D, S)
  BY <1>2 DEF Injection, IsInjective
<1>5. listing \in Surjection(D, S)
  BY <1>3, <1>4, FS_Injection
<1>6. \A x \in S : \E m \in D : listing[m] = x
  BY <1>5 DEF Surjection
<1> QED BY <1>1, <1>2, <1>6 DEF D

\* The rows and what is derived from them are finite, with integer rates.
Rated(rs) == IsFiniteSet(rs) /\ \A r \in rs : r.rate \in Int

\* The sorted rows of a finite set list each of them once.
LEMMA SortedRows ==
  ASSUME NEW rs, Rated(rs), rs # {}, NEW N, N = Cardinality(rs)
  PROVE  /\ N \in Nat \ {0} /\ Len(Sorted(rs)) = N /\ Sorted(rs) \in [1..N -> rs]
         /\ \A m, n \in 1..N : m < n => /\ Sorted(rs)[m].rate <= Sorted(rs)[n].rate
                                        /\ Sorted(rs)[m] # Sorted(rs)[n]
<1> DEFINE key == [r \in rs |-> r.rate]
           s == Sorted(rs)
<1>1. key \in [rs -> Int] /\ \A r \in rs : key[r] = r.rate
  BY DEF Rated
<1> HIDE DEF key
<1>2. PICK t \in SetToSeqs(rs) : \A m, n \in DOMAIN t : m < n => key[t[m]] <= key[t[n]]
  BY <1>1, SortedListing DEF Rated
<1>3. N \in Nat \ {0}
  BY FS_CardinalityType, FS_EmptySet DEF Rated
<1>4. \A m \in DOMAIN t : t[m] \in rs
  BY DEF SetToSeqs
<1>5. \A m, n \in DOMAIN t : m < n => t[m].rate <= t[n].rate
  BY <1>1, <1>2, <1>4
<1>6. s \in SetToSeqs(rs) /\ \A m, n \in DOMAIN s : m < n => s[m].rate <= s[n].rate
  BY <1>5 DEF Sorted
<1> HIDE DEF s
<1>7. s \in [1..N -> rs] /\ \A m, n \in 1..N : s[m] = s[n] => m = n
  BY <1>6 DEF SetToSeqs, IsInjective
<1>8. Len(s) = N
  <2>1. s \in Seq(rs) /\ DOMAIN s = 1..N
    BY <1>3, <1>7
  <2> QED BY <2>1, <1>3
<1>9. ASSUME NEW m \in 1..N, NEW n \in 1..N, m < n
      PROVE  s[m].rate <= s[n].rate /\ s[m] # s[n]
  BY <1>6, <1>7, <1>9
<1> QED BY <1>3, <1>7, <1>8, <1>9 DEF s

LEMMA MedianType ==
  ASSUME NEW rs, Rated(rs), rs # {}
  PROVE  Median(rs) \in Int
<1> DEFINE s == Sorted(rs)
           N == Cardinality(rs)
<1>1. N \in Nat \ {0} /\ Len(s) = N /\ s \in [1..N -> rs]
  BY SortedRows
<1> HIDE DEF s, N
<1>2. (N + 1) \div 2 \in 1..N /\ (N + 2) \div 2 \in 1..N
  BY <1>1
<1>3. s[(N + 1) \div 2].rate \in Int /\ s[(N + 2) \div 2].rate \in Int
  BY <1>1, <1>2 DEF Rated
<1> QED BY <1>1, <1>3 DEF Median, s

LEMMA ConfirmedMedian ==
  ASSUME NEW rs, Rated(rs), NEW g, Confirmed(rs, g)
  PROVE  GroupMedian(rs, g) \in Int
<1> DEFINE ok == Eligible(Repeats(rs, g))
<1>1. ok \in SUBSET rs
  BY DEF Eligible, Repeats
<1>2. Cardinality(ok) >= 2
  BY DEF Confirmed
<1>3. GroupMedian(rs, g) = Median(ok)
  BY DEF GroupMedian
<1> HIDE DEF ok
<1>4. Rated(ok)
  BY <1>1, FS_Subset DEF Rated
<1>5. ok # {}
  BY <1>2, FS_EmptySet
<1> QED BY <1>3, <1>4, <1>5, MedianType

LEMMA GroupsFinite ==
  ASSUME NEW rs, IsFiniteSet(rs)
  PROVE  IsFiniteSet(Groups(rs))
<1> DEFINE f == [r \in rs |-> <<r.config, r.reps>>]
<1>1. f \in Surjection(rs, Groups(rs))
  BY DEF Surjection, Groups
<1> QED BY <1>1, FS_Surjection

\* The groups of the roof k that are confirmed by rs.
Good(rs, k) == {g \in Groups(rs) : RoofOf[g[1]] = k /\ Confirmed(rs, g)}

\* Whatever the listing, the winner is the best confirmed group of the roof.
LEMMA WinnerIsBest ==
  ASSUME NEW rs, Rated(rs), NEW k, NEW listing \in SetToSeqs(Groups(rs))
  PROVE  /\ Winner(rs, listing, k) \in {<<>>} \cup Groups(rs)
         /\ Winner(rs, listing, k) = <<>> => Good(rs, k) = {}
         /\ Winner(rs, listing, k) # <<>> =>
              /\ Winner(rs, listing, k) \in Good(rs, k)
              /\ \A g \in Good(rs, k) : GroupMedian(rs, g) <= GroupMedian(rs, Winner(rs, listing, k))
<1> DEFINE G == Groups(rs)
           N == Cardinality(G)
           Med(g) == GroupMedian(rs, g)
<1>1. /\ N \in Nat /\ listing \in [1..N -> G]
      /\ \A g \in G : \E m \in 1..N : listing[m] = g
  <2> HIDE DEF G
  <2>1. IsFiniteSet(G)
    BY GroupsFinite DEF G, Rated
  <2>2. listing \in SetToSeqs(G)
    BY DEF G
  <2> QED BY <2>1, <2>2, ListingOnto
<1>2. <<>> \notin G
  BY DEF Groups
<1>3. \A g \in Good(rs, k) : Med(g) \in Int /\ g \in G
  BY ConfirmedMedian DEF Good
<1> HIDE DEF G, N
<1>4. PICK best : Bests(best, rs, k, G, N, listing)
  BY <1>1, WinnerTrace
<1> HIDE DEF Med
<1>5. ASSUME NEW m \in 1..N
      PROVE  Better(rs, k, listing[m], best[m - 1]) <=>
               /\ listing[m] \in Good(rs, k)
               /\ best[m - 1] = <<>> \/ Med(listing[m]) > Med(best[m - 1])
  BY <1>1 DEF Better, Good, G, Med
<1> DEFINE Right(m) == IF best[m] = <<>>
                         THEN \A i \in 1..m : listing[i] \notin Good(rs, k)
                         ELSE /\ best[m] \in Good(rs, k)
                              /\ \A i \in 1..m : listing[i] \in Good(rs, k) =>
                                                   Med(listing[i]) <= Med(best[m])
           bad == {m \in 0..N : ~Right(m)}
<1>6. ASSUME NEW m \in 1..N, Right(m - 1) PROVE Right(m)
  <2>1. m - 1 \in 0..N /\ m \in 0..N /\ 1..m = (1..(m - 1)) \cup {m}
    BY <1>1
  <2>2. listing[m] \in G
    BY <1>1
  <2>3. CASE Better(rs, k, listing[m], best[m - 1])
    <3>1. best[m] = listing[m] /\ listing[m] \in Good(rs, k) /\ listing[m] # <<>>
      BY <2>3, <2>2, <1>2, <1>4, <1>5 DEF Bests
    <3>2. best[m - 1] = <<>> \/ Med(listing[m]) > Med(best[m - 1])
      BY <2>3, <1>5
    <3>3. ASSUME NEW i \in 1..m, listing[i] \in Good(rs, k)
          PROVE  Med(listing[i]) <= Med(listing[m])
      <4>1. Med(listing[i]) \in Int /\ Med(listing[m]) \in Int
        BY <3>1, <3>3, <1>3
      <4>2. CASE i = m
        BY <4>1, <4>2
      <4>3. CASE i # m
        <5>1. i \in 1..(m - 1) /\ best[m - 1] # <<>>
          BY <4>3, <2>1, <3>3, <1>6
        <5>2. best[m - 1] \in Good(rs, k) /\ Med(listing[i]) <= Med(best[m - 1])
          BY <5>1, <3>3, <1>6
        <5>3. Med(best[m - 1]) \in Int
          BY <5>2, <1>3
        <5> QED BY <5>1, <5>2, <5>3, <4>1, <3>2
      <4> QED BY <4>2, <4>3
    <3> QED BY <3>1, <3>3
  <2>4. CASE ~Better(rs, k, listing[m], best[m - 1])
    <3>1. best[m] = best[m - 1]
      BY <2>4, <1>4 DEF Bests
    <3>2. CASE best[m - 1] = <<>>
      <4>1. listing[m] \notin Good(rs, k)
        BY <3>2, <2>4, <1>5
      <4> QED BY <4>1, <3>1, <3>2, <2>1, <1>6
    <3>3. CASE best[m - 1] # <<>>
      <4>1. best[m - 1] \in Good(rs, k) /\ Med(best[m - 1]) \in Int
        BY <3>3, <1>6, <1>3
      <4>2. ASSUME NEW i \in 1..m, listing[i] \in Good(rs, k)
            PROVE  Med(listing[i]) <= Med(best[m - 1])
        <5>1. CASE i \in 1..(m - 1)
          BY <5>1, <4>2, <3>3, <1>6
        <5>2. CASE i = m
          <6>1. Med(listing[m]) \in Int /\ ~(Med(listing[m]) > Med(best[m - 1]))
            BY <5>2, <4>2, <2>4, <1>3, <1>5
          <6> QED BY <6>1, <4>1, <5>2
        <5> QED BY <5>1, <5>2, <2>1
      <4> QED BY <4>1, <4>2, <3>1, <3>3
    <3> QED BY <3>2, <3>3
  <2> QED BY <2>3, <2>4
<1>7. Right(0)
  BY <1>4 DEF Bests
<1>8. Right(N)
  <2>1. SUFFICES ASSUME ~Right(N) PROVE FALSE
    OBVIOUS
  <2>2. bad \in SUBSET Nat /\ bad # {}
    <3> HIDE DEF Right
    <3> QED BY <2>1, <1>1
  <2>3. PICK m \in bad : \A d \in bad : m <= d
    <3> HIDE DEF bad
    <3> QED BY <2>2, LeastOf
  <2> HIDE DEF Right
  <2>4. m # 0
    BY <1>7
  <2>5. m \in 1..N /\ m - 1 \in 0..N /\ ~(m <= m - 1)
    BY <2>4, <1>1
  <2>6. Right(m - 1)
    BY <2>3, <2>5
  <2> QED BY <2>5, <2>6, <1>6
<1>9. best[N] \in {<<>>} \cup G
  BY <1>1, <1>4 DEF Bests
<1>10. \A g \in Good(rs, k) : \E m \in 1..N : listing[m] = g
  BY <1>1, <1>3
<1> QED BY <1>4, <1>8, <1>9, <1>10 DEF G, Med, Bests

-----------------------------------------------------------------------------
(* The report. *)

\* A confirmed item stays the peak; without one the peak is the highest item.
LEMMA PeakIsRight ==
  ASSUME NEW X, IsFiniteSet(X), \A x \in X : x.value \in Int, NEW items \in SetToSeqs(X)
  PROVE  /\ X = {} => Peak(items) = <<>>
         /\ X # {} => \E x \in X :
              /\ Peak(items) = <<x>>
              /\ (\E y \in X : y.confirmed) => x.confirmed
              /\ (\A y \in X : ~y.confirmed) => \A y \in X : y.value <= x.value
<1> DEFINE N == Cardinality(X)
           Conf(x) == x.confirmed
<1>1. /\ N \in Nat /\ items \in [1..N -> X]
      /\ \A x \in X : \E m \in 1..N : items[m] = x
  BY ListingOnto
<1>2. N = 0 <=> X = {}
  BY FS_EmptySet
<1> HIDE DEF N
<1>3. PICK best : Peaks(best, X, N, items)
  BY <1>1, PeakTrace
<1> DEFINE Right(m) == \E x \in X :
             /\ best[m] = <<x>> /\ \E j \in 1..m : x = items[j]
             /\ (\E i \in 1..m : Conf(items[i])) => Conf(x)
             /\ (\A i \in 1..m : ~Conf(items[i])) => \A i \in 1..m : items[i].value <= x.value
           bad == {m \in 1..N : ~Right(m)}
<1> HIDE DEF Conf
<1>4. ASSUME NEW m \in 1..N, m = 1 \/ Right(m - 1) PROVE Right(m)
  <2>1. m \in 0..N /\ 1..m = (1..(m - 1)) \cup {m} /\ items[m] \in X
    BY <1>1
  <2>2. best[m] = IF Higher(items[m], best[m - 1]) THEN <<items[m]>> ELSE best[m - 1]
    BY <1>3 DEF Peaks
  <2>3. CASE m = 1
    <3>1. best[m - 1] = <<>> /\ 1..m = {m}
      BY <2>3, <1>3 DEF Peaks
    <3>2. best[m] = <<items[m]>>
      BY <2>2, <3>1 DEF Higher
    <3>3. items[m].value <= items[m].value
      BY <2>1
    <3> QED BY <3>1, <3>2, <3>3, <2>1
  <2>4. CASE m # 1
    <3>1. PICK x \in X :
             /\ best[m - 1] = <<x>> /\ \E j \in 1..(m - 1) : x = items[j]
             /\ (\E i \in 1..(m - 1) : Conf(items[i])) => Conf(x)
             /\ (\A i \in 1..(m - 1) : ~Conf(items[i])) =>
                  \A i \in 1..(m - 1) : items[i].value <= x.value
      BY <2>4, <1>4
    <3>2. Higher(items[m], best[m - 1]) <=>
            Conf(items[m]) \/ (~Conf(x) /\ items[m].value > x.value)
      <4>1. best[m - 1] # <<>> /\ best[m - 1][1] = x
        BY <3>1
      <4> QED BY Zenon, <4>1 DEF Higher, Conf
    <3>3. items[m].value \in Int /\ x.value \in Int /\ \A i \in 1..m : items[i].value \in Int
      BY <1>1, <2>1
    <3>4. CASE Higher(items[m], best[m - 1])
      <4>1. best[m] = <<items[m]>>
        BY <2>2, <3>4
      <4>2. (\E i \in 1..m : Conf(items[i])) => Conf(items[m])
        BY <3>1, <3>2, <3>4, <2>1
      <4>3. ASSUME \A i \in 1..m : ~Conf(items[i]), NEW i \in 1..m
            PROVE  items[i].value <= items[m].value
        <5>1. items[m].value > x.value
          BY <3>2, <3>4, <4>3, <2>1
        <5>2. i = m \/ items[i].value <= x.value
          BY <3>1, <4>3, <2>1
        <5> QED BY <5>1, <5>2, <3>3
      <4> QED BY <4>1, <4>2, <4>3, <2>1
    <3>5. CASE ~Higher(items[m], best[m - 1])
      <4>1. best[m] = <<x>>
        BY <2>2, <3>1, <3>5
      <4>2. ~Conf(items[m]) /\ (Conf(x) \/ ~(items[m].value > x.value))
        BY <3>2, <3>5
      <4>3. (\E i \in 1..m : Conf(items[i])) => Conf(x)
        BY <3>1, <4>2, <2>1
      <4>4. ASSUME \A i \in 1..m : ~Conf(items[i]), NEW i \in 1..m
            PROVE  items[i].value <= x.value
        <5>1. CASE i \in 1..(m - 1)
          BY <5>1, <4>4, <3>1, <2>1
        <5>2. CASE i = m /\ ~Conf(x)
          BY <5>2, <4>2, <3>3
        <5>3. CASE i = m /\ Conf(x)
          BY <5>3, <4>4, <3>1, <2>1
        <5> QED BY <5>1, <5>2, <5>3, <2>1
      <4>5. \E j \in 1..m : x = items[j]
        BY <3>1, <2>1
      <4> QED BY <4>1, <4>3, <4>4, <4>5
    <3> QED BY <3>4, <3>5
  <2> QED BY <2>3, <2>4
<1>5. ASSUME X # {} PROVE Right(N)
  <2>1. SUFFICES ASSUME ~Right(N) PROVE FALSE
    OBVIOUS
  <2>2. bad \in SUBSET Nat /\ bad # {}
    <3>1. N \in 1..N
      BY <1>1, <1>2, <1>5
    <3> HIDE DEF Right
    <3> QED BY <2>1, <3>1
  <2>3. PICK m \in bad : \A d \in bad : m <= d
    <3> HIDE DEF bad
    <3> QED BY <2>2, LeastOf
  <2> HIDE DEF Right
  <2>4. ASSUME m # 1 PROVE Right(m - 1)
    <3>1. m - 1 \in 1..N /\ ~(m <= m - 1)
      BY <1>1, <2>4
    <3> QED BY <2>3, <3>1
  <2> QED BY <2>4, <1>4
<1>6. CASE X = {}
  BY <1>2, <1>3, <1>6 DEF Peaks
<1>7. CASE X # {}
  <2>1. PICK x \in X :
          /\ best[N] = <<x>>
          /\ (\E i \in 1..N : Conf(items[i])) => Conf(x)
          /\ (\A i \in 1..N : ~Conf(items[i])) => \A i \in 1..N : items[i].value <= x.value
    BY <1>5, <1>7
  <2>2. (\E y \in X : Conf(y)) => Conf(x)
    BY <1>1, <2>1
  <2>3. (\A y \in X : ~Conf(y)) => \A y \in X : y.value <= x.value
    BY <1>1, <2>1
  <2>4. Peak(items) = <<x>>
    BY <1>3, <2>1 DEF Peaks
  <2> QED BY Zenon, <1>7, <2>2, <2>3, <2>4 DEF Conf
<1> QED BY <1>6, <1>7

\* What ReportKeepsRoofs says of the report.
LEMMA ReportIsRight ==
  ASSUME Rated(rows), sweep \in Sweeps, NEW k \in RoofSet,
         NEW listing \in SetToSeqs(Groups(rows)), NEW items \in SetToSeqs(Items(listing, k))
  PROVE  IF Good(rows, k) # {}
           THEN /\ Peak(items)[1].confirmed
                /\ \A g \in Good(rows, k) : GroupMedian(rows, g) <= Peak(items)[1].value
           ELSE /\ Peak(items) = <<>> <=> Admitted(k) = {}
                /\ \A c \in Admitted(k) : 2 * sweep[c] <= Peak(items)[1].value
<1> DEFINE w == Winner(rows, listing, k)
           top == Item(TRUE, w, GroupMedian(rows, w))
           swept(c) == Item(FALSE, c, 2 * sweep[c])
           plain == {swept(c) : c \in Admitted(k)}
           X == Items(listing, k)
<1>1. /\ w \in {<<>>} \cup Groups(rows)
      /\ w = <<>> => Good(rows, k) = {}
      /\ w # <<>> => /\ w \in Good(rows, k)
                     /\ \A g \in Good(rows, k) : GroupMedian(rows, g) <= GroupMedian(rows, w)
  BY WinnerIsBest
<1>2. X = plain \cup (IF w = <<>> THEN {} ELSE {top})
  BY DEF Items
<1>3. w # <<>> => GroupMedian(rows, w) \in Int
  BY <1>1, ConfirmedMedian DEF Good
<1> HIDE DEF w
<1>4. \A c \in Admitted(k) : sweep[c] \in Nat /\ c \in Configs
  BY ConstantsAssumption DEF Admitted
<1>5. IsFiniteSet(plain)
  <2> DEFINE f == [c \in Admitted(k) |-> swept(c)]
  <2>1. f \in Surjection(Admitted(k), plain)
    BY DEF Surjection
  <2>2. Admitted(k) \in SUBSET Configs
    BY DEF Admitted
  <2>3. IsFiniteSet(Admitted(k))
    BY <2>2, ConstantsAssumption, FS_Subset
  <2> HIDE DEF f, plain
  <2> QED BY <2>1, <2>3, FS_Surjection
<1>6. \A c \in Admitted(k) : swept(c).value = 2 * sweep[c] /\ swept(c).value \in Int
  BY <1>4 DEF Item
<1>7. \A c \in Admitted(k) : ~swept(c).confirmed
  BY Zenon DEF Item
<1>8. top.confirmed /\ top.value = GroupMedian(rows, w)
  BY Zenon DEF Item
<1> HIDE DEF swept, top
<1>9. IsFiniteSet(X) /\ \A x \in X : x.value \in Int
  <2>1. IsFiniteSet(plain \cup {top})
    <3> HIDE DEF plain
    <3> QED BY <1>5, FS_AddElement
  <2>2. IsFiniteSet(X)
    <3> HIDE DEF plain, X
    <3> QED BY <1>2, <1>5, <2>1
  <2> HIDE DEF X
  <2> QED BY <2>2, <1>2, <1>3, <1>6, <1>8
<1>10. /\ X = {} => Peak(items) = <<>>
       /\ X # {} => \E x \in X :
            /\ Peak(items) = <<x>>
            /\ (\E y \in X : y.confirmed) => x.confirmed
            /\ (\A y \in X : ~y.confirmed) => \A y \in X : y.value <= x.value
  BY <1>9, PeakIsRight
<1> HIDE DEF X
<1>11. CASE Good(rows, k) # {}
  <2>1. w # <<>> /\ top \in X
    BY <1>11, <1>1, <1>2
  <2>2. PICK x \in X : Peak(items) = <<x>> /\ x.confirmed
    BY Zenon, <2>1, <1>8, <1>10
  <2>3. x = top
    BY Zenon, <2>1, <2>2, <1>2, <1>7
  <2>4. Peak(items)[1] = top
    BY <2>2, <2>3
  <2>5. \A g \in Good(rows, k) : GroupMedian(rows, g) <= Peak(items)[1].value
    BY <2>1, <2>4, <1>1, <1>8
  <2> QED BY Zenon, <2>4, <2>5, <1>8, <1>11
<1>12. CASE Good(rows, k) = {}
  <2>1. X = plain
    BY <1>12, <1>1, <1>2
  <2>2. \A y \in X : ~y.confirmed
    BY Zenon, <2>1, <1>7
  <2>3. X = {} <=> Admitted(k) = {}
    BY <2>1
  <2>4. CASE X = {}
    BY <2>3, <2>4, <1>10, <1>12
  <2>5. CASE X # {}
    <3>1. PICK x \in X : Peak(items) = <<x>> /\ \A y \in X : y.value <= x.value
      BY Zenon, <2>2, <2>5, <1>10
    <3>2. Peak(items)[1] = x /\ Peak(items) # <<>>
      BY <3>1
    <3>3. \A c \in Admitted(k) : 2 * sweep[c] <= x.value
      BY <2>1, <3>1, <1>6
    <3> QED BY <3>2, <3>3, <2>3, <2>5, <1>12
  <2> QED BY <2>4, <2>5
<1> QED BY <1>11, <1>12

-----------------------------------------------------------------------------
(* Types, and what the last run exported. *)

Reps == {p.reps : p \in Plans}

\* No plan repeats more often than MaxReps.
LEMMA MaxRepsBounds == MaxReps \in Nat /\ \A p \in Plans : p.reps <= MaxReps
<1> DEFINE key == [p \in Plans |-> p.reps]
<1>1. key \in [Plans -> Int] /\ \A p \in Plans : key[p] = p.reps /\ p.reps \in Nat
  BY PlanType
<1> HIDE DEF key
<1>2. PICK q \in Plans : \A p \in Plans : key[p] <= key[q]
  BY <1>1, ConstantsAssumption, GreatestOf
<1>3. \E n \in Reps : \A p \in Plans : p.reps <= n
  BY <1>1, <1>2 DEF Reps
<1>4. MaxReps \in Reps /\ \A p \in Plans : p.reps <= MaxReps
  BY <1>3 DEF MaxReps, Reps
<1> QED BY <1>1, <1>4 DEF Reps

\* c is what select_roofs makes of the rows rs, in the order of some listing.
Exported(c, rs) ==
  \E listing \in SetToSeqs(Groups(rs)) : c = [k \in RoofSet |-> Winner(rs, listing, k)]

TypeInv ==
  /\ TypeOK /\ IsFiniteSet(rows)
  /\ pc = "done" => Exported(chosen, InScope)

LEMMA RowsRated == ASSUME TypeInv PROVE Rated(rows)
<1>1. \A r \in rows : r \in Row
  BY DEF TypeInv, TypeOK
<1> QED BY <1>1 DEF TypeInv, Rated, Row

LEMMA InitTypeInv == Init => TypeInv
<1> SUFFICES ASSUME Init PROVE TypeInv
  OBVIOUS
<1>1. plan \in Plans /\ plan.reps \in Nat
  BY ConstantsAssumption, PlanType DEF Init
<1>2. chosen \in [RoofSet -> {<<>>} \cup (Configs \X Reps)]
  BY DEF Init
<1> QED BY <1>1, <1>2, ConstantsAssumption, FS_EmptySet DEF Init, TypeInv, TypeOK, Reps

\* A pass goes on or ends.
LEMMA AdvanceTypes ==
  ASSUME IInv, TypeInv, Measuring, Advance
  PROVE  /\ pass' \in 0..plan.reps /\ at' \in Nat /\ pass \in 0..(MaxReps - 1)
         /\ Due \in Configs /\ plan \in Plans /\ pc' = "confirm"
<1>1. /\ work \in Seq(Configs) /\ work # <<>> /\ plan \in Plans /\ pass \in 0..plan.reps
      /\ at \in 1..Len(work) /\ pc = "confirm" /\ pass # plan.reps
  BY DEF IInv, Shape, Measuring, Finished
<1>2. plan.reps \in Nat /\ plan.reps <= MaxReps /\ MaxReps \in Nat
  BY <1>1, PlanType, MaxRepsBounds
<1>3. Len(work) \in Nat /\ \A n \in 1..Len(work) : work[n] \in Configs
  BY <1>1
<1>4. Len(work) + 1 - at \in 1..Len(work)
  BY <1>1, <1>3
<1>5. Due \in Configs
  BY <1>1, <1>3, <1>4 DEF Due
<1>6. pass' \in {pass, pass + 1} /\ at' \in {1, at + 1} /\ pc' = pc
  BY DEF Advance
<1>7. pass' \in 0..plan.reps /\ at' \in Nat /\ pass \in 0..(MaxReps - 1)
  BY <1>1, <1>2, <1>3, <1>6
<1> QED BY <1>1, <1>5, <1>6, <1>7

LEMMA NextTypeInv == IInv /\ TypeInv /\ [Next]_vars => TypeInv'
<1> SUFFICES ASSUME IInv, TypeInv, [Next]_vars PROVE TypeInv'
  OBVIOUS
<1> USE DEF TypeInv
<1>1. CASE Start
  <2>1. /\ plan' \in Plans /\ work' \in Seq(Configs) /\ pass' = 0 /\ at' = 1
        /\ pc' = "confirm" /\ sessions' = sessions + 1 /\ sessions < MaxSessions /\ recent' = {}
        /\ UNCHANGED <<device, time, rows, chosen>>
    BY <1>1, WorkListsAreSequences DEF Start
  <2>2. plan'.reps \in Nat /\ MaxSessions \in Nat
    BY <2>1, PlanType, ConstantsAssumption
  <2> QED BY <2>1, <2>2 DEF TypeOK, device
<1>2. CASE Skip
  <2>1. Measuring /\ Advance /\ UNCHANGED <<time, rows, recent>>
    BY <1>2 DEF Skip
  <2> QED BY <2>1, AdvanceTypes DEF TypeOK, Advance, device
<1>3. CASE Measure
  <2>1. Measuring /\ Advance /\ time' = time + 1
    BY <1>3 DEF Measure
  <2>2. PICK ok \in BOOLEAN :
          LET row == [config |-> Due, reps |-> plan.reps, replicate |-> pass,
                      rate |-> base[Due] - drift * time, ok |-> ok]
          IN rows' = (rows \ Stored) \cup {row} /\ recent' = recent \cup {row}
    BY <1>3 DEF Measure
  <2> DEFINE row == [config |-> Due, reps |-> plan.reps, replicate |-> pass,
                     rate |-> base[Due] - drift * time, ok |-> ok]
  <2>3. Stored = {}
    BY <1>3 DEF Measure, HasRow
  <2>4. rows' = rows \cup {row} /\ recent' = recent \cup {row}
    BY <2>2, <2>3
  <2>5. base[Due] - drift * time \in Int
    <3>1. base \in [Configs -> Int] /\ drift \in Int /\ time \in Nat /\ Due \in Configs
      BY <2>1, AdvanceTypes, ConstantsAssumption DEF TypeOK
    <3>2. drift * time \in Int /\ base[Due] \in Int
      BY <3>1
    <3> QED BY <3>2
  <2>6. row \in Row
    <3>1. Due \in Configs /\ plan.reps \in Reps /\ pass \in 0..(MaxReps - 1)
      BY <2>1, AdvanceTypes DEF Reps
    <3> QED BY <3>1, <2>5 DEF Row, Reps
  <2> HIDE DEF row
  <2>7. IsFiniteSet(rows')
    BY <2>4, FS_AddElement
  <2>8. rows' \in SUBSET Row /\ recent' \subseteq rows'
    BY <2>4, <2>6 DEF TypeOK
  <2>9. time' \in Nat
    BY <2>1 DEF TypeOK
  <2> QED BY <2>1, <2>7, <2>8, <2>9, AdvanceTypes DEF TypeOK, Advance, device
<1>4. CASE CheckAccepted
  BY <1>4 DEF CheckAccepted, Checking, TypeOK, device
<1>5. CASE CheckFails
  <2>1. /\ rows' = rows \ recent /\ recent' = {} /\ pc' = "off"
        /\ UNCHANGED <<device, time, sessions, plan, work, pass, at, chosen>>
    BY <1>5 DEF CheckFails
  <2>2. rows' \in SUBSET rows
    BY <2>1
  <2>3. IsFiniteSet(rows')
    BY <2>2, FS_Subset
  <2> QED BY <2>1, <2>2, <2>3 DEF TypeOK, device
<1>6. CASE Interrupt
  BY <1>6 DEF Interrupt, TypeOK, device
<1>7. CASE Select
  <2>1. /\ UNCHANGED <<device, time, sessions, plan, work, pass, at, rows, recent>>
        /\ pc' = "done"
    BY <1>7 DEF Select
  <2>2. PICK listing \in SetToSeqs(Groups(InScope)) :
          chosen' = [k \in RoofSet |-> Winner(InScope, listing, k)]
    BY <1>7 DEF Select
  <2>3. Rated(InScope) /\ InScope \subseteq rows
    <3>1. InScope \in SUBSET rows
      BY DEF InScope
    <3>2. IsFiniteSet(InScope)
      BY <3>1, FS_Subset
    <3> QED BY <3>1, <3>2, RowsRated DEF Rated
  <2>4. Groups(InScope) \subseteq Configs \X Reps
    <3>1. \A r \in InScope : r.config \in Configs /\ r.reps \in Reps
      BY <2>3 DEF TypeOK, Row, Reps
    <3> QED BY <3>1 DEF Groups
  <2>5. \A k \in RoofSet : Winner(InScope, listing, k) \in {<<>>} \cup Groups(InScope)
    BY <2>3, WinnerIsBest
  <2>6. chosen' \in [RoofSet -> {<<>>} \cup (Configs \X Reps)]
    BY <2>2, <2>4, <2>5
  <2>7. InScope' = InScope
    BY <2>1 DEF InScope
  <2>8. Exported(chosen', InScope')
    BY <2>2, <2>7 DEF Exported
  <2> QED BY <2>1, <2>6, <2>8 DEF TypeOK, device, Reps
<1>8. CASE UNCHANGED vars
  <2>1. InScope' = InScope
    BY <1>8 DEF vars, InScope
  <2> QED BY <2>1, <1>8 DEF vars, device, TypeOK
<1> QED BY <1>1, <1>2, <1>3, <1>4, <1>5, <1>6, <1>7, <1>8 DEF Next

\* The rows of a candidate's group are all in the scope of its run.
LEMMA ScopeKeepsGroups ==
  ASSUME NEW g, \E n \in DOMAIN work : g[1] = work[n]
  PROVE  /\ Confirmed(InScope, g) <=> Confirmed(rows, g)
         /\ GroupMedian(InScope, g) = GroupMedian(rows, g)
<1>1. Repeats(InScope, g) = Repeats(rows, g)
  BY DEF Repeats, InScope
<1> QED BY <1>1 DEF Confirmed, GroupMedian

LEMMA ScopeIsExportable ==
  ASSUME NEW k
  PROVE  Good(InScope, k) = {g \in Good(rows, k) : \E n \in DOMAIN work : g[1] = work[n]}
<1>1. ASSUME NEW g
      PROVE  g \in Groups(InScope) <=>
               g \in Groups(rows) /\ \E n \in DOMAIN work : g[1] = work[n]
  BY DEF Groups, InScope
<1> QED BY <1>1, ScopeKeepsGroups DEF Good

LEMMA TypeInvReport == TypeInv => ReportKeepsRoofs
<1> SUFFICES ASSUME TypeInv, pc = "done", NEW k \in RoofSet
             PROVE
      LET confirmed == {g \in Groups(rows) : RoofOf[g[1]] = k /\ Confirmed(rows, g)}
          exportable == {g \in confirmed : \E n \in DOMAIN work : g[1] = work[n]}
      IN /\ IF chosen[k] = <<>> THEN exportable = {}
            ELSE /\ chosen[k] \in exportable
                 /\ \A g \in exportable : GroupMedian(rows, g) <= GroupMedian(rows, chosen[k])
         /\ \A listing \in SetToSeqs(Groups(rows)) : \A items \in SetToSeqs(Items(listing, k)) :
              LET peak == Peak(items)
              IN IF confirmed # {}
                   THEN /\ peak[1].confirmed
                        /\ \A g \in confirmed : GroupMedian(rows, g) <= peak[1].value
                   ELSE /\ peak = <<>> <=> Admitted(k) = {}
                        /\ \A c \in Admitted(k) : 2 * sweep[c] <= peak[1].value
  BY DEF ReportKeepsRoofs
<1> DEFINE exportable == {g \in Good(rows, k) : \E n \in DOMAIN work : g[1] = work[n]}
<1>1. Rated(rows) /\ sweep \in Sweeps
  BY RowsRated DEF TypeInv, TypeOK
<1>2. Rated(InScope)
  <2>1. InScope \in SUBSET rows
    BY DEF InScope
  <2> QED BY <2>1, <1>1, FS_Subset DEF Rated
<1>3. PICK listing \in SetToSeqs(Groups(InScope)) : chosen[k] = Winner(InScope, listing, k)
  BY DEF TypeInv, Exported
<1>4. Good(InScope, k) = exportable
  BY ScopeIsExportable
<1>5. IF chosen[k] = <<>> THEN exportable = {}
      ELSE /\ chosen[k] \in exportable
           /\ \A g \in exportable : GroupMedian(InScope, g) <= GroupMedian(InScope, chosen[k])
  <2> HIDE DEF exportable
  <2> QED BY <1>2, <1>3, <1>4, WinnerIsBest
<1>6. \A g \in exportable : GroupMedian(InScope, g) = GroupMedian(rows, g)
  BY ScopeKeepsGroups
<1>7. IF chosen[k] = <<>> THEN exportable = {}
      ELSE /\ chosen[k] \in exportable
           /\ \A g \in exportable : GroupMedian(rows, g) <= GroupMedian(rows, chosen[k])
  <2> HIDE DEF exportable
  <2> QED BY <1>5, <1>6
<1>8. ASSUME NEW l \in SetToSeqs(Groups(rows)), NEW items \in SetToSeqs(Items(l, k))
      PROVE  IF Good(rows, k) # {}
               THEN /\ Peak(items)[1].confirmed
                    /\ \A g \in Good(rows, k) : GroupMedian(rows, g) <= Peak(items)[1].value
               ELSE /\ Peak(items) = <<>> <=> Admitted(k) = {}
                    /\ \A c \in Admitted(k) : 2 * sweep[c] <= Peak(items)[1].value
  BY <1>1, ReportIsRight
<1>9. Good(rows, k) = {g \in Groups(rows) : RoofOf[g[1]] = k /\ Confirmed(rows, g)}
  BY DEF Good
<1> QED BY Zenon, <1>7, <1>8, <1>9

(* The variables keep their types, for any roofs, plans and drifts. *)
THEOREM TypeCorrect == Spec => []TypeOK
<1>1. TypeInv => TypeOK
  BY DEF TypeInv
<1> QED BY <1>1, InitIInv, NextIInv, InitTypeInv, NextTypeInv, PTL DEF Spec

(* Whatever order directories are listed in, a run exports the best of the groups it
   confirmed, and the report shows the best confirmed group of a roof, and the best of the
   sweep if there is none (select_roofs, and analyze of report.py). *)
THEOREM ReportKept == Spec => []ReportKeepsRoofs
  BY InitIInv, NextIInv, InitTypeInv, NextTypeInv, TypeInvReport, PTL DEF Spec

-----------------------------------------------------------------------------
(* An uninterrupted run against the clock. *)

\* The place of candidate number n in pass p, and the measurements before it.
Slot(n, p) == IF p % 2 = 0 THEN n ELSE Len(work) + 1 - n
When(n, p) == p * Len(work) + (Slot(n, p) - 1)

Distinct == \A m, n \in DOMAIN work : work[m] = work[n] => m = n

\* A row of this run's candidate number n, measured in its turn.
Timely(r, n) ==
  /\ n \in DOMAIN work /\ r.config = work[n] /\ r.reps = plan.reps
  /\ r.replicate \in 0..(plan.reps - 1)
  /\ When(n, r.replicate) < time
  /\ r.rate = base[work[n]] - drift * When(n, r.replicate)

\* As long as the first run goes on, and after it: nothing was isolated or measured before.
Straight ==
  /\ Distinct
  /\ time = pass * Len(work) + (at - 1)
  /\ \A r \in rows : \E n \in DOMAIN work : Timely(r, n)
  /\ \A q, r \in rows : q.config = r.config /\ q.replicate = r.replicate => q = r

StraightInv ==
  /\ sessions = 0 => pc = "off" /\ rows = {} /\ time = 0
  /\ sessions = 1 /\ pc # "off" => Straight

\* A run has no configuration twice among its candidates.
LEMMA WorkIsDistinct ==
  ASSUME NEW top, NEW w \in WorkLists(top), NEW m \in DOMAIN w, NEW n \in DOMAIN w, w[m] = w[n]
  PROVE  m = n
<1>1. DOMAIN w \subseteq Nat
  <2>1. Cardinality(Configs) \in Nat
    BY ConstantsAssumption, FS_CardinalityType
  <2> QED BY <2>1 DEF WorkLists
<1>2. \A i, j \in DOMAIN Roofs : i < j => Roofs[i] # Roofs[j]
  <2>1. \A i, j \in DOMAIN Roofs : Roofs[i] = Roofs[j] => i = j
    BY ConstantsAssumption DEF IsInjective
  <2>2. DOMAIN Roofs \subseteq Nat
    BY ConstantsAssumption
  <2> QED BY <2>1, <2>2
<1>3. ASSUME NEW a \in DOMAIN w, NEW b \in DOMAIN w, a < b PROVE w[a] # w[b]
  <2>1. \/ \E i, j \in DOMAIN Roofs : i < j /\ Roofs[i] = RoofOf[w[a]] /\ Roofs[j] = RoofOf[w[b]]
        \/ w[a] # w[b]
    BY <1>3 DEF WorkLists
  <2> QED BY <2>1, <1>2
<1> QED BY <1>1, <1>3

LEMMA SlotType ==
  ASSUME Shape, NEW n \in DOMAIN work, NEW p \in Nat
  PROVE  /\ Len(work) \in Nat \ {0} /\ Slot(n, p) \in 1..Len(work)
         /\ When(n, p) \in Nat
         /\ p * Len(work) <= When(n, p) /\ When(n, p) < (p + 1) * Len(work)
<1>1. Len(work) \in Nat \ {0} /\ n \in 1..Len(work)
  BY DEF Shape
<1>2. Slot(n, p) \in 1..Len(work)
  BY <1>1 DEF Slot
<1> DEFINE L == Len(work)
           e == Slot(n, p)
           z == p * L
<1>3. z \in Nat /\ (p + 1) * L = z + L
  BY <1>1
<1>4. When(n, p) = z + (e - 1)
  BY DEF When
<1> HIDE DEF z, L, e
<1> QED BY <1>1, <1>2, <1>3, <1>4 DEF z, L, e

\* Measuring goes on by one.
LEMMA NextTurn ==
  ASSUME IInv, Straight, Measuring, Advance
  PROVE  /\ work # <<>> /\ at \in 1..Len(work) /\ Len(work) \in Nat \ {0} /\ pass \in Nat
         /\ pass < plan.reps /\ plan.reps \in Nat
         /\ Place(at) \in DOMAIN work /\ Due = work[Place(at)]
         /\ When(Place(at), pass) = time /\ time \in Nat
         /\ pass' * Len(work) + (at' - 1) = time + 1
<1>1. /\ work \in Seq(Configs) /\ work # <<>> /\ plan \in Plans /\ pass \in 0..plan.reps
      /\ at \in 1..Len(work) /\ pass # plan.reps
  BY DEF IInv, Shape, Measuring, Finished
<1>2. plan.reps \in Nat
  BY <1>1, PlanType
<1>3. Len(work) \in Nat \ {0} /\ DOMAIN work = 1..Len(work)
  BY <1>1
<1>4. Place(at) \in DOMAIN work /\ Slot(Place(at), pass) = at
  BY <1>1, <1>2, <1>3 DEF Place, Slot
<1>5. Due = work[Place(at)]
  BY DEF Due, Place
<1>6. When(Place(at), pass) = time
  BY <1>4 DEF When, Straight
<1> DEFINE L == Len(work)
           z == pass * L
<1>7. z \in Nat /\ (pass + 1) * L = z + L /\ time = z + (at - 1)
  BY <1>1, <1>2, <1>3 DEF Straight
<1>8. /\ at < L => at' = at + 1 /\ pass' = pass
      /\ ~(at < L) => at' = 1 /\ pass' = pass + 1
  BY DEF Advance
<1>9. pass' * L + (at' - 1) = time + 1
  <2>1. CASE at < L
    <3>1. pass' * L = z /\ at' = at + 1
      BY <2>1, <1>8
    <3> HIDE DEF z, L
    <3> QED BY <3>1, <1>7, <1>1
  <2>2. CASE ~(at < L)
    <3>1. pass' * L = z + L /\ at' = 1
      BY <2>2, <1>7, <1>8
    <3>2. at \in 1..L /\ L \in Nat
      BY <1>1, <1>3
    <3> HIDE DEF z, L
    <3>3. at = L
      BY ONLY <3>2, <2>2
    <3> QED BY ONLY <3>1, <3>2, <3>3, <1>7
  <2> QED BY <2>1, <2>2
<1>10. time \in Nat
  <2> HIDE DEF z, L
  <2> QED BY <1>1, <1>7
<1> QED BY <1>1, <1>2, <1>3, <1>4, <1>5, <1>6, <1>9, <1>10

\* In an uninterrupted run nothing that is due has a row yet.
LEMMA NothingStored ==
  ASSUME IInv, Straight, Measuring, Advance
  PROVE  ~HasRow
<1> SUFFICES ASSUME NEW r \in rows, r.config = Due, r.reps = plan.reps, r.replicate = pass
             PROVE  FALSE
  BY DEF HasRow, Stored
<1>1. PICK n \in DOMAIN work : Timely(r, n)
  BY DEF Straight
<1>2. n = Place(at)
  BY <1>1, NextTurn DEF Timely, Straight, Distinct
<1>3. When(n, pass) = time /\ When(n, pass) < time /\ time \in Nat
  BY <1>1, <1>2, NextTurn DEF Timely
<1> QED BY <1>3

LEMMA StraightInit == Init => StraightInv
  BY DEF Init, StraightInv

LEMMA StraightNext == IInv /\ TypeInv /\ StraightInv /\ [Next]_vars => StraightInv'
<1> SUFFICES ASSUME IInv, TypeInv, StraightInv, [Next]_vars PROVE StraightInv'
  OBVIOUS
<1>0. sessions \in Nat
  BY ConstantsAssumption DEF TypeInv, TypeOK
<1>1. CASE Start
  <2>1. /\ plan' \in Plans /\ work' \in WorkLists(plan'.top) /\ pass' = 0 /\ at' = 1
        /\ pc' = "confirm" /\ sessions' = sessions + 1 /\ UNCHANGED <<time, rows>>
    BY <1>1 DEF Start
  <2>2. CASE sessions = 0
    <3>1. rows' = {} /\ time' = 0 /\ sessions' = 1
      BY <2>1, <2>2 DEF StraightInv
    <3>2. Distinct'
      BY <2>1, WorkIsDistinct DEF Distinct
    <3>3. work' \in Seq(Configs)
      BY <2>1, WorkListsAreSequences
    <3>4. Len(work') \in Nat
      BY <3>3
    <3>5. time' = pass' * Len(work') + (at' - 1)
      BY <3>1, <3>4, <2>1
    <3> QED BY <3>1, <3>2, <3>5 DEF StraightInv, Straight
  <2>3. CASE sessions # 0
    BY <2>1, <2>3, <1>0 DEF StraightInv
  <2> QED BY <2>2, <2>3
<1>2. CASE Skip
  <2>1. Measuring /\ HasRow /\ Advance /\ UNCHANGED <<time, rows, sessions, pc>> /\ pc = "confirm"
    BY <1>2 DEF Skip, Measuring, Advance
  <2>2. ~(sessions = 1 /\ pc # "off")
    BY <2>1, NothingStored DEF StraightInv
  <2> QED BY <2>1, <2>2 DEF StraightInv
<1>3. CASE Measure
  <2>1. /\ Measuring /\ Advance /\ time' = time + 1 /\ pc = "confirm" /\ sessions # 0
        /\ UNCHANGED <<device, sessions, pc, plan, work>>
    BY <1>3 DEF Measure, Measuring, Advance, StraightInv
  <2>2. PICK ok \in BOOLEAN :
          LET row == [config |-> Due, reps |-> plan.reps, replicate |-> pass,
                      rate |-> base[Due] - drift * time, ok |-> ok]
          IN rows' = (rows \ Stored) \cup {row} /\ recent' = recent \cup {row}
    BY <1>3 DEF Measure
  <2> DEFINE row == [config |-> Due, reps |-> plan.reps, replicate |-> pass,
                     rate |-> base[Due] - drift * time, ok |-> ok]
  <2>3. Stored = {}
    BY <1>3 DEF Measure, HasRow
  <2>4. rows' = rows \cup {row}
    BY <2>2, <2>3
  <2>5. /\ row.config = Due /\ row.reps = plan.reps /\ row.replicate = pass
        /\ row.rate = base[Due] - drift * time
    OBVIOUS
  <2> HIDE DEF row
  <2>6. CASE sessions = 1
    <3>1. Straight
      BY <2>1, <2>6 DEF StraightInv
    <3>2. Distinct' /\ \A n, p : When(n, p)' = When(n, p)
      BY <2>1, <3>1 DEF Straight, Distinct, When, Slot
    <3>3. time' = pass' * Len(work') + (at' - 1)
      BY <2>1, <3>1, NextTurn
    <3>4. ASSUME NEW r \in rows, NEW n \in DOMAIN work, Timely(r, n) PROVE Timely(r, n)'
      <4>1. r.replicate \in Nat /\ time \in Nat
        BY <3>1, <2>1, <3>4, NextTurn DEF Timely
      <4>2. When(n, r.replicate) \in Nat
        BY <4>1, SlotType DEF IInv
      <4> QED BY <2>1, <3>2, <3>4, <4>1, <4>2 DEF Timely, device
    <3>5. ASSUME NEW r, r = row, NEW n, n = Place(at) PROVE n \in DOMAIN work' /\ Timely(r, n)'
      <4>1. /\ n \in DOMAIN work /\ r.config = work[n] /\ r.reps = plan.reps
            /\ r.replicate = pass /\ r.rate = base[work[n]] - drift * time
            /\ When(n, pass) = time /\ time \in Nat /\ pass \in 0..(plan.reps - 1)
        BY <2>1, <2>5, <3>1, <3>5, NextTurn
      <4> QED BY <4>1, <2>1, <3>2 DEF Timely, device
    <3>7. ASSUME NEW r \in rows' PROVE \E n \in DOMAIN work' : Timely(r, n)'
      <4>1. CASE r = row
        BY <4>1, <3>5
      <4>2. CASE r \in rows
        BY <4>2, <3>1, <3>4, <2>1 DEF Straight
      <4> QED BY <4>1, <4>2, <2>4
    <3>8. ASSUME NEW r \in rows PROVE ~(r.config = row.config /\ r.replicate = row.replicate)
      <4>1. r.reps = plan.reps
        BY <3>1 DEF Straight, Timely
      <4> QED BY <4>1, <2>3, <2>5 DEF Stored
    <3>9. ASSUME NEW q \in rows', NEW r \in rows', q.config = r.config, q.replicate = r.replicate
          PROVE  q = r
      <4>1. (q \in rows \/ q = row) /\ (r \in rows \/ r = row)
        BY <2>4
      <4>2. CASE q \in rows /\ r \in rows
        BY <4>2, <3>1, <3>9 DEF Straight
      <4> QED BY <4>1, <4>2, <3>8, <3>9
    <3> QED BY <2>1, <3>2, <3>3, <3>7, <3>9, <2>6 DEF StraightInv, Straight
  <2>7. CASE sessions # 1
    BY <2>1, <2>7 DEF StraightInv
  <2> QED BY <2>6, <2>7
<1>4. CASE CheckAccepted
  <2>1. UNCHANGED <<device, time, sessions, plan, work, pass, at, rows>> /\ pc = "confirm"
    BY <1>4 DEF CheckAccepted, Checking
  <2>2. Straight => Straight'
    BY <2>1 DEF Straight, Distinct, Timely, When, Slot, device
  <2> QED BY <2>1, <2>2 DEF StraightInv
<1>5. CASE CheckFails \/ Interrupt
  <2>1. pc # "off" /\ pc' = "off" /\ sessions' = sessions
    BY <1>5 DEF CheckFails, Checking, Interrupt
  <2> QED BY <2>1 DEF StraightInv
<1>6. CASE Select
  <2>1. UNCHANGED <<device, time, sessions, plan, work, pass, at, rows>> /\ pc = "select"
    BY <1>6 DEF Select
  <2>2. Straight => Straight'
    BY <2>1 DEF Straight, Distinct, Timely, When, Slot, device
  <2> QED BY <2>1, <2>2 DEF StraightInv
<1>7. CASE UNCHANGED vars
  <2>1. UNCHANGED <<device, time, sessions, plan, work, pass, at, rows, pc>>
    BY <1>7 DEF vars
  <2>2. Straight => Straight'
    BY <2>1 DEF Straight, Distinct, Timely, When, Slot, device
  <2> QED BY <2>1, <2>2 DEF StraightInv
<1> QED BY <1>1, <1>2, <1>3, <1>4, <1>5, <1>6, <1>7 DEF Next

-----------------------------------------------------------------------------
(* The repeats in the middle. *)

\* Different repeats in order: the k-th has k - 1 below it and N - k above it.
LEMMA Rising ==
  ASSUME NEW N \in Nat, NEW R \in Nat, NEW q \in [1..N -> 0..(R - 1)],
         \A m, n \in 1..N : m < n => q[m] < q[n]
  PROVE  \A k \in 1..N : k - 1 <= q[k] /\ q[k] <= R - 1 - (N - k)
<1>1. ASSUME NEW k \in 1..N, q[k] < k - 1 PROVE FALSE
  <2> DEFINE low == {j \in 1..N : q[j] < j - 1}
  <2>1. low \in SUBSET Nat /\ low # {}
    BY SMTT(30), <1>1
  <2>2. PICK j \in low : \A i \in low : j <= i
    <3> HIDE DEF low
    <3> QED BY <2>1, LeastOf
  <2>3. j \in 1..N /\ q[j] < j - 1 /\ q[j] \in 0..(R - 1)
    BY <2>2
  <2>4. j - 1 \in 1..N /\ q[j - 1] < q[j] /\ q[j - 1] \in 0..(R - 1)
    BY <2>3
  <2>5. ~(q[j - 1] < (j - 1) - 1)
    BY <2>2, <2>4
  <2> QED BY <2>3, <2>4, <2>5
<1>2. ASSUME NEW k \in 1..N, ~(q[k] <= R - 1 - (N - k)) PROVE FALSE
  <2> DEFINE high == {i \in 1..N : ~(q[N + 1 - i] <= R - i)}
  <2>1. high \in SUBSET Nat /\ high # {}
    <3>1. N + 1 - k \in 1..N /\ N + 1 - (N + 1 - k) = k /\ R - (N + 1 - k) = R - 1 - (N - k)
      OBVIOUS
    <3>2. N + 1 - k \in high
      BY <3>1, <1>2
    <3>3. high \subseteq 1..N
      OBVIOUS
    <3> HIDE DEF high
    <3>4. 1..N \subseteq Nat
      OBVIOUS
    <3> QED BY ONLY <3>2, <3>3, <3>4
  <2>2. PICK j \in high : \A i \in high : j <= i
    <3> HIDE DEF high
    <3> QED BY <2>1, LeastOf
  <2>3. /\ j \in 1..N /\ N + 1 - j \in 1..N /\ q[N + 1 - j] \in 0..(R - 1)
        /\ ~(q[N + 1 - j] <= R - j)
    BY <2>2
  <2>4. j - 1 \in 1..N
    BY <2>3
  <2>5. /\ N + 1 - (j - 1) \in 1..N /\ q[N + 1 - j] < q[N + 1 - (j - 1)]
        /\ q[N + 1 - (j - 1)] \in 0..(R - 1)
    BY <2>3, <2>4
  <2>6. q[N + 1 - (j - 1)] <= R - (j - 1)
    <3>1. j - 1 \notin high
      <4>1. j \in Nat /\ j - 1 \in Nat /\ ~(j <= j - 1)
        BY <2>3
      <4> HIDE DEF high
      <4> QED BY ONLY <2>2, <4>1
    <3> QED BY <3>1, <2>4
  <2> QED BY <2>3, <2>5, <2>6
<1>3. ASSUME NEW k \in 1..N PROVE k - 1 <= q[k] /\ q[k] <= R - 1 - (N - k)
  <2>1. q[k] \in 0..(R - 1)
    OBVIOUS
  <2> QED BY <2>1, <1>1, <1>2
<1> QED BY <1>3

\* Of 2 * c + 1 repeats, or all but one of them, x and y are the two in the middle.
Middle(c, x, y) ==
  \/ x = c /\ y \in {c - 1, c, c + 1}
  \/ y = c /\ x \in {c - 1, c + 1}
  \/ x = c - 1 /\ y = c + 1
  \/ x = c + 1 /\ y = c - 1

Falling(q, N) == \A m, n \in 1..N : m < n => q[n] < q[m]

LEMMA MiddleRising ==
  ASSUME NEW c \in Nat \ {0}, NEW N \in {2 * c, 2 * c + 1}, NEW q \in [1..N -> 0..(2 * c)],
         \A m, n \in 1..N : m < n => q[m] < q[n]
  PROVE  Middle(c, q[(N + 1) \div 2], q[(N + 2) \div 2])
<1>1. \A k \in 1..N : k - 1 <= q[k] /\ q[k] <= (2 * c + 1) - 1 - (N - k)
  <2>1. N \in Nat /\ 2 * c + 1 \in Nat /\ q \in [1..N -> 0..((2 * c + 1) - 1)]
    OBVIOUS
  <2> QED BY <2>1, Rising
<1>2. CASE N = 2 * c + 1
  <2>1. (N + 1) \div 2 = c + 1 /\ (N + 2) \div 2 = c + 1 /\ c + 1 \in 1..N
    BY <1>2
  <2>2. q[c + 1] = c
    <3>1. q[c + 1] \in 0..(2 * c)
      BY <2>1
    <3> QED BY <1>1, <1>2, <2>1, <3>1
  <2> QED BY <2>1, <2>2 DEF Middle
<1>3. CASE N = 2 * c
  <2>1. (N + 1) \div 2 = c /\ (N + 2) \div 2 = c + 1 /\ c \in 1..N /\ c + 1 \in 1..N
    BY <1>3
  <2>2. /\ q[c] \in 0..(2 * c) /\ q[c + 1] \in 0..(2 * c)
        /\ c - 1 <= q[c] /\ q[c] <= c /\ c <= q[c + 1] /\ q[c + 1] <= c + 1
    BY <1>1, <1>3, <2>1
  <2>3. q[c] \in {c - 1, c} /\ q[c + 1] \in {c, c + 1} /\ q[c] # q[c + 1]
    <3>1. c < c + 1
      OBVIOUS
    <3>2. q[c] < q[c + 1]
      BY <2>1, <3>1
    <3> DEFINE x == q[c]
               y == q[c + 1]
    <3>3. x \in Int /\ y \in Int /\ c \in Int
      BY <2>2
    <3>4. c - 1 <= x /\ x <= c /\ c <= y /\ y <= c + 1 /\ x < y
      BY <2>2, <3>2
    <3> HIDE DEF x, y
    <3>5. x \in {c - 1, c} /\ y \in {c, c + 1} /\ x # y
      BY ONLY <3>3, <3>4
    <3> QED BY <3>5 DEF x, y
  <2> QED BY <2>1, <2>3 DEF Middle
<1> QED BY <1>2, <1>3

LEMMA MiddleFalling ==
  ASSUME NEW c \in Nat \ {0}, NEW N \in {2 * c, 2 * c + 1}, NEW q \in [1..N -> 0..(2 * c)],
         Falling(q, N)
  PROVE  Middle(c, q[(N + 1) \div 2], q[(N + 2) \div 2])
<1> DEFINE r == [k \in 1..N |-> q[N + 1 - k]]
<1>1. \A k \in 1..N : N + 1 - k \in 1..N /\ r[k] = q[N + 1 - k]
  OBVIOUS
<1>2. r \in [1..N -> 0..(2 * c)]
  BY <1>1
<1> HIDE DEF r
<1>3. \A m, n \in 1..N : m < n => r[m] < r[n]
  <2> TAKE m, n \in 1..N
  <2> HAVE m < n
  <2>1. N + 1 - n < N + 1 - m
    OBVIOUS
  <2> QED BY <2>1, <1>1 DEF Falling
<1>4. Middle(c, r[(N + 1) \div 2], r[(N + 2) \div 2])
  BY <1>2, <1>3, MiddleRising
<1>5. /\ (N + 1) \div 2 \in 1..N /\ (N + 2) \div 2 \in 1..N
      /\ N + 1 - (N + 1) \div 2 = (N + 2) \div 2 /\ N + 1 - (N + 2) \div 2 = (N + 1) \div 2
  <2>1. CASE N = 2 * c
    <3>1. (N + 1) \div 2 = c /\ (N + 2) \div 2 = c + 1
      BY <2>1
    <3> QED BY <2>1, <3>1
  <2>2. CASE N = 2 * c + 1
    <3>1. (N + 1) \div 2 = c + 1 /\ (N + 2) \div 2 = c + 1
      BY <2>2
    <3> QED BY <2>2, <3>1
  <2> QED BY <2>1, <2>2
<1>6. r[(N + 1) \div 2] = q[(N + 2) \div 2] /\ r[(N + 2) \div 2] = q[(N + 1) \div 2]
  <2> DEFINE u == (N + 1) \div 2
             v == (N + 2) \div 2
  <2>1. u \in 1..N /\ v \in 1..N /\ N + 1 - u = v /\ N + 1 - v = u
    BY <1>5
  <2> HIDE DEF u, v
  <2>2. r[u] = q[v] /\ r[v] = q[u]
    BY ONLY <2>1, <1>1
  <2> QED BY <2>2 DEF u, v
<1> QED BY <1>4, <1>6 DEF Middle

\* A later repeat is measured later.
LEMMA WhenRises ==
  ASSUME Shape, NEW n \in DOMAIN work, NEW i \in Nat, NEW j \in Nat, i < j
  PROVE  When(n, i) < When(n, j)
<1> DEFINE L == Len(work)
<1>1. L \in Nat \ {0} /\ When(n, i) \in Nat /\ When(n, j) \in Nat
      /\ When(n, i) < (i + 1) * L /\ j * L <= When(n, j)
  BY SlotType
<1> HIDE DEF L
<1>2. PICK e \in Nat : j = (i + 1) + e
  <2>1. j - (i + 1) \in Nat /\ j = (i + 1) + (j - (i + 1))
    OBVIOUS
  <2> QED BY <2>1
<1>3. j * L = (i + 1) * L + e * L /\ e * L \in Nat /\ (i + 1) * L \in Nat /\ j * L \in Nat
  BY <1>1, <1>2
<1> DEFINE x == (i + 1) * L
           y == j * L
           z == e * L
<1>4. x \in Nat /\ y \in Nat /\ z \in Nat /\ y = x + z
  BY <1>3
<1>5. When(n, i) < x /\ y <= When(n, j)
  BY <1>1
<1> HIDE DEF x, y, z
<1> QED BY <1>1, <1>4, <1>5

\* Whatever repeat a candidate lost, the two in the middle lie at the same time but for
\* one pass.
LEMMA MiddleTime ==
  ASSUME Shape, NEW n \in DOMAIN work, NEW c \in Nat \ {0}, NEW x, NEW y, Middle(c, x, y)
  PROVE  /\ When(n, x) + When(n, y) \in Int
         /\ 2 * (c * Len(work)) - 1 <= When(n, x) + When(n, y)
         /\ When(n, x) + When(n, y) < 2 * (c * Len(work)) + 2 * Len(work)
<1> DEFINE L == Len(work)
           z == c * L
           s == Slot(n, c)
<1>1. L \in Nat \ {0} /\ n \in 1..L
  BY DEF Shape
<1>2. z \in Nat /\ (c - 1) * L = z - L /\ (c + 1) * L = z + L
  BY <1>1
<1>3. s \in 1..L /\ Slot(n, c - 1) = L + 1 - s /\ Slot(n, c + 1) = L + 1 - s
  BY <1>1 DEF Slot
<1>4. /\ When(n, c) = z + (s - 1)
      /\ When(n, c - 1) = (z - L) + ((L + 1 - s) - 1)
      /\ When(n, c + 1) = (z + L) + ((L + 1 - s) - 1)
  BY <1>2, <1>3 DEF When
<1> HIDE DEF L, z, s
<1> DEFINE u == When(n, c - 1)
           v == When(n, c)
           w == When(n, c + 1)
<1>5. v = z + (s - 1) /\ u = z - s /\ w = z + 2 * L - s
  BY <1>1, <1>2, <1>3, <1>4
<1>6. \/ When(n, x) = v /\ When(n, y) \in {u, v, w}
      \/ When(n, y) = v /\ When(n, x) \in {u, w}
      \/ When(n, x) = u /\ When(n, y) = w
      \/ When(n, x) = w /\ When(n, y) = u
  BY DEF Middle
<1> HIDE DEF u, v, w
<1> DEFINE a == When(n, x)
           b == When(n, y)
<1> HIDE DEF a, b
<1>7. /\ a + b \in Int /\ 2 * z - 1 <= a + b /\ a + b < 2 * z + 2 * L
  <2>1. \/ a = v /\ b \in {u, v, w}
        \/ b = v /\ a \in {u, w}
        \/ a = u /\ b = w
        \/ a = w /\ b = u
    BY <1>6 DEF a, b
  <2> QED BY ONLY <2>1, <1>1, <1>2, <1>3, <1>5
<1> QED BY <1>7 DEF a, b, z, L

\* What n's rows of an uninterrupted run say.
LEMMA StraightRows ==
  ASSUME IInv, Straight, NEW n \in DOMAIN work, NEW r \in Repeats(rows, <<work[n], plan.reps>>)
  PROVE  /\ r \in rows /\ r.config = work[n] /\ r.replicate \in 0..(plan.reps - 1)
         /\ r.rate = base[work[n]] - drift * When(n, r.replicate)
<1>1. r \in rows /\ r.config = work[n]
  BY DEF Repeats
<1>2. PICK m \in DOMAIN work : Timely(r, m)
  BY <1>1 DEF Straight
<1>3. m = n
  BY <1>1, <1>2 DEF Timely, Straight, Distinct
<1> QED BY <1>1, <1>2, <1>3 DEF Timely

\* A confirmed candidate has lost at most one of its repeats, and has no others.
LEMMA StraightAttempts ==
  ASSUME IInv, TypeInv, Straight, NEW n \in DOMAIN work, NEW c \in Nat, plan.reps = 2 * c + 1,
         Confirmed(rows, <<work[n], plan.reps>>)
  PROVE  LET ok == Eligible(Repeats(rows, <<work[n], plan.reps>>)) IN
         c # 0 /\ Cardinality(ok) \in {2 * c, 2 * c + 1} /\ IsFiniteSet(ok)
<1> DEFINE g == <<work[n], plan.reps>>
           A == Repeats(rows, g)
           ok == Eligible(A)
           f == [r \in A |-> r.replicate]
           T == 0..(2 * c)
<1>1. A \in SUBSET rows /\ ok \in SUBSET A
  BY DEF Repeats, Eligible
<1>2. f \in [A -> T] /\ \A r \in A : f[r] = r.replicate
  BY StraightRows
<1>3. \A q, r \in A : f[q] = f[r] => q = r
  <2>1. \A q, r \in A : q \in rows /\ r \in rows /\ q.config = r.config
    BY StraightRows
  <2> QED BY <2>1, <1>2 DEF Straight
<1>4. /\ Cardinality(A) >= 2 * c + 1 /\ Cardinality(ok) >= 2
      /\ Cardinality(ok) >= Cardinality(A) - 1
  BY DEF Confirmed
<1>5. IsFiniteSet(rows)
  BY DEF TypeInv
<1> HIDE DEF g, A, ok, f, T
<1>6. IsFiniteSet(A) /\ IsFiniteSet(ok) /\ Cardinality(ok) <= Cardinality(A)
      /\ Cardinality(A) \in Nat /\ Cardinality(ok) \in Nat
  BY <1>1, <1>5, FS_Subset, FS_CardinalityType
<1>7. IsFiniteSet(T) /\ Cardinality(T) = 2 * c + 1
  <2>1. 0 <= 2 * c /\ 2 * c \in Int /\ 0 \in Int
    OBVIOUS
  <2> QED BY <2>1, FS_Interval DEF T
<1>8. f \in Injection(A, T)
  BY <1>2, <1>3 DEF Injection, IsInjective
<1>9. Cardinality(A) <= Cardinality(T)
  BY <1>7, <1>8, FS_Injection
<1> QED BY <1>4, <1>6, <1>7, <1>9 DEF ok, A, g

\* The median of a candidate in an uninterrupted run: its rate at a time in the middle pass.
LEMMA StraightMedian ==
  ASSUME IInv, TypeInv, Straight, NEW n \in DOMAIN work, NEW c \in Nat, plan.reps = 2 * c + 1,
         Confirmed(rows, <<work[n], plan.reps>>)
  PROVE  \E T \in Int : /\ 2 * (c * Len(work)) - 1 <= T
                        /\ T < 2 * (c * Len(work)) + 2 * Len(work)
                        /\ GroupMedian(rows, <<work[n], plan.reps>>) = 2 * base[work[n]] - drift * T
<1> DEFINE g == <<work[n], plan.reps>>
           ok == Eligible(Repeats(rows, g))
           N == Cardinality(ok)
           s == Sorted(ok)
           b == base[work[n]]
           q == [k \in 1..N |-> s[k].replicate]
           W(i) == When(n, i)
           u == (N + 1) \div 2
           v == (N + 2) \div 2
<1>1. c \in Nat \ {0} /\ N \in {2 * c, 2 * c + 1} /\ IsFiniteSet(ok)
  BY StraightAttempts
<1>2. Shape /\ b \in Int /\ drift \in Int
  <2>1. Shape /\ work[n] \in Configs
    BY DEF IInv, Shape
  <2> QED BY <2>1, ConstantsAssumption DEF TypeInv, TypeOK
<1>3. \A r \in ok : /\ r \in rows /\ r.config = work[n] /\ r.replicate \in 0..(2 * c)
                    /\ r.rate = b - drift * W(r.replicate)
  <2>1. \A r \in ok : r \in Repeats(rows, g)
    BY DEF Eligible
  <2> HIDE DEF ok
  <2> QED BY <2>1, StraightRows
<1>4. Rated(ok) /\ ok # {}
  <2>1. \A r \in ok : r.rate \in Int
    <3>1. Rated(rows)
      BY RowsRated
    <3> HIDE DEF ok
    <3> QED BY <1>3, <3>1 DEF Rated
  <2> HIDE DEF ok
  <2> QED BY <2>1, <1>1, FS_EmptySet DEF Rated
<1>5. GroupMedian(rows, g) = Median(ok)
  BY DEF GroupMedian
<1> HIDE DEF ok, N, s
<1>6. /\ N \in Nat \ {0} /\ Len(s) = N /\ s \in [1..N -> ok]
      /\ \A i, j \in 1..N : i < j => s[i].rate <= s[j].rate /\ s[i] # s[j]
  BY <1>4, SortedRows DEF N, s
<1>7. q \in [1..N -> 0..(2 * c)] /\ \A k \in 1..N : q[k] = s[k].replicate
  BY <1>3, <1>6
<1> HIDE DEF q, b
<1>8. \A k \in 1..N : s[k].rate = b - drift * W(q[k])
  BY <1>3, <1>6, <1>7
<1>9. \A i, j \in 1..N : i < j => q[i] # q[j]
  <2> TAKE i, j \in 1..N
  <2>1. s[i] \in ok /\ s[j] \in ok
    BY <1>6
  <2>2. s[i].replicate = s[j].replicate => s[i] = s[j]
    <3>1. s[i] \in rows /\ s[j] \in rows /\ s[i].config = s[j].config
      BY <1>3, <2>1
    <3> QED BY <3>1 DEF Straight
  <2> QED BY <2>2, <1>6, <1>7
<1>10. u \in 1..N /\ v \in 1..N
  BY <1>6
<1> HIDE DEF u, v
<1>11. Median(ok) = s[u].rate + s[v].rate
  BY <1>6 DEF Median, u, v, s
<1>12. \A k \in 1..N : q[k] \in Nat /\ W(q[k]) \in Nat
  <2> TAKE k \in 1..N
  <2>1. q[k] \in Nat
    BY <1>7
  <2> QED BY <2>1, <1>2, SlotType
<1>13. ASSUME NEW i \in 1..N, NEW j \in 1..N, q[i] < q[j] PROVE W(q[i]) < W(q[j])
  BY <1>2, <1>12, <1>13, WhenRises
<1> HIDE DEF W
<1>14. \A i, j \in 1..N : i < j => drift * W(q[j]) <= drift * W(q[i])
  <2> TAKE i, j \in 1..N
  <2> HAVE i < j
  <2>1. b - drift * W(q[i]) <= b - drift * W(q[j])
    BY <1>6, <1>8
  <2>2. drift * W(q[i]) \in Int /\ drift * W(q[j]) \in Int
    BY <1>2, <1>12
  <2> QED BY <2>1, <2>2, <1>2
<1>15. CASE drift = 0
  <2> DEFINE T == 2 * (c * Len(work))
  <2>1. s[u].rate = b /\ s[v].rate = b
    BY <1>2, <1>8, <1>10, <1>12, <1>15
  <2>2. Len(work) \in Nat \ {0} /\ T \in Int
    BY <1>2, <1>1 DEF Shape
  <2>3. GroupMedian(rows, g) = 2 * b - drift * T
    BY <2>1, <2>2, <1>2, <1>5, <1>11, <1>15
  <2>4. 2 * (c * Len(work)) - 1 <= T /\ T < 2 * (c * Len(work)) + 2 * Len(work)
    BY <2>2
  <2> HIDE DEF T
  <2> QED BY <2>2, <2>3, <2>4 DEF b
<1>16. CASE drift # 0
  <2>1. Middle(c, q[u], q[v])
    <3>1. CASE drift < 0
      <4>1. ASSUME NEW i \in 1..N, NEW j \in 1..N, i < j PROVE q[i] < q[j]
        <5>1. ASSUME q[j] < q[i] PROVE FALSE
          <6>1. W(q[j]) < W(q[i]) /\ W(q[j]) \in Nat /\ W(q[i]) \in Nat
            BY <5>1, <1>12, <1>13
          <6>2. drift * W(q[j]) <= drift * W(q[i])
            BY <4>1, <1>14
          <6> QED BY <6>1, <6>2, <3>1, <1>2
        <5> QED BY <5>1, <4>1, <1>9, <1>12
      <4> QED BY <4>1, <1>1, <1>7, MiddleRising DEF u, v
    <3>2. CASE drift > 0
      <4>1. ASSUME NEW i \in 1..N, NEW j \in 1..N, i < j PROVE q[j] < q[i]
        <5>1. ASSUME q[i] < q[j] PROVE FALSE
          <6>1. W(q[i]) < W(q[j]) /\ W(q[j]) \in Nat /\ W(q[i]) \in Nat
            BY <5>1, <1>12, <1>13
          <6>2. drift * W(q[j]) <= drift * W(q[i])
            BY <4>1, <1>14
          <6> QED BY <6>1, <6>2, <3>2, <1>2
        <5> QED BY <5>1, <4>1, <1>9, <1>12
      <4> QED BY <4>1, <1>1, <1>7, MiddleFalling DEF u, v, Falling
    <3> QED BY <3>1, <3>2, <1>2, <1>16
  <2> DEFINE T == W(q[u]) + W(q[v])
  <2>2. T \in Int /\ 2 * (c * Len(work)) - 1 <= T /\ T < 2 * (c * Len(work)) + 2 * Len(work)
    BY <2>1, <1>1, <1>2, MiddleTime DEF W
  <2>3. GroupMedian(rows, g) = 2 * b - drift * T
    <3>1. s[u].rate + s[v].rate = (b - drift * W(q[u])) + (b - drift * W(q[v]))
      BY <1>8, <1>10
    <3>2. W(q[u]) \in Int /\ W(q[v]) \in Int
      BY <1>10, <1>12
    <3>3. (b - drift * W(q[u])) + (b - drift * W(q[v])) = 2 * b - drift * T
      BY <3>2, <1>2
    <3> QED BY <3>1, <3>3, <1>5, <1>11
  <2> HIDE DEF T
  <2> QED BY <2>2, <2>3 DEF b
<1> QED BY <1>15, <1>16

\* A pass of drift is more than two times in it can differ by.
LEMMA DriftBound ==
  ASSUME NEW d \in Int, NEW M \in Nat, NEW e \in Int, -M <= e, e <= M
  PROVE  d * e <= Abs(d) * M /\ Abs(d) \in Nat /\ Abs(d) * M \in Nat
<1>1. CASE d < 0
  <2>1. Abs(d) = -d /\ -d \in Nat
    BY <1>1 DEF Abs
  <2>2. (-d) * (M + e) \in Nat /\ (-d) * M \in Nat
    BY <2>1
  <2>3. (-d) * (M + e) = (-d) * M - d * e /\ d * e \in Int
    OBVIOUS
  <2> QED BY <2>1, <2>2, <2>3
<1>2. CASE d >= 0
  <2>1. Abs(d) = d /\ d \in Nat
    BY <1>2 DEF Abs
  <2>2. d * (M - e) \in Nat /\ d * M \in Nat
    BY <2>1
  <2>3. d * (M - e) = d * M - d * e /\ d * e \in Int
    OBVIOUS
  <2> QED BY <2>1, <2>2, <2>3
<1> QED BY <1>1, <1>2

\* Every plan repeats an odd number of times, as those of PLANS do.
OddReps == \A p \in Plans : \E c \in Nat : p.reps = 2 * c + 1

LEMMA StraightFaster == OddReps /\ IInv /\ TypeInv /\ StraightInv => FasterWins
<1> SUFFICES ASSUME OddReps, IInv, TypeInv, StraightInv, pc = "done", sessions = 1,
                    NEW m \in DOMAIN work, NEW n \in DOMAIN work,
                    RoofOf[work[m]] = RoofOf[work[n]],
                    Confirmed(rows, <<work[m], plan.reps>>),
                    Confirmed(rows, <<work[n], plan.reps>>),
                    base[work[m]] > base[work[n]] + Len(work) * Abs(drift),
                    chosen[RoofOf[work[m]]] = <<work[n], plan.reps>>
             PROVE  FALSE
  BY DEF FasterWins
<1> DEFINE fast == <<work[m], plan.reps>>
           slow == <<work[n], plan.reps>>
           k == RoofOf[work[m]]
           L == Len(work)
<1>1. Straight
  BY DEF StraightInv
<1>2. PICK c \in Nat : plan.reps = 2 * c + 1
  BY DEF OddReps, IInv, Shape
<1>3. /\ L \in Nat /\ work[m] \in Configs /\ work[n] \in Configs /\ k \in RoofSet
      /\ base[work[m]] \in Int /\ base[work[n]] \in Int /\ drift \in Int
  <2>1. work \in Seq(Configs)
    BY DEF IInv, Shape
  <2>2. L \in Nat /\ work[m] \in Configs /\ work[n] \in Configs
    BY <2>1
  <2> QED BY <2>2, ConstantsAssumption DEF TypeInv, TypeOK
<1>4. PICK S \in Int : /\ 2 * (c * L) - 1 <= S /\ S < 2 * (c * L) + 2 * L
                       /\ GroupMedian(rows, fast) = 2 * base[work[m]] - drift * S
  BY <1>1, <1>2, StraightMedian
<1>5. PICK T \in Int : /\ 2 * (c * L) - 1 <= T /\ T < 2 * (c * L) + 2 * L
                       /\ GroupMedian(rows, slow) = 2 * base[work[n]] - drift * T
  BY <1>1, <1>2, StraightMedian
<1>6. GroupMedian(rows, fast) <= GroupMedian(rows, slow)
  <2>1. Rated(InScope)
    <3>1. InScope \in SUBSET rows
      BY DEF InScope
    <3>2. Rated(rows)
      BY RowsRated
    <3> QED BY <3>1, <3>2, FS_Subset DEF Rated
  <2>2. PICK listing \in SetToSeqs(Groups(InScope)) : chosen[k] = Winner(InScope, listing, k)
    BY <1>3 DEF TypeInv, Exported
  <2>3. fast \in Groups(rows)
    <3>1. Repeats(rows, fast) # {}
      <4>1. Cardinality(Eligible(Repeats(rows, fast))) # 0
        BY DEF Confirmed
      <4> QED BY <4>1, FS_EmptySet DEF Eligible
    <3>2. PICK r \in rows : r.config = work[m] /\ r.reps = plan.reps
      BY <3>1 DEF Repeats
    <3> QED BY <3>2 DEF Groups
  <2>4. fast \in Good(InScope, k)
    BY <2>3, ScopeIsExportable DEF Good
  <2>5. slow # <<>>
    OBVIOUS
  <2>6. GroupMedian(InScope, fast) <= GroupMedian(InScope, slow)
    BY <2>1, <2>2, <2>4, <2>5, WinnerIsBest
  <2>7. /\ GroupMedian(InScope, fast) = GroupMedian(rows, fast)
        /\ GroupMedian(InScope, slow) = GroupMedian(rows, slow)
    BY ScopeKeepsGroups
  <2> QED BY <2>6, <2>7
<1> DEFINE z == c * L
           e == S - T
           D == Abs(drift)
<1>7. z \in Nat /\ e \in Int /\ -(2 * L) <= e /\ e <= 2 * L
  <2>1. z \in Nat
    BY <1>3
  <2>2. 2 * z - 1 <= S /\ S < 2 * z + 2 * L /\ 2 * z - 1 <= T /\ T < 2 * z + 2 * L
    BY <1>4, <1>5
  <2> HIDE DEF z, L
  <2> QED BY <2>1, <2>2, <1>3
<1>8. drift * e <= D * (2 * L) /\ D \in Nat
  <2>1. 2 * L \in Nat
    BY <1>3
  <2> HIDE DEF e, L
  <2> QED BY <2>1, <1>3, <1>7, DriftBound
<1>9. drift * e = drift * S - drift * T /\ drift * S \in Int /\ drift * T \in Int
  BY <1>3
<1>10. D * (2 * L) = 2 * (L * D) /\ L * D \in Nat
  BY <1>3, <1>8
<1>11. base[work[m]] > base[work[n]] + L * D
  OBVIOUS
<1> DEFINE x == drift * S
           y == drift * T
           w == L * D
           b == base[work[m]]
           a == base[work[n]]
<1>12. /\ x \in Int /\ y \in Int /\ w \in Nat /\ a \in Int /\ b \in Int
       /\ 2 * b - x <= 2 * a - y /\ x - y <= 2 * w /\ b > a + w
  BY <1>3, <1>4, <1>5, <1>6, <1>8, <1>9, <1>10, <1>11
<1> HIDE DEF x, y, w, a, b
<1> QED BY ONLY <1>12

(* The confirmation is not decided by drift, for any candidates, rates and rates of drift, if
   plans repeat an odd number of times: in an uninterrupted run a configuration that is faster
   by more than one pass drifts is never beaten (confirm, "so drift hits all alike"). *)
THEOREM FasterWinsAlways == OddReps => (Spec => []FasterWins)
<1> SUFFICES ASSUME OddReps PROVE Spec => []FasterWins
  OBVIOUS
<1>1. IInv /\ TypeInv /\ StraightInv => FasterWins
  BY StraightFaster
<1> QED BY <1>1, InitIInv, NextIInv, InitTypeInv, NextTypeInv, StraightInit, StraightNext, PTL
        DEF Spec

=============================================================================
