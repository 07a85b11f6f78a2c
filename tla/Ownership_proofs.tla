-------------------------- MODULE Ownership_proofs --------------------------
(***************************************************************************)
(* For any controllers, GPUs and directories: locks are neither leaked nor *)
(* shared whatever faults happen, and a runner that no fault took from its *)
(* controller works only under that controller's lock, one on each GPU.    *)
(***************************************************************************)
EXTENDS Ownership, TLAPS

\* Every place in the code agrees with the lock files.
LockInv ==
  /\ \A c \in Controllers : pc[c] \in HoldsDevice => deviceLock[GpuOf[c]] = c
  /\ \A c \in Controllers :
       pc[c] \in InSession /\ ~ShapesOnly(c) => dirLock[DirOf[c]] = c
  /\ NoLeakedLock

\* A runner that is not lost is the last one of a controller that waits for it.
RunnerInv ==
  \A r \in alive \ lost : /\ pc[r[1]] \in {"launched", "waiting", "stopping"}
                          /\ r = Current(r[1])

IInv == TypeOK /\ LockInv

LEMMA InitLocks == Init => IInv
  BY ConstantsAssumption
     DEF Init, IInv, TypeOK, LockInv, NoLeakedLock, HoldsDevice, InSession, Away

LEMMA TypeNext == TypeOK /\ [Next]_vars => TypeOK'
<1> SUFFICES ASSUME TypeOK, [Next]_vars
             PROVE  TypeOK'
  OBVIOUS
<1> USE ConstantsAssumption DEF TypeOK, HoldsDevice, InSession, Away
<1>1. ASSUME NEW c \in Controllers, LockDevice(c) \/ GiveDeviceBack(c) \/ CloseDevice(c)
      PROVE  TypeOK'
  BY <1>1 DEF LockDevice, GiveDeviceBack, CloseDevice
<1>2. ASSUME NEW c \in Controllers, LockResults(c) \/ CloseResults(c)
      PROVE  TypeOK'
  BY <1>2 DEF LockResults, CloseResults
<1>3. ASSUME NEW c \in Controllers, Launch(c)
      PROVE  TypeOK'
  <2>1. runs[c] + 1 \in 1..MaxRuns /\ runs'[c] = runs[c] + 1
    BY <1>3 DEF Launch
  <2>2. runs' \in [Controllers -> 0..MaxRuns]
    BY <1>3, <2>1 DEF Launch
  <2>3. alive' \subseteq Controllers \X (1..MaxRuns)
    BY <1>3, <2>1 DEF Launch
  <2>4. pc' \in [Controllers -> HoldsDevice \cup Away]
    BY <1>3 DEF Launch
  <2> QED
    BY <1>3, <2>2, <2>3, <2>4 DEF Launch
<1>4. ASSUME NEW c \in Controllers,
             \/ DeviceOccupied(c) \/ EnterTry(c) \/ CleanExit(c) \/ BeginStop(c)
             \/ StopConfirmed(c) \/ Leave(c) \/ Rerun(c)
      PROVE  TypeOK'
  BY <1>4 DEF DeviceOccupied, EnterTry, CleanExit, BeginStop, StopConfirmed, Leave, Rerun
<1>5. ASSUME NEW c \in Controllers, Fault(c)
      PROVE  TypeOK'
  <2>1. lost' \subseteq Controllers \X (1..MaxRuns)
    BY <1>5 DEF Fault, SignalInWindow, StopFails, Killed, Lose
  <2> QED
    BY <1>5, <2>1 DEF Fault, SignalInWindow, StopFails, Killed
<1>6. ASSUME NEW r, RunnerExits(r)
      PROVE  TypeOK'
  BY <1>6 DEF RunnerExits
<1>7. CASE UNCHANGED vars
  BY <1>7 DEF vars
<1> QED
  BY <1>1, <1>2, <1>3, <1>4, <1>5, <1>6, <1>7
     DEF Next, Controller, ResultsOccupied, InterruptedConstructor

LEMMA LockNext == IInv /\ [Next]_vars => LockInv'
<1> SUFFICES ASSUME TypeOK, LockInv, [Next]_vars
             PROVE  LockInv'
  BY DEF IInv
<1>0. /\ None \notin Controllers
      /\ \A c \in Controllers : GpuOf[c] \in Gpus /\ (~ShapesOnly(c) => DirOf[c] \in Dirs)
      /\ pc \in [Controllers -> HoldsDevice \cup Away]
      /\ deviceLock \in [Gpus -> Controllers \cup {None}]
      /\ dirLock \in [Dirs -> Controllers \cup {None}]
  BY ConstantsAssumption DEF TypeOK, Gpus, Dirs, ShapesOnly
<1>h. /\ InSession \subseteq HoldsDevice /\ "device_locked" \in HoldsDevice \ InSession
      /\ "half_closed" \in HoldsDevice \ InSession
      /\ Away \cap HoldsDevice = {}
  BY DEF HoldsDevice, InSession, Away
<1> USE DEF LockInv, NoLeakedLock
<1>1. ASSUME NEW c \in Controllers, LockDevice(c)
      PROVE  LockInv'
  <2>1. pc[c] \notin HoldsDevice /\ pc[c] \notin InSession
    BY <1>1 DEF LockDevice, HoldsDevice, InSession
  <2>2. pc'[c] \in HoldsDevice /\ (pc'[c] \in InSession => ShapesOnly(c))
    BY <1>0, <1>1 DEF LockDevice, HoldsDevice, InSession
  <2>3. \A b \in Controllers \ {c} : pc'[b] = pc[b]
    BY <1>0, <1>1 DEF LockDevice
  <2>4. deviceLock[GpuOf[c]] = None /\ deviceLock' = [deviceLock EXCEPT ![GpuOf[c]] = c]
        /\ dirLock' = dirLock
    BY <1>1 DEF LockDevice
  <2> QED
    BY <1>0, <2>1, <2>2, <2>3, <2>4
<1>2. ASSUME NEW c \in Controllers, LockResults(c)
      PROVE  LockInv'
  <2>1. pc[c] \in HoldsDevice /\ pc[c] \notin InSession
    BY <1>2 DEF LockResults, HoldsDevice, InSession
  <2>2. pc'[c] \in HoldsDevice /\ pc'[c] \in InSession
    BY <1>0, <1>2 DEF LockResults, HoldsDevice, InSession
  <2>3. \A b \in Controllers \ {c} : pc'[b] = pc[b]
    BY <1>0, <1>2 DEF LockResults
  <2>4. dirLock[DirOf[c]] = None /\ dirLock' = [dirLock EXCEPT ![DirOf[c]] = c]
        /\ deviceLock' = deviceLock
    BY <1>2 DEF LockResults
  <2> QED
    BY <1>0, <2>1, <2>2, <2>3, <2>4
<1>3. ASSUME NEW c \in Controllers,
             ResultsOccupied(c) \/ InterruptedConstructor(c) \/ CloseDevice(c)
      PROVE  LockInv'
  <2>1. pc[c] \in HoldsDevice \ InSession
    BY <1>3 DEF ResultsOccupied, InterruptedConstructor, CloseDevice, HoldsDevice, InSession
  <2>2. pc'[c] \notin HoldsDevice /\ pc'[c] \notin InSession
    BY <1>0, <1>3, <1>h DEF ResultsOccupied, InterruptedConstructor, CloseDevice,
       GiveDeviceBack, HoldsDevice, InSession
  <2>3. \A b \in Controllers \ {c} : pc'[b] = pc[b]
    BY <1>0, <1>3 DEF ResultsOccupied, InterruptedConstructor, CloseDevice, GiveDeviceBack
  <2>4. deviceLock' = [deviceLock EXCEPT ![GpuOf[c]] = None] /\ dirLock' = dirLock
    BY <1>3 DEF ResultsOccupied, InterruptedConstructor, CloseDevice, GiveDeviceBack
  <2>5. deviceLock[GpuOf[c]] = c
    BY <2>1
  <2> QED
    BY <1>0, <2>1, <2>2, <2>3, <2>4, <2>5
<1>4. ASSUME NEW c \in Controllers, CloseResults(c)
      PROVE  LockInv'
  <2>1. pc[c] \in HoldsDevice /\ pc[c] \in InSession
    BY <1>4 DEF CloseResults, HoldsDevice, InSession
  <2>2. pc'[c] \in HoldsDevice /\ pc'[c] \notin InSession
    BY <1>0, <1>4 DEF CloseResults, HoldsDevice, InSession
  <2>3. \A b \in Controllers \ {c} : pc'[b] = pc[b]
    BY <1>0, <1>4 DEF CloseResults
  <2>4. deviceLock' = deviceLock
    BY <1>4 DEF CloseResults
  <2>5. CASE ShapesOnly(c)
    <3>1. \A d \in Dirs : dirLock[d] # c
      BY <2>5, <1>0 DEF ShapesOnly, Dirs
    <3>2. dirLock' = dirLock
      BY <1>4, <2>5 DEF CloseResults
    <3> QED
      BY <1>0, <2>1, <2>2, <2>3, <2>4, <3>1, <3>2
  <2>6. CASE ~ShapesOnly(c)
    <3>1. dirLock' = [dirLock EXCEPT ![DirOf[c]] = None] /\ dirLock[DirOf[c]] = c
      BY <1>4, <2>1, <2>6 DEF CloseResults
    <3> QED
      BY <1>0, <2>1, <2>2, <2>3, <2>4, <2>6, <3>1
  <2> QED
    BY <2>5, <2>6
<1>5. ASSUME NEW c \in Controllers,
             \/ Launch(c) \/ EnterTry(c) \/ CleanExit(c) \/ BeginStop(c) \/ StopConfirmed(c)
             \/ Leave(c) \/ SignalInWindow(c) \/ StopFails(c)
      PROVE  LockInv'
  <2>1. pc[c] \in InSession /\ pc'[c] \in InSession
    BY <1>0, <1>5 DEF Launch, EnterTry, CleanExit, BeginStop, StopConfirmed, Leave,
       SignalInWindow, StopFails, InSession
  <2>2. \A b \in Controllers \ {c} : pc'[b] = pc[b]
    BY <1>0, <1>5 DEF Launch, EnterTry, CleanExit, BeginStop, StopConfirmed, Leave,
       SignalInWindow, StopFails
  <2>3. deviceLock' = deviceLock /\ dirLock' = dirLock
    BY <1>5 DEF Launch, EnterTry, CleanExit, BeginStop, StopConfirmed, Leave,
       SignalInWindow, StopFails
  <2> QED
    BY <1>0, <1>h, <2>1, <2>2, <2>3
<1>6. ASSUME NEW c \in Controllers, DeviceOccupied(c) \/ Rerun(c)
      PROVE  LockInv'
  <2>1. pc[c] \notin HoldsDevice /\ pc'[c] \notin HoldsDevice
    BY <1>0, <1>6 DEF DeviceOccupied, Rerun, Away, HoldsDevice, InSession
  <2>2. \A b \in Controllers \ {c} : pc'[b] = pc[b]
    BY <1>0, <1>6 DEF DeviceOccupied, Rerun
  <2>3. deviceLock' = deviceLock /\ dirLock' = dirLock
    BY <1>6 DEF DeviceOccupied, Rerun
  <2> QED
    BY <1>0, <1>h, <2>1, <2>2, <2>3
<1>7. ASSUME NEW c \in Controllers, Killed(c)
      PROVE  LockInv'
  <2>1. pc'[c] \notin HoldsDevice /\ pc'[c] \notin InSession
    BY <1>0, <1>7 DEF Killed, HoldsDevice, InSession
  <2>2. \A b \in Controllers \ {c} : pc'[b] = pc[b]
    BY <1>0, <1>7 DEF Killed
  <2>3. /\ \A g \in Gpus : deviceLock'[g] = IF deviceLock[g] = c THEN None ELSE deviceLock[g]
        /\ \A d \in Dirs : dirLock'[d] = IF dirLock[d] = c THEN None ELSE dirLock[d]
    BY <1>7 DEF Killed
  <2> QED
    BY <1>0, <2>1, <2>2, <2>3
<1>8. CASE UNCHANGED <<pc, deviceLock, dirLock>>
  BY <1>8
<1> QED
  BY <1>1, <1>2, <1>3, <1>4, <1>5, <1>6, <1>7, <1>8
     DEF vars, Next, Controller, Fault, RunnerExits

LEMMA Inductive == Spec => []IInv
<1>1. IInv /\ [Next]_vars => IInv'
  BY TypeNext, LockNext DEF IInv
<1> QED
  BY <1>1, InitLocks, PTL DEF Spec

\* The state keeps its types.
THEOREM TypeCorrect == Spec => []TypeOK
<1>1. IInv => TypeOK
  BY DEF IInv
<1> QED
  BY <1>1, Inductive, PTL

\* Whatever faults happen, a lock is held only by a controller that is inside.
THEOREM LocksAreReturned == Spec => []NoLeakedLock
<1>1. IInv => NoLeakedLock
  BY DEF IInv, LockInv
<1> QED
  BY <1>1, Inductive, PTL

\* Whatever faults happen, two sessions share neither a GPU nor a directory.
THEOREM SessionsExclude == Spec => []ExclusiveSessions
<1>1. IInv => ExclusiveSessions
  <2> SUFFICES ASSUME IInv, NEW a \in Controllers, NEW b \in Controllers, a # b,
                      pc[a] \in InSession, pc[b] \in InSession
               PROVE  GpuOf[a] # GpuOf[b] /\ (DirOf[a] # DirOf[b] \/ ShapesOnly(a))
    BY DEF ExclusiveSessions
  <2>1. deviceLock[GpuOf[a]] = a /\ deviceLock[GpuOf[b]] = b
    BY DEF IInv, LockInv, HoldsDevice
  <2>2. ASSUME DirOf[a] = DirOf[b], ~ShapesOnly(a)
        PROVE  FALSE
    BY <2>2 DEF IInv, LockInv, ShapesOnly
  <2> QED
    BY <2>1, <2>2
<1> QED
  BY <1>1, Inductive, PTL

\* Timeouts and interrupts leave no runner behind, and a fault counts its own as lost.
LEMMA RunnersNext ==
  IInv /\ RunnerInv /\ [Next]_vars => RunnerInv'
<1> SUFFICES ASSUME IInv, RunnerInv, [Next]_vars
             PROVE  RunnerInv'
  OBVIOUS
<1>0. /\ alive \subseteq Controllers \X (1..MaxRuns)
      /\ pc \in [Controllers -> HoldsDevice \cup Away]
      /\ runs \in [Controllers -> 0..MaxRuns]
      /\ \A r \in alive : r[1] \in Controllers
  BY DEF IInv, TypeOK
<1> USE DEF RunnerInv, Current
<1>1. ASSUME NEW c \in Controllers, Launch(c)
      PROVE  RunnerInv'
  <2>1. \A r \in alive \ lost : r[1] # c
    BY <1>1 DEF Launch
  <2>2. runs'[c] = runs[c] + 1 /\ pc'[c] = "launched"
        /\ \A b \in Controllers \ {c} : pc'[b] = pc[b] /\ runs'[b] = runs[b]
    BY <1>0, <1>1 DEF Launch
  <2>3. alive' = alive \cup {<<c, runs'[c]>>} /\ lost' = lost
    BY <1>1 DEF Launch
  <2> QED
    BY <1>0, <2>1, <2>2, <2>3
<1>2. ASSUME NEW c \in Controllers, CleanExit(c) \/ StopConfirmed(c)
      PROVE  RunnerInv'
  <2>1. \A r \in alive' \ lost' : r \in alive \ lost /\ r[1] # c
    BY <1>0, <1>2 DEF CleanExit, StopConfirmed
  <2>2. runs' = runs /\ \A b \in Controllers \ {c} : pc'[b] = pc[b]
    BY <1>0, <1>2 DEF CleanExit, StopConfirmed
  <2> QED
    BY <1>0, <2>1, <2>2
<1>3. ASSUME NEW c \in Controllers, EnterTry(c) \/ BeginStop(c)
      PROVE  RunnerInv'
  <2>1. runs' = runs /\ alive' = alive /\ lost' = lost /\ pc'[c] \in {"waiting", "stopping"}
        /\ \A b \in Controllers \ {c} : pc'[b] = pc[b]
    BY <1>0, <1>3 DEF EnterTry, BeginStop
  <2> QED
    BY <1>0, <2>1
<1>4. ASSUME NEW c \in Controllers,
             pc[c] \notin {"launched", "waiting", "stopping"},
             \A b \in Controllers \ {c} : pc'[b] = pc[b],
             runs' = runs, alive' = alive, lost' = lost
      PROVE  RunnerInv'
  BY <1>0, <1>4
<1>5. ASSUME NEW r, RunnerExits(r)
      PROVE  RunnerInv'
  BY <1>5 DEF RunnerExits
<1>6. CASE UNCHANGED vars
  BY <1>6 DEF vars
<1>7. ASSUME NEW c \in Controllers,
             \/ LockDevice(c) \/ DeviceOccupied(c) \/ LockResults(c) \/ ResultsOccupied(c)
             \/ InterruptedConstructor(c) \/ Leave(c) \/ CloseResults(c) \/ CloseDevice(c)
             \/ Rerun(c)
      PROVE  /\ pc[c] \notin {"launched", "waiting", "stopping"}
             /\ \A b \in Controllers \ {c} : pc'[b] = pc[b]
             /\ runs' = runs /\ alive' = alive /\ lost' = lost
  BY <1>0, <1>7 DEF LockDevice, DeviceOccupied, LockResults, ResultsOccupied,
     InterruptedConstructor, GiveDeviceBack, Leave, CloseResults, CloseDevice, Rerun, Away
<1>8. ASSUME NEW c \in Controllers, Fault(c)
      PROVE  RunnerInv'
  <2>1. /\ alive' = alive /\ runs' = runs /\ lost' = lost \cup ({<<c, runs[c]>>} \cap alive)
        /\ \A b \in Controllers \ {c} : pc'[b] = pc[b]
    BY <1>0, <1>8 DEF Fault, SignalInWindow, StopFails, Killed, Lose
  <2>2. \A r \in alive' \ lost' : r \in alive \ lost /\ r[1] # c
    BY <1>0, <2>1
  <2> QED
    BY <1>0, <2>1, <2>2
<1> QED
  BY <1>1, <1>2, <1>3, <1>4, <1>5, <1>6, <1>7, <1>8 DEF Next, Controller

LEMMA RunnersWait == Spec => [](IInv /\ RunnerInv)
<1>1. Init => RunnerInv
  BY DEF Init, RunnerInv
<1>2. IInv /\ RunnerInv /\ [Next]_vars => RunnerInv'
  BY RunnersNext
<1> QED
  BY <1>1, <1>2, Inductive, PTL DEF Spec

\* Every working runner's controller owns its GPU, which has no other, those runners aside
\* that a fault took.
THEOREM RunnersAreOwned == Spec => []KeptRunnersAreOwned
<1>1. IInv /\ RunnerInv => KeptRunnersAreOwned
  <2> SUFFICES ASSUME IInv, RunnerInv, NEW r \in alive \ lost
               PROVE  /\ deviceLock[GpuOf[r[1]]] = r[1]
                      /\ \A s \in alive \ lost : GpuOf[s[1]] = GpuOf[r[1]] => s = r
    BY DEF KeptRunnersAreOwned
  <2>1. \A s \in alive \ lost : deviceLock[GpuOf[s[1]]] = s[1]
    BY DEF IInv, TypeOK, LockInv, RunnerInv, HoldsDevice, InSession
  <2>2. ASSUME NEW s \in alive \ lost, GpuOf[s[1]] = GpuOf[r[1]] PROVE s = r
    <3>1. s[1] = r[1]
      BY <2>1, <2>2
    <3> QED BY <3>1 DEF RunnerInv
  <2> QED BY <2>1, <2>2
<1> QED
  BY <1>1, RunnersWait, PTL
=============================================================================
