------------------------------ MODULE Ownership ------------------------------
(***************************************************************************)
(* Controllers, their locks and their runners.                             *)
(*                                                                         *)
(* A controller (igpu-roofline run / sustain, or shapes) takes the lock of *)
(* its GPU and, unless it only probes shapes, the lock of its results      *)
(* directory, then runs one runner process at a time (locking.py,          *)
(* session.py, shapes.py, device.py:65-74).  Locks are flock(2) locks:     *)
(* they are tried without waiting, and the kernel drops them when their    *)
(* owner dies.  Runners are sessions of their own and outlive a controller *)
(* that does not stop them.  stop() is the Confirm step of Invocation.     *)
(***************************************************************************)
EXTENDS Naturals

CONSTANTS
  Controllers,   \* controller processes
  GpuOf,         \* GpuOf[c]: identity of the GPU c measures
  DirOf,         \* DirOf[c]: results directory of c, or None for shapes
  None,
  MaxRuns,       \* bound: runner processes each controller launches in total
  Faults         \* which of AllFaults the environment may inject

\* "window": a signal between Popen returning and the try block that stops it;
\* "stop": a signal or a transport failure while stop() is under way;
\* "kill": the controller is killed.
AllFaults == {"window", "stop", "kill"}

ASSUME ConstantsAssumption ==
  /\ None \notin Controllers
  /\ DOMAIN GpuOf = Controllers
  /\ DOMAIN DirOf = Controllers
  /\ MaxRuns \in Nat
  /\ Faults \subseteq AllFaults

Gpus == {GpuOf[c] : c \in Controllers}
Dirs == {DirOf[c] : c \in Controllers} \ {None}

VARIABLES
  pc,           \* where each controller is
  deviceLock,   \* owner of the lock file of each GPU
  dirLock,      \* owner of the owner.lock of each results directory
  runs,         \* runners each controller has launched; the last is its own
  alive,        \* runner processes that exist: pairs <<controller, number>>
  lost          \* those that a fault took from their controller

vars == <<pc, deviceLock, dirLock, runs, alive, lost>>

\* The runner the controller launched last.
Current(c) == <<c, runs[c]>>

ShapesOnly(c) == DirOf[c] = None

\* Where a controller holds the device lock, and both locks.
InSession == {"ready", "launched", "waiting", "stopping", "closing"}
HoldsDevice == InSession \cup {"device_locked", "half_closed"}
Away == {"idle", "rejected", "closed", "killed"}

Init ==
  /\ pc = [c \in Controllers |-> "idle"]
  /\ deviceLock = [g \in Gpus |-> None]
  /\ dirLock = [d \in Dirs |-> None]
  /\ runs = [c \in Controllers |-> 0]
  /\ alive = {} /\ lost = {}

-----------------------------------------------------------------------------
(* Taking the locks: DeviceLock.__init__ and Session.__init__. *)

LockDevice(c) ==
  /\ pc[c] = "idle"
  /\ deviceLock[GpuOf[c]] = None
  /\ deviceLock' = [deviceLock EXCEPT ![GpuOf[c]] = c]
  /\ pc' = [pc EXCEPT ![c] = IF ShapesOnly(c) THEN "ready" ELSE "device_locked"]
  /\ UNCHANGED <<dirLock, runs, alive, lost>>

DeviceOccupied(c) ==
  /\ pc[c] = "idle"
  /\ deviceLock[GpuOf[c]] # None
  /\ pc' = [pc EXCEPT ![c] = "rejected"]
  /\ UNCHANGED <<deviceLock, dirLock, runs, alive, lost>>

\* Mutant of LockResults: the directory is taken whoever holds it.
TakeResults(c) ==
  /\ pc[c] = "device_locked"
  /\ dirLock' = [dirLock EXCEPT ![DirOf[c]] = c]
  /\ pc' = [pc EXCEPT ![c] = "ready"]
  /\ UNCHANGED <<deviceLock, runs, alive, lost>>

LockResults(c) ==
  /\ pc[c] = "device_locked"
  /\ dirLock[DirOf[c]] = None
  /\ dirLock' = [dirLock EXCEPT ![DirOf[c]] = c]
  /\ pc' = [pc EXCEPT ![c] = "ready"]
  /\ UNCHANGED <<deviceLock, runs, alive, lost>>

\* Mutant of GiveDeviceBack: the constructor raises without closing the device lock.
KeepDevice(c) ==
  /\ pc' = [pc EXCEPT ![c] = "rejected"]
  /\ UNCHANGED <<deviceLock, dirLock, runs, alive, lost>>

\* except BaseException: self._device_lock.close(); raise
GiveDeviceBack(c) ==
  /\ deviceLock' = [deviceLock EXCEPT ![GpuOf[c]] = None]
  /\ pc' = [pc EXCEPT ![c] = "rejected"]
  /\ UNCHANGED <<dirLock, runs, alive, lost>>

ResultsOccupied(c) ==
  /\ pc[c] = "device_locked"
  /\ dirLock[DirOf[c]] # None
  /\ GiveDeviceBack(c)

InterruptedConstructor(c) == pc[c] = "device_locked" /\ GiveDeviceBack(c)

-----------------------------------------------------------------------------
(* One runner: Session._run and run_owned. *)

Launch(c) ==
  /\ pc[c] = "ready"
  /\ runs[c] < MaxRuns
  /\ runs' = [runs EXCEPT ![c] = @ + 1]
  /\ alive' = alive \cup {<<c, runs'[c]>>}
  /\ pc' = [pc EXCEPT ![c] = "launched"]
  /\ UNCHANGED <<deviceLock, dirLock, lost>>

\* limit = ...; try:
EnterTry(c) ==
  /\ pc[c] = "launched"
  /\ pc' = [pc EXCEPT ![c] = "waiting"]
  /\ UNCHANGED <<deviceLock, dirLock, runs, alive, lost>>

RunnerExits(r) ==
  /\ r \in alive
  /\ alive' = alive \ {r} /\ lost' = lost \ {r}
  /\ UNCHANGED <<pc, deviceLock, dirLock, runs>>

\* proc.poll() is not None and returncode == 0
CleanExit(c) ==
  /\ pc[c] = "waiting"
  /\ Current(c) \notin alive
  /\ pc' = [pc EXCEPT ![c] = "ready"]
  /\ UNCHANGED <<deviceLock, dirLock, runs, alive, lost>>

\* Mutant of BeginStop: no finally clause.
GiveUpWaiting(c) ==
  /\ pc[c] = "waiting"
  /\ pc' = [pc EXCEPT ![c] = "closing"]
  /\ UNCHANGED <<deviceLock, dirLock, runs, alive, lost>>

\* A timeout, a signal or a non-zero rc reaches the finally clause.
BeginStop(c) ==
  /\ pc[c] = "waiting"
  /\ pc' = [pc EXCEPT ![c] = "stopping"]
  /\ UNCHANGED <<deviceLock, dirLock, runs, alive, lost>>

\* Mutant of StopConfirmed: the controller goes back to polling.
StopAndPoll(c) ==
  /\ pc[c] = "stopping"
  /\ alive' = alive \ {Current(c)}
  /\ pc' = [pc EXCEPT ![c] = "waiting"]
  /\ UNCHANGED <<deviceLock, dirLock, runs, lost>>

\* stop() returns: the row is recorded (rc # 0) or the exception goes on.
StopConfirmed(c) ==
  /\ pc[c] = "stopping"
  /\ alive' = alive \ {Current(c)}
  /\ \E next \in {"ready", "closing"} : pc' = [pc EXCEPT ![c] = next]
  /\ UNCHANGED <<deviceLock, dirLock, runs, lost>>

-----------------------------------------------------------------------------
(* Leaving: Session.close drops the results lock, then the device lock. *)

\* The plan is finished, or an exception leaves it, with no runner of its own.
Leave(c) ==
  /\ pc[c] = "ready"
  /\ pc' = [pc EXCEPT ![c] = "closing"]
  /\ UNCHANGED <<deviceLock, dirLock, runs, alive, lost>>

CloseResults(c) ==
  /\ pc[c] = "closing"
  /\ dirLock' = IF ShapesOnly(c) THEN dirLock
                ELSE [dirLock EXCEPT ![DirOf[c]] = None]
  /\ pc' = [pc EXCEPT ![c] = "half_closed"]
  /\ UNCHANGED <<deviceLock, runs, alive, lost>>

CloseDevice(c) ==
  /\ pc[c] = "half_closed"
  /\ deviceLock' = [deviceLock EXCEPT ![GpuOf[c]] = None]
  /\ pc' = [pc EXCEPT ![c] = "closed"]
  /\ UNCHANGED <<dirLock, runs, alive, lost>>

\* The user runs the command again.
Rerun(c) ==
  /\ pc[c] \in Away \ {"idle"}
  /\ pc' = [pc EXCEPT ![c] = "idle"]
  /\ UNCHANGED <<deviceLock, dirLock, runs, alive, lost>>

-----------------------------------------------------------------------------
(* Faults. *)

\* The controller goes away without its runner, if it has one.
Lose(c) == lost' = lost \cup ({Current(c)} \cap alive)

SignalInWindow(c) ==
  /\ "window" \in Faults
  /\ pc[c] = "launched"
  /\ pc' = [pc EXCEPT ![c] = "closing"] /\ Lose(c)
  /\ UNCHANGED <<deviceLock, dirLock, runs, alive>>

StopFails(c) ==
  /\ "stop" \in Faults
  /\ pc[c] = "stopping"
  /\ pc' = [pc EXCEPT ![c] = "closing"] /\ Lose(c)
  /\ UNCHANGED <<deviceLock, dirLock, runs, alive>>

\* The kernel closes the lock files of a dead process; its runner lives on.
Killed(c) ==
  /\ "kill" \in Faults
  /\ pc[c] \notin Away
  /\ deviceLock' = [g \in Gpus |-> IF deviceLock[g] = c THEN None ELSE deviceLock[g]]
  /\ dirLock' = [d \in Dirs |-> IF dirLock[d] = c THEN None ELSE dirLock[d]]
  /\ pc' = [pc EXCEPT ![c] = "killed"] /\ Lose(c)
  /\ UNCHANGED <<runs, alive>>

Controller(c) ==
  \/ LockDevice(c) \/ DeviceOccupied(c)
  \/ LockResults(c) \/ ResultsOccupied(c) \/ InterruptedConstructor(c)
  \/ Launch(c) \/ EnterTry(c) \/ CleanExit(c) \/ BeginStop(c) \/ StopConfirmed(c)
  \/ Leave(c) \/ CloseResults(c) \/ CloseDevice(c) \/ Rerun(c)

Fault(c) == SignalInWindow(c) \/ StopFails(c) \/ Killed(c)

Next ==
  \/ \E c \in Controllers : Controller(c) \/ Fault(c)
  \/ \E c \in Controllers, n \in 1..MaxRuns : RunnerExits(<<c, n>>)

\* A runner has a time limit, stop() has one too, and close() does not wait.
Fairness ==
  \A c \in Controllers :
    /\ WF_vars(EnterTry(c) \/ CleanExit(c) \/ BeginStop(c) \/ StopConfirmed(c))
    /\ WF_vars(CloseResults(c) \/ CloseDevice(c))

Spec == Init /\ [][Next]_vars /\ Fairness

-----------------------------------------------------------------------------

TypeOK ==
  /\ pc \in [Controllers -> HoldsDevice \cup Away]
  /\ deviceLock \in [Gpus -> Controllers \cup {None}]
  /\ dirLock \in [Dirs -> Controllers \cup {None}]
  /\ runs \in [Controllers -> 0..MaxRuns]
  /\ alive \cup lost \subseteq Controllers \X (1..MaxRuns)

\* A lock is held exactly by a controller that is inside: no path of an
\* occupied directory, a failed constructor or a close leaks one (session.py:46-76).
NoLeakedLock ==
  /\ \A g \in Gpus : deviceLock[g] # None =>
       pc[deviceLock[g]] \in HoldsDevice /\ GpuOf[deviceLock[g]] = g
  /\ \A d \in Dirs : dirLock[d] # None =>
       pc[dirLock[d]] \in InSession /\ DirOf[dirLock[d]] = d

\* Two controllers that are past their locks share neither the GPU nor the
\* results directory, whatever faults happen (HOW-TO-RUN.md "owner.lock also
\* prevents two GPUs from writing the same directory").
ExclusiveSessions ==
  \A a, b \in Controllers :
    a # b /\ pc[a] \in InSession /\ pc[b] \in InSession =>
      /\ GpuOf[a] # GpuOf[b]
      /\ DirOf[a] # DirOf[b] \/ ShapesOnly(a)

\* While a runner works, its controller owns the GPU and no other runner works on it, unless
\* a fault took the runner from its controller (HOW-TO-RUN.md "waiting for termination before
\* releasing ownership"): timeouts, interrupts and failures anywhere else leave none behind.
KeptRunnersAreOwned ==
  \A r \in alive \ lost :
    /\ deviceLock[GpuOf[r[1]]] = r[1]
    /\ \A s \in alive \ lost : GpuOf[s[1]] = GpuOf[r[1]] => s = r

\* A signal or timeout that reaches a waiting controller never leaves the GPU
\* locked for good unless the controller goes on measuring.
StopLeadsOn == \A c \in Controllers :
  pc[c] = "stopping" ~> pc[c] \in {"ready"} \cup Away
=============================================================================
