------------------------------- MODULE AdbStop -------------------------------
(***************************************************************************)
(* One runner invocation on an ADB device (igpu_roofline/device.py).       *)
(*                                                                         *)
(* AdbDevice.popen sends a shell script to the device.  The script         *)
(* publishes "pid starttime" in a pid file (written to a .tmp file, moved  *)
(* into place), looks for a .cancel file and, if there is none, execs the  *)
(* runner, which keeps the script's pid and start time.  AdbDevice.stop    *)
(* sends a second script that creates the .cancel file, looks for the pid  *)
(* file and kills the process it names if the start time still matches.    *)
(* The two scripts run on the device in any interleaving, the first may    *)
(* start arbitrarily late, the connection may fail at any time, and the    *)
(* device recycles process ids.                                            *)
(***************************************************************************)
EXTENDS Naturals

CONSTANTS
  Pids,       \* process ids of the device
  None,       \* no process id
  MaxStops    \* calls of stop(): _run makes at most 2 (timeout, then finally)

ASSUME ConstantsAssumption ==
  /\ Pids # {}
  /\ None \notin Pids
  /\ MaxStops \in Nat \ {0}

Stops == 1..MaxStops

VARIABLES
  launch,     \* the launch script, from sent to gone
  pid,        \* its process id once started
  table,      \* process table: what each id stands for now
  doomed,     \* SIGKILL is pending for the owned process
  pidfile,    \* the pid file is in place (its contents are always complete)
  cancel,     \* the .cancel file exists
  script,     \* each stop script on the device
  victim,     \* the pid it read from the pid file
  client,     \* the local adb process: "up", "ok" (rc 0), "failed"
  caller,     \* the controller in _run / run_owned
  calls,      \* calls of stop() made
  confirmed,  \* the controller was told that the invocation ended
  innocent    \* a process that is not ours received a signal

vars == <<launch, pid, table, doomed, pidfile, cancel, script, victim,
          client, caller, calls, confirmed, innocent>>
launchVars == <<launch, pid, table, doomed, pidfile>>
scriptVars == <<cancel, script, victim, innocent>>
controlVars == <<client, caller, calls, confirmed>>

\* The launch script has a process and has not ended.
Alive == launch \in {"started", "published", "checked", "running"}

Init ==
  /\ launch = "sent"
  /\ pid = None
  /\ table \in [Pids -> {"free", "other"}]
  /\ doomed = FALSE
  /\ pidfile = FALSE
  /\ cancel = FALSE
  /\ script = [i \in Stops |-> "none"]
  /\ victim = [i \in Stops |-> None]
  /\ client = "up"
  /\ caller = "waiting"
  /\ calls = 0
  /\ confirmed = FALSE
  /\ innocent = FALSE

-----------------------------------------------------------------------------
(* The launch script on the device. *)

Start(p) ==
  /\ launch = "sent"
  /\ table[p] = "free"
  /\ launch' = "started"
  /\ pid' = p
  /\ table' = [table EXCEPT ![p] = "owned"]
  /\ UNCHANGED <<doomed, pidfile, scriptVars, controlVars>>

\* echo > .tmp && mv: the complete record appears in one step.
Publish ==
  /\ launch = "started"
  /\ launch' = "published"
  /\ pidfile' = TRUE
  /\ UNCHANGED <<pid, table, doomed, scriptVars, controlVars>>

\* if [ ! -e .cancel ]
CheckCancel ==
  /\ launch = "published"
  /\ ~cancel
  /\ launch' = "checked"
  /\ UNCHANGED <<pid, table, doomed, pidfile, scriptVars, controlVars>>

Exec ==
  /\ launch = "checked"
  /\ launch' = "running"
  /\ UNCHANGED <<pid, table, doomed, pidfile, scriptVars, controlVars>>

\* The process leaves a zombie until its parent reaps it.
Gone ==
  /\ launch' = "gone"
  /\ table' = [table EXCEPT ![pid] = "zombie"]
  /\ UNCHANGED <<pid, doomed, pidfile, scriptVars, controlVars>>

\* The script finds .cancel and ends without executing the runner.
GiveUp == launch = "published" /\ cancel /\ Gone

\* The runner exits, or the script or the runner fails.
Exit == Alive /\ ~doomed /\ Gone

\* A pending SIGKILL takes effect; a GPU driver may delay it.
Die == Alive /\ doomed /\ Gone

-----------------------------------------------------------------------------
(* A stop script on the device. *)

Touch(i) ==
  /\ script[i] = "sent"
  /\ cancel' = TRUE
  /\ script' = [script EXCEPT ![i] = "touched"]
  /\ UNCHANGED <<victim, innocent, launchVars, controlVars>>

ReadRecord(i) ==
  /\ script[i] = "touched"
  /\ \/ /\ pidfile
        /\ script' = [script EXCEPT ![i] = "read"]
        /\ victim' = [victim EXCEPT ![i] = pid]
     \/ /\ ~pidfile
        /\ script' = [script EXCEPT ![i] = "finished"]
        /\ UNCHANGED victim
  /\ UNCHANGED <<cancel, innocent, launchVars, controlVars>>

\* Mutant of SameStart: any process with that id will do.
SamePid(i) == table[victim[i]] # "free"

\* A zombie keeps its start time; a recycled id has another one.
SameStart(i) == table[victim[i]] \in {"owned", "zombie"}

CompareStart(i) ==
  /\ script[i] = "read"
  /\ script' = [script EXCEPT ![i] = IF SameStart(i) THEN "matched" ELSE "finished"]
  /\ UNCHANGED <<cancel, victim, innocent, launchVars, controlVars>>

Kill(i) ==
  /\ script[i] = "matched"
  /\ script' = [script EXCEPT ![i] = "killed"]
  /\ doomed' = (doomed \/ table[victim[i]] = "owned")
  /\ innocent' = (innocent \/ table[victim[i]] = "other")
  /\ UNCHANGED <<cancel, victim, launch, pid, table, pidfile, controlVars>>

\* Mutant of WaitGone: wait for the /proc entry to disappear, zombie or not.
WaitReaped(i) ==
  /\ script[i] = "killed"
  /\ table[victim[i]] = "free"
  /\ script' = [script EXCEPT ![i] = "finished"]
  /\ UNCHANGED <<cancel, victim, innocent, launchVars, controlVars>>

\* Mutant of WaitGone: kill -9 is taken to be immediate.
WaitNot(i) ==
  /\ script[i] = "killed"
  /\ script' = [script EXCEPT ![i] = "finished"]
  /\ UNCHANGED <<cancel, victim, innocent, launchVars, controlVars>>

\* while [ -d /proc/$p ]: leave when the process is gone, replaced or a zombie.
WaitGone(i) ==
  /\ script[i] = "killed"
  /\ table[victim[i]] # "owned"
  /\ script' = [script EXCEPT ![i] = "finished"]
  /\ UNCHANGED <<cancel, victim, innocent, launchVars, controlVars>>

-----------------------------------------------------------------------------
(* The controller and its adb client process. *)

\* adb shell relays the exit status of the launch script.
ClientReports ==
  /\ client = "up"
  /\ launch = "gone"
  /\ client' \in IF doomed THEN {"failed"} ELSE {"ok", "failed"}
  /\ UNCHANGED <<launchVars, scriptVars, caller, calls, confirmed>>

\* The connection drops, or a terminal Ctrl-C ends the adb client.
ClientLost ==
  /\ client = "up"
  /\ client' = "failed"
  /\ UNCHANGED <<launchVars, scriptVars, caller, calls, confirmed>>

\* rc 0: the finally clause has nothing to stop.
CleanReturn ==
  /\ caller = "waiting"
  /\ client = "ok"
  /\ caller' = "returned"
  /\ confirmed' = TRUE
  /\ UNCHANGED <<launchVars, scriptVars, client, calls>>

\* A timeout, an interrupt or a non-zero rc; the finally clause may repeat it.
BeginStop ==
  /\ caller \in {"waiting", "returned", "raised"}
  /\ client # "ok"
  /\ calls < MaxStops
  /\ calls' = calls + 1
  /\ caller' = "stopping"
  /\ script' = [script EXCEPT ![calls'] = "sent"]
  /\ UNCHANGED <<launchVars, cancel, victim, innocent, client, confirmed>>

\* The stop script returned 0; proc.kill() and proc.wait() end the adb client.
StopReturns ==
  /\ caller = "stopping"
  /\ script[calls] = "finished"
  /\ caller' = "returned"
  /\ client' = IF client = "up" THEN "failed" ELSE client
  /\ confirmed' = TRUE
  /\ UNCHANGED <<launchVars, scriptVars, calls>>

\* The 30 s limit, a failed connection or an interrupt; the script may go on.
StopRaises ==
  /\ caller = "stopping"
  /\ caller' = "raised"
  /\ UNCHANGED <<launchVars, scriptVars, client, calls, confirmed>>

-----------------------------------------------------------------------------
(* The process table of the device. *)

Reap(p) ==
  /\ table[p] = "zombie"
  /\ table' = [table EXCEPT ![p] = "free"]
  /\ UNCHANGED <<launch, pid, doomed, pidfile, scriptVars, controlVars>>

\* A free id goes to another process, but not between the adjacent comparison
\* and kill commands of a stop script: ids are handed out in sequence.
Recycle(p) ==
  /\ table[p] = "free"
  /\ \A i \in Stops : ~(script[i] = "matched" /\ victim[i] = p)
  /\ table' = [table EXCEPT ![p] = "other"]
  /\ UNCHANGED <<launch, pid, doomed, pidfile, scriptVars, controlVars>>

OtherExits(p) ==
  /\ table[p] = "other"
  /\ table' = [table EXCEPT ![p] = "free"]
  /\ UNCHANGED <<launch, pid, doomed, pidfile, scriptVars, controlVars>>

-----------------------------------------------------------------------------

LaunchStep == Publish \/ CheckCancel \/ Exec \/ GiveUp \/ Exit \/ Die
StopScriptStep(i) ==
  Touch(i) \/ ReadRecord(i) \/ CompareStart(i) \/ Kill(i) \/ WaitGone(i)
ControllerStep ==
  \/ ClientReports \/ ClientLost \/ CleanReturn
  \/ BeginStop \/ StopReturns \/ StopRaises

Next ==
  \/ \E p \in Pids : Start(p) \/ Reap(p) \/ Recycle(p) \/ OtherExits(p)
  \/ LaunchStep
  \/ \E i \in Stops : StopScriptStep(i)
  \/ ControllerStep

\* A delivered stop script runs on, and a SIGKILL eventually takes effect.
Fairness ==
  /\ WF_vars(Die)
  /\ \A i \in Stops : WF_vars(StopScriptStep(i) /\ script[i] # "sent")

Spec == Init /\ [][Next]_vars /\ Fairness

-----------------------------------------------------------------------------

TypeOK ==
  /\ launch \in {"sent", "started", "published", "checked", "running", "gone"}
  /\ pid \in Pids \cup {None}
  /\ table \in [Pids -> {"free", "other", "owned", "zombie"}]
  /\ doomed \in BOOLEAN
  /\ pidfile \in BOOLEAN
  /\ cancel \in BOOLEAN
  /\ script \in [Stops -> {"none", "sent", "touched", "read", "matched",
                            "killed", "finished"}]
  /\ victim \in [Stops -> Pids \cup {None}]
  /\ client \in {"up", "ok", "failed"}
  /\ caller \in {"waiting", "stopping", "returned", "raised"}
  /\ calls \in 0..MaxStops
  /\ confirmed \in BOOLEAN
  /\ innocent \in BOOLEAN

\* Once stop() returned or the invocation ended with rc 0, the runner does not
\* execute, now or later, even if its launch script starts only afterwards
\* (device.py:125 "Wait remotely before releasing the controller lock").
StoppedForGood == confirmed => launch \notin {"checked", "running"}

\* The start-time comparison keeps stop() off every process but its own, however
\* process ids are recycled (HOW-TO-RUN.md "stop only the invocation owned by
\* this controller").
KillsOnlyOwned == ~innocent

\* A stop script that reached the device ends: its wait loop outlasts neither the
\* owned process nor the reuse of its id.
StopScriptEnds == \A i \in Stops : script[i] = "touched" ~> script[i] = "finished"

\* The two scripts together implement a single invocation that is over when the
\* controller is told so.
Promise == INSTANCE Invocation WITH
  work <- IF launch = "running" THEN "running"
          ELSE IF launch = "gone" THEN "over"
          ELSE "pending"

ImplementsInvocation == Promise!Spec
=============================================================================
