------------------------------ MODULE JetsonCampaign ------------------------------
(***************************************************************************)
(* run-device.py of the Jetson study: invocations of a driver that runs    *)
(* the jobs of a campaign one after the other, under the lock of the GPU   *)
(* and a budget of time that all campaigns share, and keeps every attempt. *)
(*                                                                         *)
(* A driver may be signalled or killed between any two steps.  The job it  *)
(* runs, in a session of its own, then goes on, and the next driver can    *)
(* only see it by its name in the list of processes: while the job is a    *)
(* fork or still systemd-run (hidden), it cannot.                          *)
(*                                                                         *)
(* Time is counted in polls of the driver.  Left out are telemetry, the    *)
(* environment of jobs, and workloads that no driver started.              *)
(***************************************************************************)
EXTENDS Integers, FiniteSets

CONSTANTS
  Starts,          \* invocations of the driver that get the lock, a bound
  Campaigns,
  Length,          \* jobs of a campaign
  Requires,        \* a preceding job, or 0
  Scoped,          \* memory-limited jobs, which are started by systemd-run
  Timeout,         \* timeout_seconds of a job
  Budget,          \* budget_seconds of a specification
  Limit,           \* 5400 s for all campaigns
  Grace,           \* time to stop a job
  Strict           \* campaigns with stop_on_memory_pressure

Jobs == Campaigns \X (1..Length)

ASSUME ConstantsAssumption ==
  /\ Length \in Nat
  /\ Requires \in [1..Length -> Nat] /\ \A k \in 1..Length : Requires[k] < k
  /\ Scoped \subseteq 1..Length
  /\ {Starts, Timeout, Budget, Limit, Grace} \subseteq Nat

VARIABLES
  starts,    \* invocations so far
  pc,        \* free, or the place of the one that holds the lock, with these variables:
  campaign,  \* what it runs
  at,        \* the place in the list of jobs
  child,     \* whether p is the process of that job
  time,      \* [elapsed, wall, budget]: since the start, since that of the job
  reason,    \* why the job is stopped
  log,       \* how often stdout.log of a job was opened
  result,    \* result.json: [state, rc, wall], state none, torn or done
  work,      \* the process of a job: none, hidden, running, gone
  left       \* history: no, or what a job was when its driver ended without it

vars == <<starts, pc, campaign, at, child, time, reason, log, result, work, left>>
files == <<log, result>>
place == <<starts, campaign, at>>

Job == <<campaign, at>>
Before(k, j) == <<j[1], k>>
Working(j) == work[j] \in {"hidden", "running"}
Recorded(j) == result[j].state = "done"

NoTime == [elapsed |-> 0, wall |-> 0, budget |-> 0]
Later(g) == [elapsed |-> time.elapsed + g, wall |-> time.wall + g, budget |-> time.budget]

\* The lock is released with the process, whose variables are gone.
Ended ==
  /\ pc' = "free"
  /\ at' = 1 /\ child' = FALSE /\ time' = NoTime /\ reason' = "none"
  /\ UNCHANGED <<starts, campaign>>

\* The driver ends without its job.
Abandon ==
  left' = IF at <= Length /\ Working(Job) /\ left[Job] = "no"
            THEN [left EXCEPT ![Job] = work[Job]] ELSE left

Result(state, rc, wall) == [state |-> state, rc |-> rc, wall |-> wall]

\* The polls of all jobs that results record.
Polls == UNION {{j} \X (1..result[j].wall) : j \in Jobs}
Spent == Cardinality(Polls)

Init ==
  /\ starts = 0
  /\ pc = "free"
  /\ campaign \in Campaigns
  /\ at = 1 /\ child = FALSE /\ time = NoTime /\ reason = "none"
  /\ log = [j \in Jobs |-> 0]
  /\ result = [j \in Jobs |-> Result("none", 0, 0)]
  /\ work = [j \in Jobs |-> "none"]
  /\ left = [j \in Jobs |-> "no"]

-----------------------------------------------------------------------------
(* The start of a driver. *)

\* flock(LOCK_EX | LOCK_NB); where the lock is occupied, the invocation ends and changes nothing.
Lock ==
  /\ pc = "free"
  /\ starts < Starts
  /\ pc' = "open"
  /\ starts' = starts + 1
  /\ campaign' \in Campaigns
  /\ UNCHANGED <<at, child, time, reason, files, work, left>>

\* Mutant of Remaining: what other invocations spent is forgotten.
WholeBudget == Budget

\* The budget of this invocation.
Remaining == IF Spent >= Limit THEN 0 ELSE IF Budget <= Limit - Spent THEN Budget ELSE Limit - Spent

\* Mutant of Open: the list of processes is not read.
OpenBlindly ==
  /\ pc = "open"
  /\ \A j \in Jobs : result[j].state # "torn"
  /\ time' = [time EXCEPT !.budget = Remaining]
  /\ pc' = "next"
  /\ UNCHANGED <<place, child, reason, files, work, left>>

\* ps, the names of what runs; then all results are read, of which a torn one is an error.
Refused ==
  /\ pc = "open"
  /\ (\E j \in Jobs : work[j] = "running") \/ (\E j \in Jobs : result[j].state = "torn")
  /\ Ended
  /\ UNCHANGED <<files, work, left>>

Open ==
  /\ pc = "open"
  /\ \A j \in Jobs : work[j] # "running" /\ result[j].state # "torn"
  /\ time' = [time EXCEPT !.budget = Remaining]
  /\ pc' = "next"
  /\ UNCHANGED <<place, child, reason, files, work, left>>

-----------------------------------------------------------------------------
(* The next job. *)

Advance == at' = at + 1 /\ UNCHANGED <<starts, campaign>>

Here == pc = "next" /\ at <= Length

\* An existing result is preserved.
Preserve ==
  /\ Here /\ Recorded(Job)
  /\ Advance
  /\ UNCHANGED <<pc, child, time, reason, files, work, left>>

\* Neither a result nor room for another attempt.
Incomplete == result[Job].state = "none" /\ log[Job] # 0


\* Mutant of Fresh: an attempt counts with its result only.
FreshResult == result[Job].state = "none"
Fresh == result[Job].state = "none" /\ log[Job] = 0

\* The prerequisite has not succeeded.
Unmet ==
  LET k == Requires[at]
  IN k # 0 /\ (Recorded(Before(k, Job)) => result[Before(k, Job)].rc # 0)

\* At the end of the list, at an incomplete attempt, or with the budget used up.
Leave ==
  /\ \/ pc = "next" /\ at > Length
     \/ Here /\ Incomplete
     \/ Here /\ Fresh /\ ~Unmet /\ time.elapsed >= time.budget
  /\ pc' = "cleanup"
  /\ UNCHANGED <<place, child, time, reason, files, work, left>>

\* A result without an attempt: write_text opens result.json, then it writes.
Skip ==
  /\ Here /\ Fresh /\ Unmet
  /\ result' = [result EXCEPT ![Job] = Result("torn", 0, 0)]
  /\ pc' = "skip"
  /\ UNCHANGED <<place, child, time, reason, log, work, left>>

WriteSkip ==
  /\ pc = "skip"
  /\ result' = [result EXCEPT ![Job] = Result("done", 125, 0)]
  /\ pc' = "next"
  /\ Advance
  /\ UNCHANGED <<child, time, reason, log, work, left>>

\* open("w") of stdout.log.
OpenLog ==
  /\ Here /\ Fresh /\ ~Unmet /\ time.elapsed < time.budget
  /\ log' = [log EXCEPT ![Job] = @ + 1]
  /\ pc' = "launch"
  /\ UNCHANGED <<place, child, time, reason, result, work, left>>

-----------------------------------------------------------------------------
(* One job. *)

Fork ==
  /\ pc = "launch"
  /\ work' = [work EXCEPT ![Job] = "hidden"]
  /\ pc' = "popen"
  /\ UNCHANGED <<place, child, time, reason, files, left>>

\* The fork becomes the job.
Appear(j) ==
  /\ work[j] = "hidden"
  /\ work' = [work EXCEPT ![j] = "running"]
  /\ UNCHANGED <<pc, place, child, time, reason, files, left>>

Exit(j) ==
  /\ work[j] = "running"
  /\ work' = [work EXCEPT ![j] = "gone"]
  /\ UNCHANGED <<pc, place, child, time, reason, files, left>>

\* Popen waits for the exec, which for a scoped job is that of systemd-run.
PopenReturns ==
  /\ pc = "popen"
  /\ at \in Scoped \/ work[Job] # "hidden"
  /\ child' = TRUE
  /\ pc' = "watch"
  /\ UNCHANGED <<place, time, reason, files, work, left>>

Pressure == {"system_memory_reserve", "swap_growth"}

\* The last reason that holds.
Cause(t, pressure) ==
  IF t.elapsed > t.budget THEN "campaign_budget"
  ELSE IF t.wall > Timeout THEN "job_timeout" ELSE pressure

\* One look at the memory and the clock while the job works.
Poll ==
  /\ pc = "watch"
  /\ Working(Job)
  /\ \E pressure \in Pressure \cup {"none"} :
       LET cause == Cause(Later(1), pressure)
       IN /\ time' = Later(1)
          /\ reason' = cause
          /\ pc' = IF cause = "none" THEN "watch" ELSE "stop"
  /\ UNCHANGED <<place, child, files, work, left>>

\* Mutant of Stop: SIGTERM only.
StopPolitely ==
  /\ pc = "stop"
  /\ \E g \in 0..Grace : time' = Later(g)
  /\ pc' = "reap"
  /\ UNCHANGED <<place, child, reason, files, work, left>>

\* The scope, SIGTERM, five seconds, SIGKILL.
Stop ==
  /\ pc = "stop"
  /\ \E g \in 0..Grace : time' = Later(g)
  /\ work' = [work EXCEPT ![Job] = "gone"]
  /\ pc' = "reap"
  /\ UNCHANGED <<place, child, reason, files, left>>

\* p.wait and telemetry.json, then result.json is opened.
Reap ==
  /\ pc \in {"watch", "reap"}
  /\ work[Job] = "gone"
  /\ result' = [result EXCEPT ![Job] = Result("torn", 0, 0)]
  /\ pc' = "write"
  /\ UNCHANGED <<place, child, time, reason, log, work, left>>

\* A job that is stopped may still report success, when it was about to end.  What is known
\* of it is not used again.
Write ==
  /\ pc = "write"
  /\ \E rc \in {0, 1} : result' = [result EXCEPT ![Job] = Result("done", rc, time.wall)]
  /\ pc' = IF reason = "campaign_budget" \/ (reason \in Pressure /\ campaign \in Strict)
             THEN "cleanup"
           ELSE IF reason \in Pressure THEN "settle" ELSE "next"
  /\ Advance
  /\ time' = [time EXCEPT !.wall = 0] /\ reason' = "none" /\ child' = FALSE
  /\ UNCHANGED <<log, work, left>>

\* Two seconds later the reserve is there again, or not.
Settle ==
  /\ pc = "settle"
  /\ time' = [time EXCEPT !.elapsed = @ + 1]
  /\ pc' \in {"next", "cleanup"}
  /\ UNCHANGED <<place, child, reason, files, work, left>>

-----------------------------------------------------------------------------
(* The end of a driver. *)

Loop == {"next", "skip", "launch", "popen", "watch", "stop", "reap", "write", "settle"}

\* SIGTERM, or an exception: Popen fails, systemctl does not return.
Interrupt ==
  /\ pc \in Loop
  /\ pc' = "cleanup"
  /\ UNCHANGED <<place, child, time, reason, files, work, left>>

\* Mutant of CleanUp: nothing at exit.
CleanUpNothing ==
  /\ pc = "cleanup"
  /\ Ended
  /\ UNCHANGED <<files, work, left>>

\* cleanup_owned, at exit: it does not know a process that Popen has not returned.
CleanUp ==
  /\ pc = "cleanup"
  /\ Ended
  /\ IF child THEN work' = [work EXCEPT ![Job] = "gone"] /\ UNCHANGED left
              ELSE Abandon /\ UNCHANGED work
  /\ UNCHANGED files

\* SIGKILL; and what ends the cleanup: another signal, or systemctl that does not return.
Kill ==
  /\ pc # "free"
  /\ Ended
  /\ Abandon
  /\ UNCHANGED <<files, work>>

-----------------------------------------------------------------------------
DriverStep ==
  \/ Refused \/ Open
  \/ Preserve \/ Leave \/ Skip \/ WriteSkip \/ OpenLog
  \/ Fork \/ PopenReturns \/ Poll \/ Stop \/ Reap \/ Write \/ Settle
  \/ CleanUp

Next == Lock \/ DriverStep \/ Interrupt \/ Kill \/ \E j \in Jobs : Appear(j) \/ Exit(j)

\* A driver goes on, all its waits being bounded, and an exec succeeds or fails.
Fairness == WF_vars(DriverStep) /\ \A j \in Jobs : WF_vars(Appear(j))

Spec == Init /\ [][Next]_vars /\ Fairness

-----------------------------------------------------------------------------
(* Properties. *)

TypeOK ==
  /\ starts \in 0..Starts
  /\ pc \in Loop \cup {"free", "open", "cleanup"}
  /\ campaign \in Campaigns
  /\ at \in 1..(Length + 1) /\ child \in BOOLEAN
  /\ time \in [elapsed : Nat, wall : Nat, budget : Nat]
  /\ reason \in Pressure \cup {"none", "job_timeout", "campaign_budget"}
  /\ log \in [Jobs -> Nat]
  /\ result \in [Jobs -> [state : {"none", "torn", "done"}, rc : {0, 1, 125}, wall : Nat]]
  /\ work \in [Jobs -> {"none", "hidden", "running", "gone"}]
  /\ left \in [Jobs -> {"no", "hidden", "running"}]

\* Two jobs, of whatever campaigns, share the GPU only if one of them was left by its driver
\* before it had its name: the lock goes with the driver, the list of processes does the rest.
OneWorkload ==
  \A i, j \in Jobs : Working(i) /\ Working(j) /\ i # j => left[i] = "hidden" \/ left[j] = "hidden"

\* Whatever ends a driver, its job has ended before the lock is free, except after SIGKILL, a
\* cleanup that fails, or a signal while Popen has not returned.
JobsAreWatched ==
  \A j \in Jobs : Working(j) /\ left[j] = "no" => pc # "free" /\ j = Job

\* Over all invocations and crashes, every attempt is preserved: its log is never opened
\* again, its result never written again.
AttemptsKept ==
  [][\A j \in Jobs : /\ log[j] # 0 => log'[j] = log[j]
                     /\ Recorded(j) => result'[j] = result[j]]_vars

\* A job was attempted only after its prerequisite succeeded, and skipped only because that
\* had failed, although results are read by other invocations than wrote them.
DependentsFollow ==
  \A j \in Jobs :
    LET k == Requires[j[2]]
    IN /\ k # 0 /\ log[j] # 0 => Recorded(Before(k, j)) /\ result[Before(k, j)].rc = 0
       /\ log[j] = 0 /\ Recorded(j) =>
            k # 0 /\ Recorded(Before(k, j)) /\ result[Before(k, j)].rc # 0

\* The recorded time of all invocations of all campaigns exceeds the limit by one poll and
\* the time to stop a job, at most.
BudgetHolds == Spent <= Limit + 1 + Grace

\* Every invocation ends and gives the GPU back, whatever the jobs do.
DriversEnd == pc = "open" ~> pc = "free"
=============================================================================
