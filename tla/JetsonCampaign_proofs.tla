-------------------------- MODULE JetsonCampaign_proofs --------------------------
(***************************************************************************)
(* Proofs about JetsonCampaign, for any number of invocations, campaigns   *)
(* and jobs: first what does not depend on time, then the budget.          *)
(***************************************************************************)
EXTENDS JetsonCampaign, FiniteSetTheorems, TLAPS

\* The shape of the variables but for time.
Shape ==
  /\ pc \in Loop \cup {"free", "open", "cleanup"}
  /\ campaign \in Campaigns
  /\ at \in 1..(Length + 1)
  /\ log \in [Jobs -> Nat]
  /\ DOMAIN result = Jobs
  /\ work \in [Jobs -> {"none", "hidden", "running", "gone"}]
  /\ left \in [Jobs -> {"no", "hidden", "running"}]

Attempt == {"launch", "popen", "watch", "stop", "reap", "write"}

\* In the loop, everything before the present place has its result, and the present attempt
\* is that of a log with no result, or of one that is being written.
PlaceInv ==
  /\ pc \in {"free", "open"} => at = 1
  /\ pc \in Loop => \A i \in 1..(at - 1) : Recorded(<<campaign, i>>)
  /\ pc \in Attempt =>
       /\ at <= Length
       /\ log[Job] # 0
       /\ result[Job].state = IF pc = "write" THEN "torn" ELSE "none"
  /\ child => /\ pc \in {"watch", "stop", "reap", "write", "cleanup"}
              /\ at <= Length /\ log[Job] # 0

\* What works is the present job, or was left: as many as were hidden, and one that was not,
\* which has ended when the next driver enters the loop.
WorkInv ==
  /\ \A j \in Jobs : /\ log[j] = 0 => work[j] = "none"
                     /\ work[j] = "none" => left[j] = "no"
                     /\ left[j] = "running" => work[j] # "hidden"
  /\ pc = "launch" => work[Job] = "none"
  /\ \A j \in Jobs : Working(j) /\ left[j] = "no" =>
       /\ pc \in {"popen", "watch", "stop", "cleanup"}
       /\ j = Job
  /\ pc \notin {"free", "open"} => \A j \in Jobs : Working(j) => left[j] # "running"
  /\ \A i, j \in Jobs : Working(i) /\ Working(j) /\ left[i] = "running" /\ left[j] = "running"
       => i = j

IInv == Shape /\ PlaceInv /\ WorkInv /\ DependentsFollow

\* A job that is being skipped was not attempted, and its prerequisite has not succeeded.
SkipInv ==
  pc = "skip" => at <= Length /\ log[Job] = 0 /\ ~Recorded(Job) /\ Unmet

-----------------------------------------------------------------------------

\* The invariant holds initially.
LEMMA InitIInv == ASSUME Init PROVE IInv
<1> USE ConstantsAssumption
<1>1. Shape
  BY DEF Init, Shape, Loop, Result
<1>2. PlaceInv
  BY DEF Init, PlaceInv, Loop, Attempt
<1>3. WorkInv
  BY DEF Init, WorkInv, Working
<1>4. DependentsFollow
  BY DEF Init, DependentsFollow, Recorded, Result
<1> QED BY <1>1, <1>2, <1>3, <1>4 DEF IInv

\* The present job is one of the campaign, and its prerequisite an earlier one.
LEMMA JobInJobs ==
  ASSUME Shape, at <= Length
  PROVE  /\ Job \in Jobs
         /\ Requires[at] # 0 => Before(Requires[at], Job) \in Jobs /\ Requires[at] \in 1..(at - 1)
  BY ConstantsAssumption DEF Shape, Job, Jobs, Before

LEMMA BeforeInJobs ==
  ASSUME NEW j \in Jobs, Requires[j[2]] # 0
  PROVE  Before(Requires[j[2]], j) \in Jobs
  BY ConstantsAssumption DEF Jobs, Before

\* A result of the present attempt disturbs no dependent: none was attempted or skipped.
LEMMA ResultOfAttempt ==
  ASSUME DependentsFollow, Job \in Jobs, log[Job] # 0, ~Recorded(Job), log' = log,
         \A i \in Jobs : i # Job => result'[i] = result[i]
  PROVE  DependentsFollow'
<1> SUFFICES ASSUME NEW j \in Jobs
             PROVE  LET k == Requires[j[2]]
                    IN /\ k # 0 /\ log[j] # 0 => Recorded(Before(k, j))' /\ result'[Before(k, j)].rc = 0
                       /\ log[j] = 0 /\ Recorded(j)' =>
                            k # 0 /\ Recorded(Before(k, j))' /\ result'[Before(k, j)].rc # 0
  BY DEF DependentsFollow, Before
<1>1. Requires[j[2]] # 0 /\ Recorded(Before(Requires[j[2]], j)) =>
        result'[Before(Requires[j[2]], j)] = result[Before(Requires[j[2]], j)]
  BY BeforeInJobs
<1>2. log[j] = 0 => j # Job /\ result'[j] = result[j]
  OBVIOUS
<1> QED BY <1>1, <1>2 DEF DependentsFollow, Recorded

\* The steps that leave logs, results and what was left as they are.
LEMMA ControlKeeps ==
  ASSUME IInv,
         \/ Lock \/ Refused \/ Open \/ Leave \/ Fork
         \/ PopenReturns \/ Poll \/ Stop \/ Settle \/ Interrupt
  PROVE  IInv'
<1> USE ConstantsAssumption
    DEF IInv, Shape, PlaceInv, WorkInv, DependentsFollow, Loop, Attempt, Working, Recorded, Before,
        place, files, Job, Jobs
<1>1. CASE Lock
  BY <1>1 DEF Lock
<1>2. CASE Refused
  BY <1>2 DEF Refused, Ended
<1>3. CASE Open
  BY <1>3 DEF Open
<1>4. CASE Leave
  BY SMTT(30), <1>4 DEF Leave, Here
<1>5. CASE Fork
  BY ZenonT(60), <1>5 DEF Fork
<1>6. CASE PopenReturns
  BY <1>6 DEF PopenReturns
<1>7. CASE Poll
  BY <1>7 DEF Poll
<1>8. CASE Stop
  BY ZenonT(60), <1>8 DEF Stop
<1>9. CASE Settle
  BY <1>9 DEF Settle
<1>10. CASE Interrupt
  BY <1>10 DEF Interrupt
<1> QED BY <1>1, <1>2, <1>3, <1>4, <1>5, <1>6, <1>7, <1>8, <1>9, <1>10

LEMMA PreserveKeeps == ASSUME IInv, Preserve PROVE IInv'
<1> USE ConstantsAssumption DEF IInv, Preserve, Here, Advance
<1>1. Shape'
  BY DEF Shape, Loop, place, files, Job, Jobs
<1>2. PlaceInv'
  <2>1. \A i \in 1..at : i = at \/ i \in 1..(at - 1)
    BY DEF Shape
  <2>2. \A i \in 1..at : Recorded(<<campaign, i>>)
    BY <2>1 DEF PlaceInv, Job, Loop
  <2>3. \A i \in 1..(at' - 1) : Recorded(<<campaign, i>>)'
    BY <2>2 DEF Shape, Recorded, files
  <2> QED BY <2>3 DEF PlaceInv, Loop, Attempt
<1>3. WorkInv'
  BY DEF Shape, PlaceInv, WorkInv, Loop, Attempt, Working, place, files, Job, Jobs
<1>4. DependentsFollow'
  BY DEF DependentsFollow, Recorded, Before, files
<1> QED BY <1>1, <1>2, <1>3, <1>4

LEMMA SkipKeeps == ASSUME IInv, Skip PROVE IInv'
<1> USE ConstantsAssumption DEF IInv, Skip, Here, Result
<1>1. Shape'
  BY DEF Shape, Loop, place, files, Job, Jobs
<1>2. Job \in Jobs /\ result[Job].state = "none" /\ Job' = Job
  BY JobInJobs DEF Fresh, place, Job
<1>3. \A j \in Jobs : /\ result'[j].state = "done" <=> result[j].state = "done"
                      /\ result[j].state = "done" => result'[j] = result[j]
  <2>1. result' = [result EXCEPT ![Job] = Result("torn", 0, 0)] /\ DOMAIN result = Jobs
    BY DEF Shape
  <2> QED BY <1>2, <2>1
<1>4. PlaceInv'
  <2>1. \A i \in 1..(at - 1) : <<campaign, i>> \in Jobs
    BY DEF Shape, Jobs
  <2>2. \A i \in 1..(at - 1) : Recorded(<<campaign, i>>)
    BY DEF PlaceInv, Loop
  <2>3. campaign' = campaign /\ at' = at /\ child' = child /\ pc' = "skip" /\ pc = "next"
    BY DEF place
  <2>4. \A i \in 1..(at' - 1) : Recorded(<<campaign, i>>)'
    BY <1>3, <2>1, <2>2, <2>3 DEF Recorded
  <2>5. ~child
    BY Zenon DEF PlaceInv
  <2> QED BY <2>3, <2>4, <2>5 DEF PlaceInv, Loop, Attempt
<1>5. WorkInv'
  BY <1>2 DEF Shape, PlaceInv, WorkInv, Loop, Attempt, Working, place, files, Job, Jobs
<1>6. DependentsFollow'
  <2> SUFFICES ASSUME NEW j \in Jobs
               PROVE  LET k == Requires[j[2]]
                      IN /\ k # 0 /\ log[j] # 0 => Recorded(Before(k, j))' /\ result'[Before(k, j)].rc = 0
                         /\ log[j] = 0 /\ Recorded(j)' =>
                              k # 0 /\ Recorded(Before(k, j))' /\ result'[Before(k, j)].rc # 0
    BY DEF DependentsFollow, Before
  <2>1. Requires[j[2]] # 0 /\ Recorded(Before(Requires[j[2]], j)) =>
          /\ Recorded(Before(Requires[j[2]], j))'
          /\ result'[Before(Requires[j[2]], j)] = result[Before(Requires[j[2]], j)]
    <3>1. Requires[j[2]] # 0 => Before(Requires[j[2]], j) \in Jobs
      BY BeforeInJobs
    <3> QED BY <1>3, <3>1 DEF Before, Recorded
  <2>2. Recorded(j)' <=> Recorded(j)
    BY <1>3 DEF Recorded
  <2> QED BY <2>1, <2>2 DEF DependentsFollow
<1> QED BY <1>1, <1>4, <1>5, <1>6

\* Only Skip leads to the place where a skipped job gets its result.
LEMMA SkipInvKept == ASSUME IInv, SkipInv, [Next]_vars PROVE SkipInv'
<1>1. CASE Skip
  <2>1. /\ at <= Length /\ Fresh /\ Unmet /\ Job \in Jobs /\ Job' = Job /\ log' = log /\ at' = at
        /\ result' = [result EXCEPT ![Job] = Result("torn", 0, 0)] /\ DOMAIN result = Jobs
    BY <1>1, JobInJobs DEF Skip, Here, place, Job, IInv, Shape
  <2>2. ~Recorded(Job)'
    BY <2>1 DEF Recorded, Result
  <2>3. /\ Requires[at] # 0 /\ Before(Requires[at], Job) \in Jobs
        /\ Before(Requires[at], Job) # Job
    BY <2>1, JobInJobs, ConstantsAssumption DEF Unmet, Before, Job, IInv, Shape
  <2>4. /\ result'[Before(Requires[at], Job)] = result[Before(Requires[at], Job)]
        /\ Before(Requires[at], Job)' = Before(Requires[at], Job)
    BY <2>1, <2>3 DEF Before
  <2>5. Unmet'
    BY <2>1, <2>3, <2>4 DEF Unmet, Recorded
  <2> QED BY <2>1, <2>2, <2>5 DEF SkipInv, Fresh
<1>2. CASE UNCHANGED <<pc, place, files>>
  BY <1>2 DEF SkipInv, place, files, Job, Recorded, Unmet, Before
<1>3. CASE pc' # "skip"
  BY <1>3 DEF SkipInv
<1> QED BY <1>1, <1>2, <1>3
     DEF Next, DriverStep, Lock, Refused, Open, Preserve, Leave, WriteSkip, OpenLog, Fork,
         PopenReturns, Poll, Stop, Reap, Write, Settle, CleanUp, Interrupt, Kill, Appear, Exit,
         Ended, vars, place, files, Here

\* The result of a skipped job is written while its prerequisite is still unmet.
LEMMA WriteSkipKeeps == ASSUME IInv, SkipInv, WriteSkip PROVE IInv'
<1> USE ConstantsAssumption DEF IInv, WriteSkip, Advance, Result
<1>0. pc = "skip" /\ at <= Length /\ log[Job] = 0 /\ ~Recorded(Job) /\ Unmet
  BY DEF SkipInv
<1>1. Shape'
  BY <1>0 DEF Shape, Loop, place, files, Job, Jobs
<1>2. PlaceInv'
  BY <1>0 DEF Shape, PlaceInv, Loop, Attempt, place, files, Job, Jobs, Recorded
<1>3. WorkInv'
  BY DEF Shape, PlaceInv, WorkInv, Loop, Attempt, Working, place, files, Job, Jobs
<1>4. DependentsFollow'
  <2> SUFFICES ASSUME NEW j \in Jobs
               PROVE  LET k == Requires[j[2]]
                      IN /\ k # 0 /\ log[j] # 0 => Recorded(Before(k, j))' /\ result'[Before(k, j)].rc = 0
                         /\ log[j] = 0 /\ Recorded(j)' =>
                              k # 0 /\ Recorded(Before(k, j))' /\ result'[Before(k, j)].rc # 0
    BY DEF DependentsFollow, Before
  <2>1. Job \in Jobs /\ ~Recorded(Job) /\ log[Job] = 0
    BY <1>0, JobInJobs
  <2>2. \A i \in Jobs : i # Job => result'[i] = result[i]
    BY DEF Shape
  <2>3. CASE j = Job
    <3>1. Requires[at] # 0 /\ Before(Requires[at], Job) \in Jobs /\ Requires[at] \in 1..(at - 1)
      BY <1>0, JobInJobs DEF Unmet
    <3>2. Before(Requires[at], Job) # Job
      <4>1. at \in Nat /\ Requires[at] # at
        BY <3>1 DEF Shape
      <4> QED BY ONLY <4>1 DEF Before, Job
    <3>3. Recorded(Before(Requires[at], Job))
      BY <3>1 DEF PlaceInv, Loop, Before, Job
    <3>4. result[Before(Requires[at], Job)].rc # 0
      BY <1>0, <3>3 DEF Unmet
    <3> QED BY <2>1, <2>2, <2>3, <3>1, <3>2, <3>3, <3>4 DEF Recorded, Job
  <2>4. CASE j # Job
    <3>1. Requires[j[2]] # 0 /\ Recorded(Before(Requires[j[2]], j)) => 
             /\ Before(Requires[j[2]], j) # Job
             /\ result'[Before(Requires[j[2]], j)] = result[Before(Requires[j[2]], j)]
      BY <2>1, <2>2, BeforeInJobs DEF Recorded
    <3> QED BY <2>2, <2>4, <3>1 DEF DependentsFollow, Recorded
  <2> QED BY <2>3, <2>4
<1> QED BY <1>1, <1>2, <1>3, <1>4

LEMMA OpenLogKeeps == ASSUME IInv, OpenLog PROVE IInv'
<1> USE ConstantsAssumption DEF IInv, OpenLog, Here
<1>1. Shape'
  BY DEF Shape, Loop, place, files, Job, Jobs
<1>2. PlaceInv'
  BY DEF Fresh, Shape, PlaceInv, Loop, Attempt, place, files, Job, Jobs, Recorded
<1>3. WorkInv'
  BY DEF Fresh, Shape, PlaceInv, WorkInv, Loop, Attempt, Working, place, files, Job, Jobs
<1>4. DependentsFollow'
  <2>1. /\ log' \in [Jobs -> Nat]
        /\ \A j \in Jobs : j # Job => log'[j] = log[j]
        /\ log'[Job] # 0
    BY JobInJobs DEF Shape, Fresh
  <2>2. Requires[at] # 0 => /\ Recorded(Before(Requires[at], Job))
                            /\ result[Before(Requires[at], Job)].rc = 0
    BY DEF Unmet
  <2> SUFFICES ASSUME NEW j \in Jobs
               PROVE  LET k == Requires[j[2]]
                      IN /\ k # 0 /\ log'[j] # 0 => Recorded(Before(k, j)) /\ result[Before(k, j)].rc = 0
                         /\ log'[j] = 0 /\ Recorded(j) =>
                              k # 0 /\ Recorded(Before(k, j)) /\ result[Before(k, j)].rc # 0
    BY DEF DependentsFollow, Before, Recorded
  <2>3. CASE j = Job
    BY <2>1, <2>2, <2>3 DEF Job
  <2>4. CASE j # Job
    BY <2>1, <2>4 DEF DependentsFollow
  <2> QED BY <2>3, <2>4
<1> QED BY <1>1, <1>2, <1>3, <1>4

LEMMA ReapKeeps == ASSUME IInv, Reap PROVE IInv'
<1> USE ConstantsAssumption DEF IInv, Reap, Result
<1>1. Shape'
  BY DEF Shape, Loop, place
<1>2. PlaceInv'
  BY SMTT(30) DEF Shape, PlaceInv, Loop, Attempt, place, Job, Jobs, Recorded
<1>3. WorkInv'
  BY DEF Shape, PlaceInv, WorkInv, Loop, Attempt, Working, place, Job
<1>4. DependentsFollow'
  <2>1. Job \in Jobs /\ log[Job] # 0 /\ ~Recorded(Job)
    BY JobInJobs DEF PlaceInv, Attempt, Recorded
  <2>2. \A i \in Jobs : i # Job => result'[i] = result[i]
    BY DEF Shape
  <2> QED BY <2>1, <2>2, ResultOfAttempt
<1> QED BY <1>1, <1>2, <1>3, <1>4

LEMMA WriteKeeps == ASSUME IInv, Write PROVE IInv'
<1> USE ConstantsAssumption DEF IInv, Write, Advance, Result
<1>1. Shape'
  BY DEF Shape, PlaceInv, Attempt, Loop, Job, Jobs
<1>2. PlaceInv'
  BY SMTT(30) DEF Shape, PlaceInv, Loop, Attempt, Job, Jobs, Recorded
<1>3. WorkInv'
  BY DEF Shape, PlaceInv, WorkInv, Loop, Attempt, Working, Job, Jobs
<1>4. DependentsFollow'
  <2>1. Job \in Jobs /\ log[Job] # 0 /\ ~Recorded(Job)
    BY JobInJobs DEF PlaceInv, Attempt, Recorded
  <2>2. \A i \in Jobs : i # Job => result'[i] = result[i]
    BY DEF Shape
  <2> QED BY <2>1, <2>2, ResultOfAttempt
<1> QED BY <1>1, <1>2, <1>3, <1>4

\* A driver that ends without its job: of what works, one more was left.
LEMMA AbandonKeeps ==
  ASSUME IInv, Ended, Abandon, UNCHANGED work, UNCHANGED files, pc \notin {"free"}
  PROVE  IInv'
<1> USE ConstantsAssumption DEF IInv, Ended, files
<1>1. Shape'
  BY SMTT(30) DEF Shape, Loop, Abandon, Working, Job, Jobs
<1>2. PlaceInv'
  BY DEF PlaceInv, Loop, Attempt
<1>3. WorkInv'
  <2>1. \A j \in Jobs :
          \/ left'[j] = left[j] /\ ~(Working(j) /\ left[j] = "no")
          \/ j = Job /\ Working(j) /\ left[j] = "no" /\ left'[j] = work[j]
    <3> TAKE j \in Jobs
    <3>1. CASE Working(j) /\ left[j] = "no"
      <4>1. j = Job
        BY <3>1 DEF WorkInv
      <4>2. at <= Length
        BY <4>1 DEF Job, Jobs
      <4> QED BY <3>1, <4>1, <4>2 DEF Abandon, Shape
    <3>2. CASE ~(Working(j) /\ left[j] = "no")
      BY <3>2 DEF Abandon, Shape
    <3> QED BY <3>1, <3>2
  <2>2. \A j \in Jobs : Working(j) => left'[j] # "no"
    BY <2>1 DEF Working
  <2>3. \A i, j \in Jobs : Working(i) /\ Working(j) /\ left'[i] = "running" /\ left'[j] = "running"
          => i = j
    BY <2>1 DEF WorkInv
  <2> QED BY <2>1, <2>2, <2>3 DEF WorkInv, Working
<1>4. DependentsFollow'
  BY DEF DependentsFollow, Recorded, Before
<1> QED BY <1>1, <1>2, <1>3, <1>4

LEMMA CleanUpKeeps == ASSUME IInv, CleanUp PROVE IInv'
<1>1. CASE child
  <2> USE ConstantsAssumption, <1>1 DEF IInv, CleanUp, Ended, files
  <2>1. Shape'
    <3>1. work' \in [Jobs -> {"none", "hidden", "running", "gone"}]
      BY DEF Shape
    <3>2. at' \in 1..(Length + 1)
      OBVIOUS
    <3> QED BY <3>1, <3>2 DEF Shape
  <2>2. PlaceInv'
    BY DEF PlaceInv, Loop, Attempt
  <2>3. WorkInv'
    <3>1. \A j \in Jobs : j # Job => work'[j] = work[j]
      BY DEF Shape
    <3>2. Job \in Jobs /\ work'[Job] = "gone" /\ log[Job] # 0
      BY JobInJobs DEF Shape, PlaceInv
    <3> QED BY <3>1, <3>2 DEF WorkInv, Working
  <2>4. DependentsFollow'
    BY DEF DependentsFollow, Recorded, Before
  <2> QED BY <2>1, <2>2, <2>3, <2>4
<1>2. CASE ~child
  BY <1>2, AbandonKeeps DEF CleanUp
<1> QED BY <1>1, <1>2

LEMMA KillKeeps == ASSUME IInv, Kill PROVE IInv'
  BY AbandonKeeps DEF Kill, files

LEMMA ProcessKeeps == ASSUME IInv, NEW j \in Jobs, Appear(j) \/ Exit(j) PROVE IInv'
<1> USE ConstantsAssumption DEF IInv, Appear, Exit, place, files
<1>1. Shape'
  BY DEF Shape
<1>2. PlaceInv'
  BY DEF PlaceInv, Loop, Attempt, Recorded, Job
<1>3. WorkInv'
  <2>1. \A i \in Jobs : i # j => work'[i] = work[i]
    BY DEF Shape
  <2>2. /\ Working(j)
        /\ \/ work[j] = "hidden" /\ work'[j] = "running"
           \/ work'[j] = "gone"
    BY DEF Shape, Working
  <2>3. pc # "launch" \/ j # Job
    BY <2>2 DEF WorkInv, Working
  <2>4. /\ \A i \in Jobs : Working(i)' => Working(i)
        /\ work[j] # "none" /\ work'[j] # "none" /\ log[j] # 0
        /\ work'[j] # "hidden"
        /\ left' = left /\ pc' = pc /\ Job' = Job
    BY <2>1, <2>2 DEF WorkInv, Working, Job
  <2>5. \A i \in Jobs : /\ log'[i] = 0 => work'[i] = "none"
                        /\ work'[i] = "none" => left'[i] = "no"
                        /\ left'[i] = "running" => work'[i] # "hidden"
    BY <2>1, <2>4 DEF WorkInv
  <2>6. pc' = "launch" => work'[Job'] = "none"
    <3>1. ASSUME pc = "launch" PROVE Job \in Jobs
      BY <3>1, JobInJobs DEF PlaceInv, Attempt
    <3> QED BY <2>1, <2>3, <2>4, <3>1 DEF WorkInv
  <2>7. \A i \in Jobs : Working(i)' /\ left'[i] = "no" =>
          /\ pc' \in {"popen", "watch", "stop", "cleanup"}
          /\ i = Job'
    BY <2>4 DEF WorkInv
  <2>8. pc' \notin {"free", "open"} => \A i \in Jobs : Working(i)' => left'[i] # "running"
    BY <2>4 DEF WorkInv
  <2>9. \A i, k \in Jobs : Working(i)' /\ Working(k)' /\ left'[i] = "running" /\ left'[k] = "running"
          => i = k
    BY <2>4 DEF WorkInv
  <2> HIDE DEF IInv, Appear, Exit, place, files
  <2> QED BY <2>5, <2>6, <2>7, <2>8, <2>9 DEF WorkInv, Working, Job
<1>4. DependentsFollow'
  BY DEF DependentsFollow, Recorded, Before
<1> QED BY <1>1, <1>2, <1>3, <1>4

\* Every step keeps the invariant.
LEMMA NextKeeps == ASSUME IInv, SkipInv, [Next]_vars PROVE IInv'
<1>1. CASE Lock
  BY <1>1, ControlKeeps
<1>2. CASE DriverStep
  BY <1>2, ControlKeeps, PreserveKeeps, SkipKeeps, WriteSkipKeeps, OpenLogKeeps, ReapKeeps, WriteKeeps,
     CleanUpKeeps
     DEF DriverStep
<1>3. CASE Interrupt
  BY <1>3, ControlKeeps
<1>4. CASE Kill
  BY <1>4, KillKeeps
<1>5. CASE \E j \in Jobs : Appear(j) \/ Exit(j)
  BY <1>5, ProcessKeeps
<1>6. CASE UNCHANGED vars
  BY <1>6 DEF vars, files, IInv, Shape, PlaceInv, WorkInv, DependentsFollow, Recorded,
     Working, Job, Before
<1> QED BY <1>1, <1>2, <1>3, <1>4, <1>5, <1>6 DEF Next

\* The inductive invariant holds of every behaviour.
THEOREM Invariant == Spec => [](IInv /\ SkipInv)
<1>1. Init => SkipInv
  BY DEF Init, SkipInv
<1> QED BY InitIInv, NextKeeps, SkipInvKept, <1>1, PTL DEF Spec

-----------------------------------------------------------------------------
(* Time. *)

\* As long as a driver goes on, what is recorded and what it is about to record fit the limit,
\* but for the time that it exceeds its own budget by: one poll and the time to stop a job.
InBudget(p, t, spent) ==
  /\ p \in Loop =>
       /\ t.budget = 0 \/ spent + t.wall + t.budget <= Limit + t.elapsed
       /\ p \in {"launch", "popen", "watch"} => t.budget # 0 /\ t.elapsed <= t.budget
       /\ p = "stop" => t.budget # 0 /\ t.elapsed <= t.budget + 1
       /\ p \in {"reap", "write"} => t.budget # 0 /\ t.elapsed <= t.budget + 1 + Grace
       /\ p \in {"next", "skip", "launch", "popen", "settle"} => t.wall = 0
  /\ p \in {"free", "open"} => t = NoTime

\* No wall time stands where no result does.
BudgetInv ==
  /\ IsFiniteSet(Polls)
  /\ \A j \in Jobs : ~Recorded(j) => result[j].wall = 0
  /\ Spent <= Limit + 1 + Grace
  /\ InBudget(pc, time, Spent)

\* The time that results record depends on their wall times only.
LEMMA SameWallsSamePolls ==
  ASSUME \A j \in Jobs : result'[j].wall = result[j].wall
  PROVE  Polls' = Polls
  BY DEF Polls

\* What a result of a job adds to it.
LEMMA ResultAdds ==
  ASSUME IsFiniteSet(Polls), NEW j \in Jobs, NEW w \in Nat,
         result[j].wall = 0, result'[j].wall = w,
         \A i \in Jobs : i # j => result'[i] = result[i]
  PROVE  IsFiniteSet(Polls') /\ Spent' = Spent + w
<1> DEFINE new == {j} \X (1..w)
<1>1. IsFiniteSet(new) /\ Cardinality(new) = w
  <2>1. IsFiniteSet({j}) /\ Cardinality({j}) = 1
    BY FS_Singleton
  <2>2. IsFiniteSet(1..w) /\ Cardinality(1..w) = w
    BY FS_Interval
  <2>3. Cardinality(new) = Cardinality({j}) * Cardinality(1..w) /\ IsFiniteSet(new)
    BY <2>1, <2>2, FS_Product
  <2> QED BY <2>1, <2>2, <2>3
<1>2. Polls' = Polls \cup new
  BY DEF Polls
<1>3. Polls \cap new = {}
  <2> SUFFICES ASSUME NEW p \in Polls, p \in new PROVE FALSE
    OBVIOUS
  <2>1. PICK i \in Jobs : p \in {i} \X (1..result[i].wall)
    BY DEF Polls
  <2>2. i = j
    BY <2>1
  <2> QED BY <2>1, <2>2
<1>4. IsFiniteSet(Polls') /\ Cardinality(Polls') = Cardinality(Polls) + w - Cardinality({})
  <2> HIDE DEF new
  <2>1. /\ IsFiniteSet(Polls \cup new)
        /\ Cardinality(Polls \cup new) = Cardinality(Polls) + Cardinality(new) - Cardinality(Polls \cap new)
    BY <1>1, FS_Union
  <2> QED BY <1>1, <1>2, <1>3, <2>1
<1> QED BY <1>4, FS_EmptySet, FS_CardinalityType DEF Spent

LEMMA SpentInNat == ASSUME IsFiniteSet(Polls) PROVE Spent \in Nat
  BY FS_CardinalityType DEF Spent

LEMMA RemainingInNat == ASSUME IsFiniteSet(Polls) PROVE Remaining \in Nat
  BY ConstantsAssumption, SpentInNat DEF Remaining

\* What the invariants leave out of the types.
Values ==
  /\ starts \in 0..Starts
  /\ child \in BOOLEAN
  /\ time \in [elapsed : Nat, wall : Nat, budget : Nat]
  /\ reason \in Pressure \cup {"none", "job_timeout", "campaign_budget"}
  /\ result \in [Jobs -> [state : {"none", "torn", "done"}, rc : {0, 1, 125}, wall : Nat]]

LEMMA InitBudget == ASSUME Init PROVE BudgetInv /\ Values
<1> USE ConstantsAssumption
<1>1. result \in [Jobs -> [state : {"none", "torn", "done"}, rc : {0, 1, 125}, wall : Nat]]
  BY DEF Init, Result
<1>2. child \in BOOLEAN
  BY Zenon DEF Init
<1>3. Polls = {}
  BY DEF Init, Polls, Result
<1>4. IsFiniteSet(Polls) /\ Spent = 0
  BY <1>3, FS_EmptySet DEF Spent
<1> QED BY <1>1, <1>2, <1>4 DEF Init, Values, BudgetInv, InBudget, NoTime, Loop, Recorded, Result

LEMMA ValuesKept == ASSUME BudgetInv, Values, [Next]_vars PROVE Values'
<1> USE ConstantsAssumption DEF Values, NoTime
<1>1. child' \in BOOLEAN
  <2>1. CASE Refused \/ CleanUp \/ Kill
    BY <2>1, Zenon DEF Refused, CleanUp, Kill, Ended
  <2>2. CASE PopenReturns \/ Write
    BY <2>2, Zenon DEF PopenReturns, Write
  <2>3. CASE ~(Refused \/ CleanUp \/ Kill \/ PopenReturns \/ Write)
    <3>1. child' = child
      BY <2>3, Zenon DEF Next, DriverStep, Lock, Open, Preserve, Leave, Skip, WriteSkip, OpenLog, Fork, Poll,
         Stop, Reap, Settle, Interrupt, Appear, Exit, vars
    <3> QED BY <3>1, Zenon
  <2> QED BY <2>1, <2>2, <2>3
<1>2. (time \in [elapsed : Nat, wall : Nat, budget : Nat])'
  <2>1. CASE Open
    BY <2>1, RemainingInNat DEF Open, BudgetInv
  <2>2. CASE Poll
    BY <2>2 DEF Poll, Later
  <2>3. CASE Stop
    BY <2>3 DEF Stop, Later
  <2>4. CASE Write \/ Settle
    BY SMTT(30), <2>4 DEF Write, Settle
  <2>5. CASE Refused \/ CleanUp \/ Kill
    BY <2>5 DEF Refused, CleanUp, Kill, Ended
  <2>6. CASE ~(Open \/ Poll \/ Stop \/ Write \/ Settle \/ Refused \/ CleanUp \/ Kill)
    <3>1. time' = time
      BY <2>6 DEF Next, DriverStep, Lock, Preserve, Leave, Skip, WriteSkip, OpenLog, Fork, PopenReturns, Reap,
         Interrupt, Appear, Exit, vars
    <3> QED BY <3>1
  <2> QED BY <2>1, <2>2, <2>3, <2>4, <2>5, <2>6
<1>3. reason' \in Pressure \cup {"none", "job_timeout", "campaign_budget"}
  BY DEF Next, DriverStep, Lock, Refused, Open, Preserve, Leave, Skip, WriteSkip, OpenLog, Fork, PopenReturns,
     Poll, Cause, Later, Pressure, Stop, Reap, Write, Settle, CleanUp, Interrupt, Kill, Appear, Exit, Ended,
     vars
<1>4. result' \in [Jobs -> [state : {"none", "torn", "done"}, rc : {0, 1, 125}, wall : Nat]]
  <2>1. CASE Skip \/ WriteSkip \/ Reap
    BY SMTT(30), <2>1 DEF Skip, WriteSkip, Reap, Result
  <2>2. CASE Write
    <3>1. time.wall \in Nat
      OBVIOUS
    <3>2. PICK rc \in {0, 1} : result' = [result EXCEPT ![Job] = Result("done", rc, time.wall)]
      BY <2>2 DEF Write
    <3>3. Result("done", rc, time.wall)
            \in [state : {"none", "torn", "done"}, rc : {0, 1, 125}, wall : Nat]
      BY <3>1 DEF Result
    <3> QED BY <3>2, <3>3
  <2>3. CASE ~(Skip \/ WriteSkip \/ Reap \/ Write)
    <3>1. result' = result
      BY <2>3 DEF Next, DriverStep, Lock, Refused, Open, Preserve, Leave, OpenLog, Fork,
         PopenReturns, Poll, Stop, Settle, CleanUp, Interrupt, Kill, Appear, Exit, files, vars
    <3> QED BY <3>1
  <2> QED BY <2>1, <2>2, <2>3
<1>5. starts' \in 0..Starts
  <2>1. CASE Lock
    BY <2>1 DEF Lock
  <2>2. CASE ~Lock
    <3>1. starts' = starts
      BY <2>2 DEF Next, DriverStep, Refused, Open, Preserve, Leave, Skip, WriteSkip, OpenLog, Fork,
         PopenReturns, Poll, Stop, Reap, Write, Settle, CleanUp, Interrupt, Kill, Appear, Exit,
         Ended, Advance, place, vars
    <3> QED BY <3>1
  <2> QED BY <2>1, <2>2
<1> QED BY <1>1, <1>2, <1>3, <1>4, <1>5

\* Steps that write no result.
LEMMA ClockKeepsBudget ==
  ASSUME BudgetInv, Values, [Next]_vars, result' = result
  PROVE  BudgetInv'
<1> USE ConstantsAssumption
<1>1. Polls' = Polls /\ Spent' = Spent
  BY SameWallsSamePolls DEF Spent
<1>2. /\ Spent \in Nat /\ Remaining \in Nat
      /\ time \in [elapsed : Nat, wall : Nat, budget : Nat]
  BY SpentInNat, RemainingInNat DEF BudgetInv, Values
<1>3. /\ IsFiniteSet(Polls')
      /\ \A j \in Jobs : ~Recorded(j)' => result'[j].wall = 0
      /\ Spent' <= Limit + 1 + Grace
  BY <1>1 DEF BudgetInv, Recorded
<1>5. InBudget(pc', time', Spent)
  <2>0. InBudget(pc, time, Spent)
    BY DEF BudgetInv
  <2> USE <1>2, <2>0 DEF InBudget, Loop, NoTime
  <2>1. CASE Open
    BY <2>1 DEF Open, Remaining, NoTime
  <2>2. CASE Poll
    <3>1. /\ time.budget # 0 /\ time.elapsed <= time.budget
          /\ Spent + time.wall + time.budget <= Limit + time.elapsed
      BY <2>2 DEF Poll
    <3>2. /\ time' = Later(1) /\ pc' \in {"watch", "stop"}
          /\ pc' = "watch" => time'.elapsed <= time'.budget
      BY <2>2 DEF Poll, Cause, Later, Pressure
    <3>3. time' = [elapsed |-> time.elapsed + 1, wall |-> time.wall + 1, budget |-> time.budget]
      BY <3>2 DEF Later
    <3>4. /\ time'.elapsed = time.elapsed + 1 /\ time'.wall = time.wall + 1
          /\ time'.budget = time.budget
      BY ONLY <3>3
    <3> HIDE DEF InBudget, Loop
    <3>5. /\ time'.budget # 0 /\ time'.elapsed <= time'.budget + 1
          /\ Spent + time'.wall + time'.budget <= Limit + time'.elapsed
      <4> DEFINE e == time.elapsed
                 w == time.wall
                 b == time.budget
      <4>1. e \in Nat /\ w \in Nat /\ b \in Nat /\ Spent \in Nat /\ Limit \in Nat /\ Grace \in Nat
        BY <1>2
      <4>2. b # 0 /\ e <= b /\ Spent + w + b <= Limit + e
        BY <3>1
      <4>3. time'.elapsed = e + 1 /\ time'.wall = w + 1 /\ time'.budget = b
        BY <3>4
      <4> HIDE DEF e, w, b
      <4> QED BY ONLY <4>1, <4>2, <4>3
    <3> QED BY ONLY <3>2, <3>5 DEF InBudget, Loop
  <2>3. CASE Stop
    <3>1. /\ time.budget # 0 /\ time.elapsed <= time.budget + 1
          /\ Spent + time.wall + time.budget <= Limit + time.elapsed
      BY <2>3 DEF Stop
    <3>2. PICK g \in 0..Grace : pc' = "reap" /\ time' = Later(g)
      BY <2>3 DEF Stop
    <3>3. time' = [elapsed |-> time.elapsed + g, wall |-> time.wall + g, budget |-> time.budget]
      BY <3>2 DEF Later
    <3>4. /\ time'.elapsed = time.elapsed + g /\ time'.wall = time.wall + g
          /\ time'.budget = time.budget
      BY ONLY <3>3
    <3> HIDE DEF InBudget, Loop
    <3>5. /\ time'.budget # 0 /\ time'.elapsed <= time'.budget + 1 + Grace
          /\ Spent + time'.wall + time'.budget <= Limit + time'.elapsed
      <4> DEFINE e == time.elapsed
                 w == time.wall
                 b == time.budget
      <4>1. e \in Nat /\ w \in Nat /\ b \in Nat /\ Spent \in Nat /\ Limit \in Nat /\ Grace \in Nat
        BY <1>2
      <4>2. b # 0 /\ e <= b + 1 /\ Spent + w + b <= Limit + e
        BY <3>1
      <4>3. time'.elapsed = e + g /\ time'.wall = w + g /\ time'.budget = b
        BY <3>4
      <4> HIDE DEF e, w, b
      <4>4. g \in Nat /\ g <= Grace
        BY ONLY <4>1, g \in 0..Grace
      <4> QED BY ONLY SMTT(30), <4>1, <4>2, <4>3, <4>4
    <3> QED BY ONLY <3>2, <3>5 DEF InBudget, Loop
  <2>4. CASE Settle
    BY SMTT(30), <2>4 DEF Settle
  <2>5. CASE OpenLog
    BY <2>5 DEF OpenLog, Here
  <2>6. CASE Refused \/ CleanUp \/ Kill
    BY <2>6 DEF Refused, CleanUp, Kill, Ended
  <2>7. CASE Lock \/ Preserve \/ Leave \/ Skip \/ WriteSkip \/ Interrupt
    BY <2>7 DEF Lock, Preserve, Leave, Skip, WriteSkip, Here, Interrupt
  <2>8. CASE Fork \/ PopenReturns \/ Reap
    <3>1. time' = time /\ <<pc, pc'>> \in {<<"launch", "popen">>, <<"popen", "watch">>,
                                        <<"watch", "write">>, <<"reap", "write">>}
      BY <2>8 DEF Fork, PopenReturns, Reap
    <3> QED BY ONLY SMTT(30), <1>2, <2>0, <3>1, ConstantsAssumption DEF InBudget, Loop
  <2>9. CASE Write
    BY SMTT(30), <2>9 DEF Write
  <2>10. CASE (\E j \in Jobs : Appear(j) \/ Exit(j)) \/ UNCHANGED vars
    BY <2>10 DEF Appear, Exit, vars
  <2> QED BY <2>1, <2>2, <2>3, <2>4, <2>5, <2>6, <2>7, <2>8, <2>9, <2>10 DEF Next, DriverStep
<1> QED BY <1>1, <1>3, <1>5 DEF BudgetInv

\* Every step keeps the budget: only Write records time, that of a job that was stopped in time.
LEMMA BudgetKept == ASSUME IInv, SkipInv, Values, BudgetInv, [Next]_vars PROVE BudgetInv'
<1> USE ConstantsAssumption
<1>1. Spent \in Nat /\ time \in [elapsed : Nat, wall : Nat, budget : Nat]
  BY SpentInNat DEF BudgetInv, Values
<1>2. CASE Write
  <2>1. Job \in Jobs /\ ~Recorded(Job) /\ result[Job].wall = 0
    BY <1>2, JobInJobs DEF Write, IInv, PlaceInv, Attempt, Recorded, BudgetInv
  <2>2. /\ result'[Job].wall = time.wall /\ result'[Job].state = "done"
        /\ \A i \in Jobs : i # Job => result'[i] = result[i]
    BY <1>2, <2>1 DEF Write, Result, IInv, Shape
  <2>3. IsFiniteSet(Polls') /\ Spent' = Spent + time.wall
    BY <1>1, <2>1, <2>2, ResultAdds DEF BudgetInv
  <2>4. \A j \in Jobs : ~Recorded(j)' => result'[j].wall = 0
    BY <2>1, <2>2 DEF BudgetInv, Recorded
  <2>5. InBudget(pc, time, Spent) /\ pc = "write"
    BY <1>2 DEF Write, BudgetInv
  <2>6. Spent' <= Limit + 1 + Grace
    BY SMTT(30), <1>1, <2>3, <2>5 DEF InBudget, Loop
  <2>7. InBudget(pc', time', Spent')
    BY <1>1, <1>2, <2>3, <2>5 DEF Write, InBudget, Loop
  <2> QED BY <2>3, <2>4, <2>6, <2>7 DEF BudgetInv
<1>3. CASE Reap \/ Skip \/ WriteSkip
  <2>1. Job \in Jobs /\ ~Recorded(Job) /\ result[Job].wall = 0
    BY <1>3, JobInJobs
       DEF Reap, Skip, WriteSkip, Here, Fresh, IInv, SkipInv, PlaceInv, Attempt, Recorded, BudgetInv
  <2>2. /\ result'[Job].wall = 0
        /\ \A i \in Jobs : i # Job => result'[i] = result[i]
    BY <1>3, <2>1 DEF Reap, Skip, WriteSkip, Result, IInv, Shape
  <2>3. Polls' = Polls /\ Spent' = Spent
    BY <2>1, <2>2, SameWallsSamePolls DEF Spent
  <2>4. \A j \in Jobs : ~Recorded(j)' => result'[j].wall = 0
    BY <2>1, <2>2 DEF BudgetInv, Recorded
  <2>5. InBudget(pc', time', Spent)
    <3>1. InBudget(pc, time, Spent)
      BY DEF BudgetInv
    <3>2. CASE Reap
      BY SMTT(30), <1>1, <3>1, <3>2 DEF Reap, InBudget, Loop
    <3>3. CASE Skip \/ WriteSkip
      BY <3>1, <3>3 DEF Skip, WriteSkip, Here, InBudget, Loop
    <3> QED BY <1>3, <3>2, <3>3
  <2> QED BY <2>3, <2>4, <2>5 DEF BudgetInv
<1>4. CASE ~(Write \/ Reap \/ Skip \/ WriteSkip)
  <2>1. result' = result
    BY <1>4 DEF Next, DriverStep, Lock, Refused, Open, Preserve, Leave, OpenLog, Fork, PopenReturns,
       Poll, Stop, Settle, CleanUp, Interrupt, Kill, Appear, Exit, files, vars
  <2> QED BY <2>1, ClockKeepsBudget
<1> QED BY <1>2, <1>3, <1>4

\* Types and budget hold of every behaviour.
THEOREM Budgeted == Spec => [](Values /\ BudgetInv)
<1> QED BY Invariant, InitBudget, ValuesKept, BudgetKept, PTL DEF Spec

\* The variables keep their types.
THEOREM TypeCorrect == Spec => []TypeOK
<1>1. IInv /\ Values => TypeOK
  BY DEF IInv, Shape, Values, TypeOK
<1> QED BY Invariant, Budgeted, <1>1, PTL

\* All campaigns together record no more than the limit, a poll and the time to stop a job.
THEOREM BudgetHeld == Spec => []BudgetHolds
<1>1. BudgetInv => BudgetHolds
  BY DEF BudgetInv, BudgetHolds
<1> QED BY Budgeted, <1>1, PTL

\* Two jobs share the GPU only if a driver left one of them before it had its name.
THEOREM OneGpuWorkload == Spec => []OneWorkload
<1>1. ASSUME IInv PROVE OneWorkload
  BY <1>1 DEF IInv, Shape, WorkInv, OneWorkload
<1> QED BY Invariant, <1>1, PTL

\* A job outlives its driver only by SIGKILL, a failed cleanup or a signal within Popen.
THEOREM JobsEndWithDrivers == Spec => []JobsAreWatched
<1>1. ASSUME IInv PROVE JobsAreWatched
  BY <1>1 DEF IInv, WorkInv, JobsAreWatched
<1> QED BY Invariant, <1>1, PTL

\* Jobs are attempted after their prerequisite succeeded, and skipped after it failed.
THEOREM Dependents == Spec => []DependentsFollow
<1>1. ASSUME IInv PROVE DependentsFollow
  BY <1>1 DEF IInv
<1> QED BY Invariant, <1>1, PTL

\* No log is opened a second time and no result is written a second time.
THEOREM AttemptsPreserved == Spec => AttemptsKept
<1>1. IInv /\ SkipInv /\ [Next]_vars =>
        [\A j \in Jobs : /\ log[j] # 0 => log'[j] = log[j]
                         /\ Recorded(j) => result'[j] = result[j]]_vars
  <2> SUFFICES ASSUME IInv, SkipInv, Next
               PROVE  \A j \in Jobs : /\ log[j] # 0 => log'[j] = log[j]
                                      /\ Recorded(j) => result'[j] = result[j]
    OBVIOUS
  <2> USE DEF IInv, Shape
  <2>1. CASE OpenLog
    BY <2>1 DEF OpenLog, Fresh
  <2>2. CASE Skip \/ WriteSkip
    BY <2>2 DEF Skip, WriteSkip, Fresh, SkipInv, Recorded
  <2>3. CASE Reap \/ Write
    BY <2>3 DEF Reap, Write, PlaceInv, Attempt, Recorded
  <2>4. CASE ~(OpenLog \/ Skip \/ WriteSkip \/ Reap \/ Write)
    <3>1. UNCHANGED files
      BY <2>4 DEF Next, DriverStep, Lock, Refused, Open, Preserve, Leave, Fork,
         PopenReturns, Poll,
         Stop, Settle, CleanUp, Interrupt, Kill, Appear, Exit
    <3> QED BY <3>1 DEF files
  <2> QED BY <2>1, <2>2, <2>3, <2>4
<1> QED BY Invariant, <1>1, PTL DEF Spec, AttemptsKept
=============================================================================
