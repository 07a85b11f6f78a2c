------------------------- MODULE RunnerProcess_proofs -------------------------
(***************************************************************************)
(* One runner process: how it is stopped and how its output is judged.     *)
(*                                                                         *)
(* For any set of process ids and any number of stop() calls: AdbStop is   *)
(* type correct, a confirmed stop is final, only the owned process is      *)
(* killed, and the protocol implements Invocation.                         *)
(*                                                                         *)
(* For any number of samples, loop counts, warm-up dispatches and wrong    *)
(* results: Runner is type correct, an accepted row is complete and its    *)
(* last result was validated, and a healthy run is not rejected.           *)
(***************************************************************************)
EXTENDS AdbStop, Runner, FiniteSetTheorems, SequenceTheorems, TLAPS

-----------------------------------------------------------------------------
(* AdbStop: the launch script and the stop scripts. *)

\* The launch script either sees the .cancel file or has nothing left to run.
Harmless == launch \in {"sent", "started", "published", "gone"}

\* The live script or runner, and nothing else, is "owned" in the process table.
TableInv ==
  /\ Alive => pid \in Pids /\ table[pid] = "owned"
  /\ ~Alive => \A p \in Pids : table[p] # "owned"
  /\ \A p \in Pids : table[p] = "owned" => p = pid

\* The pid file exists before .cancel is looked for, and names the owned process.
RecordInv ==
  /\ launch \in {"sent", "started"} => ~pidfile
  /\ launch \in {"published", "checked", "running"} => pidfile
  /\ pidfile => pid \in Pids
  /\ \A k \in Stops : victim[k] # None => pidfile /\ victim[k] = pid
  /\ \A k \in Stops : script[k] \in {"read", "matched", "killed"} => victim[k] \in Pids

\* How far a stop script got says what the launch script can still do.
ScriptInv ==
  /\ \A k \in Stops : script[k] \notin {"none", "sent"} => cancel
  /\ \A k \in Stops : script[k] = "matched" => table[victim[k]] # "other"
  /\ \A k \in Stops : script[k] = "finished" => Harmless

\* What the controller was told.
ControlInv ==
  /\ client = "ok" => launch = "gone"
  /\ caller = "stopping" => calls \in Stops
  /\ confirmed => Harmless /\ (cancel \/ launch = "gone")
  /\ ~innocent

IInv == TypeOK /\ TableInv /\ RecordInv /\ ScriptInv /\ ControlInv

LEMMA IInvInit == Init => IInv
<1> SUFFICES ASSUME Init
             PROVE  IInv
  OBVIOUS
<1> USE ConstantsAssumption DEF Init, Stops
<1>1. TypeOK
  <2>1. table \in [Pids -> {"free", "other", "owned", "zombie"}]
    OBVIOUS
  <2>2. /\ script \in [Stops -> {"none", "sent", "touched", "read", "matched",
                                 "killed", "finished"}]
        /\ victim \in [Stops -> Pids \cup {None}]
    OBVIOUS
  <2>3. calls \in 0..MaxStops
    OBVIOUS
  <2> QED
    BY <2>1, <2>2, <2>3 DEF TypeOK
<1>2. TableInv
  BY DEF TableInv, Alive
<1>3. RecordInv
  BY DEF RecordInv
<1>4. ScriptInv
  BY DEF ScriptInv
<1>5. ControlInv
  BY DEF ControlInv, Harmless
<1> QED
  BY <1>1, <1>2, <1>3, <1>4, <1>5 DEF IInv

LEMMA IInvNext == IInv /\ [Next]_vars => IInv'
<1> SUFFICES ASSUME IInv, [Next]_vars
             PROVE  IInv'
  OBVIOUS
<1> USE ConstantsAssumption
    DEF IInv, TypeOK, TableInv, RecordInv, ScriptInv, ControlInv, Harmless, Alive,
        launchVars, scriptVars, controlVars
<1>1. ASSUME NEW p \in Pids, Start(p)
      PROVE  IInv'
  BY <1>1 DEF Start
<1>2. CASE Publish
  BY <1>2 DEF Publish
<1>3. CASE CheckCancel
  BY <1>3 DEF CheckCancel
<1>4. CASE Exec
  BY <1>4 DEF Exec
<1>5. ASSUME Alive, Gone
      PROVE  IInv'
  BY <1>5 DEF Gone
<1>6. CASE GiveUp
  BY <1>5, <1>6 DEF GiveUp
<1>7. CASE Exit
  BY <1>5, <1>7 DEF Exit
<1>8. CASE Die
  BY <1>5, <1>8 DEF Die
<1>9. ASSUME NEW k \in Stops, Touch(k)
      PROVE  IInv'
  BY <1>9 DEF Touch
<1>10. ASSUME NEW k \in Stops, ReadRecord(k)
       PROVE  IInv'
  BY <1>10 DEF ReadRecord
<1>11. ASSUME NEW k \in Stops, CompareStart(k)
       PROVE  IInv'
  BY <1>11 DEF CompareStart, SameStart
<1>12. ASSUME NEW k \in Stops, Kill(k)
       PROVE  IInv'
  BY <1>12 DEF Kill
<1>13. ASSUME NEW k \in Stops, WaitGone(k)
       PROVE  IInv'
  BY <1>13 DEF WaitGone
<1>14. CASE ClientReports
  BY <1>14 DEF ClientReports
<1>15. CASE ClientLost
  BY <1>15 DEF ClientLost
<1>16. CASE CleanReturn
  BY <1>16 DEF CleanReturn
<1>17. CASE BeginStop
  BY <1>17 DEF BeginStop, Stops
<1>18. CASE StopReturns
  BY <1>18 DEF StopReturns
<1>19. CASE StopRaises
  BY <1>19 DEF StopRaises
<1>20. ASSUME NEW p \in Pids, Reap(p)
       PROVE  IInv'
  BY <1>20 DEF Reap
<1>21. ASSUME NEW p \in Pids, Recycle(p)
       PROVE  IInv'
  BY <1>21 DEF Recycle
<1>22. ASSUME NEW p \in Pids, OtherExits(p)
       PROVE  IInv'
  BY <1>22 DEF OtherExits
<1>23. CASE UNCHANGED vars
  BY <1>23 DEF vars
<1> QED
  BY <1>1, <1>2, <1>3, <1>4, <1>6, <1>7, <1>8, <1>9, <1>10, <1>11, <1>12, <1>13,
     <1>14, <1>15, <1>16, <1>17, <1>18, <1>19, <1>20, <1>21, <1>22, <1>23
     DEF Next, LaunchStep, StopScriptStep, ControllerStep

-----------------------------------------------------------------------------

\* IInv holds in every reachable state: the facts about the two scripts that
\* the theorems below rest on.
THEOREM Inductive == Spec => []IInv
  BY IInvInit, IInvNext, PTL DEF Spec

\* The variables keep their types.
THEOREM TypeCorrect == Spec => []TypeOK
<1>1. IInv => TypeOK
  BY DEF IInv
<1> QED
  BY <1>1, Inductive, PTL

\* AdbDevice.stop and a clean exit are final: the runner of that invocation
\* neither executes nor will execute, however late its launch script starts.
THEOREM StopIsFinal == Spec => []StoppedForGood
<1>1. IInv => StoppedForGood
  BY DEF IInv, ControlInv, Harmless, StoppedForGood
<1> QED
  BY <1>1, Inductive, PTL

\* stop() signals no process but the one its invocation started.
THEOREM OnlyOwnedKilled == Spec => []KillsOnlyOwned
<1>1. IInv => KillsOnlyOwned
  BY DEF IInv, ControlInv, KillsOnlyOwned
<1> QED
  BY <1>1, Inductive, PTL

\* Every step of the two scripts and the controller is a step of Invocation or
\* leaves its state alone.
LEMMA StepRefines == IInv /\ [Next]_vars => [Promise!Next]_(Promise!vars)
<1> SUFFICES ASSUME IInv, [Next]_vars
             PROVE  [Promise!Next]_(Promise!vars)
  OBVIOUS
<1> USE DEF IInv, TypeOK, ControlInv, Harmless, Alive, launchVars, scriptVars,
            controlVars, Promise!Next, Promise!Begin, Promise!End,
            Promise!Confirm, Promise!vars
<1>1. ASSUME NEW p \in Pids, Start(p)
      PROVE  UNCHANGED Promise!vars
  BY <1>1 DEF Start
<1>2. CASE Publish
  BY <1>2 DEF Publish
<1>3. CASE CheckCancel
  BY <1>3 DEF CheckCancel
<1>4. CASE Exec
  BY <1>4 DEF Exec
<1>5. CASE GiveUp \/ Exit \/ Die
  BY <1>5 DEF GiveUp, Exit, Die, Gone
<1>6. ASSUME NEW k \in Stops, StopScriptStep(k)
      PROVE  UNCHANGED Promise!vars
  BY <1>6 DEF StopScriptStep, Touch, ReadRecord, CompareStart, Kill, WaitGone
<1>7. CASE CleanReturn \/ StopReturns
  BY <1>7 DEF CleanReturn, StopReturns, ScriptInv
<1>8. CASE ClientReports \/ ClientLost \/ BeginStop \/ StopRaises
  BY <1>8 DEF ClientReports, ClientLost, BeginStop, StopRaises
<1>9. ASSUME NEW p \in Pids, Reap(p) \/ Recycle(p) \/ OtherExits(p)
      PROVE  UNCHANGED Promise!vars
  BY <1>9 DEF Reap, Recycle, OtherExits
<1>10. CASE UNCHANGED vars
  BY <1>10 DEF vars
<1> QED
  BY <1>1, <1>2, <1>3, <1>4, <1>5, <1>6, <1>7, <1>8, <1>9, <1>10
     DEF Next, LaunchStep, ControllerStep

\* AdbStop implements Invocation: the device may be released once it confirms.
THEOREM Implements == Spec => ImplementsInvocation
<1>1. Init => Promise!Init
  BY DEF Init, Promise!Init
<1> QED
  BY <1>1, StepRefines, Inductive, PTL
     DEF Spec, ImplementsInvocation, Promise!Spec

-----------------------------------------------------------------------------
(* Runner: what the process prints.                                        *)
(*                                                                         *)
(* What was put out so far, in the file or still in the stdio buffer, is   *)
(* one sequence.  Its invariant says where the validations stand among the *)
(* samples; flushing leaves it alone, and a crash keeps a prefix of it.    *)

\* The events of a stream.
Events ==
  [event : {"schema", "validation_failed", "torn"}]
  \cup [event : {"validation_pre"}, pass : BOOLEAN]
  \cup [event : {"sample"}, sample : Nat, loops : Nat]
  \cup [event : {"sample_half"}, sample : Nat]
  \cup [event : {"validation_post"}, sample : Int, loops : Nat, pass : BOOLEAN]

\* All that the runner has put out, and where in it the events of a name are.
Stream == file \o out
At(name, s) == {j \in DOMAIN s : s[j].event = name}

PreEvent == [event |-> "validation_pre", pass |-> TRUE]
PostEvent == [event |-> "validation_post", sample |-> i - 1, loops |-> loops, pass |-> TRUE]

\* Full-length samples taken.
Taken == IF pc \in {"half_after", "flush"} THEN i + 1 ELSE i

\* s holds the samples 0 .. k - 1 of l loops, in this order.
Holds(s, k, l) ==
  /\ IsFiniteSet(At("sample", s)) /\ Cardinality(At("sample", s)) = k
  /\ \A j \in At("sample", s) : s[j].sample \in 0..(k - 1) /\ s[j].loops = l
  /\ \A j1, j2 \in At("sample", s) : j1 < j2 => s[j1].sample < s[j2].sample
  /\ \A m \in 0..(k - 1) : \E j \in At("sample", s) : s[j].sample = m

\* The event stands once in s, before all samples, or after them.
OnceBefore(event, s) ==
  \E p \in DOMAIN s : /\ At(event.event, s) = {p} /\ s[p] = event
                      /\ \A j \in At("sample", s) : p < j
OnceAfter(event, s) ==
  \E p \in DOMAIN s : /\ At(event.event, s) = {p} /\ s[p] = event
                      /\ \A j \in At("sample", s) : j < p

\* Before the first validation of the calibrated loop count.
Early == {"start", "sanity", "calibrate", "pre"}

\* As long as the runner has not failed, the stream is complete and in order.
StreamInv(s) ==
  /\ IsFiniteSet(At("sample", s)) /\ Cardinality(At("sample", s)) <= i + 1
  /\ Live \/ rc = 0 =>
       /\ Holds(s, Taken, loops)
       /\ At("torn", s) = {}
       /\ pc # "start" => At("schema", s) # {}
       /\ IF pc \in Early THEN At("validation_pre", s) = {} ELSE OnceBefore(PreEvent, s)
       /\ IF Live THEN At("validation_post", s) = {} ELSE OnceAfter(PostEvent, s)

Last == IF config.timed THEN MaxSamples ELSE Samples

\* Where the runner is.
PhaseInv ==
  /\ Live => rc = 0
  /\ pc \in Early \cup {"half", "check_half", "warm"} => i = 0
  /\ pc \in {"sampling", "full", "half_after", "flush"} => i < Last
  /\ pc \in Early \cup {"half", "check_half"} => warm = 0
  /\ pc = "warm" => warm < WarmCap
  /\ pc \in {"half", "check_half"} => Differs
  /\ pc = "full" => HalfFirst
  /\ pc = "half_after" => Differs /\ ~HalfFirst
  /\ pc = "post" \/ (~Live /\ rc = 0) => i > 0 /\ (~config.timed => i = Samples)
  /\ pc \in {"post", "dead"} => out = <<>>
  /\ pc = "start" => file = <<>> /\ out = <<>>

\* Whose result the buffer holds: what a validation is about to read was written by the
\* dispatch that it is meant for, and the last one by the final sample.
BufferInv ==
  /\ Live /\ pc # "start" /\ corruptions = 0 => buffer.good
  /\ pc = "sanity" => buffer.loops = 2
  /\ pc = "pre" => buffer.loops = loops
  /\ pc = "check_half" => buffer.loops = loops \div 2
  /\ pc = "post" \/ (pc = "flush" /\ (Differs => HalfFirst)) =>
       buffer.loops = loops /\ final = buffer.good
  /\ ~Live /\ rc = 0 => final
  /\ rc = 3 => corruptions > 0

\* What has been made of it.
JudgeInv ==
  /\ n \in 0..(i + 1)
  /\ outcome \in {"accepted", "rejected"} => pc = "dead"
  /\ outcome = "accepted" => rc = 0 /\ n = i
  /\ outcome = "rejected" /\ rc = 0 => faulted

TypeInv ==
  /\ config \in [differential : BOOLEAN, timed : BOOLEAN, sensitive : BOOLEAN]
  /\ pc \in {"start", "sanity", "calibrate", "pre", "half", "check_half", "warm",
             "sampling", "full", "half_after", "flush", "post", "exited", "dead"}
  /\ loops \in LoopChoices \cup {1} /\ warm \in 0..WarmCap
  /\ i \in 0..Last
  /\ buffer \in [loops : Nat, good : BOOLEAN]
  /\ rc \in {-9, 0, 2, 3}
  /\ outcome \in {"none", "accepted", "rejected", "raised"}
  /\ faulted \in BOOLEAN
  /\ corruptions \in 0..MaxCorruptions /\ final \in BOOLEAN
  /\ {file, out} \subseteq Seq(Events)

RunnerInv == TypeInv /\ PhaseInv /\ BufferInv /\ StreamInv(Stream) /\ JudgeInv

-----------------------------------------------------------------------------
(* Streams. *)

\* Where the events of a name are when one more is put out.
LEMMA AtAppend ==
  ASSUME NEW s \in Seq(Events), NEW e \in Events, NEW name
  PROVE  /\ At(name, s) \subseteq 1..Len(s)
         /\ e.event = name => At(name, Append(s, e)) = At(name, s) \cup {Len(s) + 1}
         /\ e.event # name => At(name, Append(s, e)) = At(name, s)
<1> DEFINE t == Append(s, e)
<1>1. /\ t \in Seq(Events) /\ Len(s) \in Nat
      /\ DOMAIN s = 1..Len(s) /\ DOMAIN t = 1..(Len(s) + 1)
      /\ \A j \in 1..Len(s) : t[j] = s[j]
      /\ t[Len(s) + 1] = e
  OBVIOUS
<1> HIDE DEF t
<1>2. /\ At(name, s) \subseteq 1..Len(s)
      /\ e.event = name => At(name, t) = At(name, s) \cup {Len(s) + 1}
      /\ e.event # name => At(name, t) = At(name, s)
  BY <1>1 DEF At
<1> QED BY <1>2 DEF t

\* What is put out goes to the end of the stream.
LEMMA ConcatAppend ==
  ASSUME NEW s \in Seq(Events), NEW t \in Seq(Events), NEW e \in Events
  PROVE  Append(s \o t, e) = s \o Append(t, e)
<1>1. Append(t, e) = t \o <<e>> /\ <<e>> \in Seq(Events)
  BY AppendIsConcat
<1>2. (s \o t) \o <<e>> = s \o (t \o <<e>>)
  BY <1>1, ConcatAssociative
<1>3. Append(s \o t, e) = (s \o t) \o <<e>>
  BY AppendIsConcat, ConcatProperties
<1> QED BY <1>1, <1>2, <1>3

LEMMA PutsStream ==
  ASSUME {file, out} \subseteq Seq(Events), NEW e \in Events, Puts(e), file' = file
  PROVE  Stream' = Append(Stream, e) /\ {file', out'} \subseteq Seq(Events)
<1>1. out' = Append(out, e) /\ out' \in Seq(Events)
  BY DEF Puts
<1> QED BY <1>1, ConcatAppend DEF Stream

LEMMA StreamInSeq ==
  ASSUME {file, out} \subseteq Seq(Events)
  PROVE  Stream \in Seq(Events) /\ (out = <<>> => Stream = file)
  BY ConcatProperties, ConcatEmptySeq DEF Stream

\* What is written is no longer in the buffer.
LEMMA WrittenStream ==
  ASSUME {file, out} \subseteq Seq(Events), file' = file \o out, out' = <<>>
  PROVE  Stream' = Stream /\ {file', out'} \subseteq Seq(Events)
  BY StreamInSeq, ConcatEmptySeq, EmptySeq DEF Stream

LEMMA WrittenLast ==
  ASSUME {file, out} \subseteq Seq(Events), NEW e \in Events, out = <<>>,
         file' = Append(file, e), out' = out
  PROVE  Stream' = Append(Stream, e) /\ {file', out'} \subseteq Seq(Events)
  BY StreamInSeq, ConcatEmptySeq, EmptySeq, AppendProperties DEF Stream

\* An event of another name leaves what is said of a stream.
LEMMA HoldsStill ==
  ASSUME NEW s \in Seq(Events), NEW e \in Events, e.event # "sample", NEW k, NEW l,
         Holds(s, k, l)
  PROVE  Holds(Append(s, e), k, l)
<1> DEFINE t == Append(s, e)
<1>1. At("sample", t) = At("sample", s) /\ \A j \in At("sample", s) : t[j] = s[j]
  BY AtAppend, AppendProperties
<1> HIDE DEF t
<1> QED BY <1>1 DEF Holds, t

\* Nor does it move what stands before the samples.
LEMMA OnceStill ==
  ASSUME NEW s \in Seq(Events), NEW e \in Events, NEW event, e.event # event.event,
         OnceBefore(event, s)
  PROVE  OnceBefore(event, Append(s, e))
<1> DEFINE t == Append(s, e)
<1>1. PICK p \in DOMAIN s : /\ At(event.event, s) = {p} /\ s[p] = event
                            /\ \A j \in At("sample", s) : p < j
  BY DEF OnceBefore
<1>2. /\ t[p] = event /\ p \in DOMAIN t /\ p < Len(s) + 1
      /\ At("sample", t) \subseteq At("sample", s) \cup {Len(s) + 1}
  <2>1. p \in 1..Len(s) /\ t[p] = s[p] /\ DOMAIN t = 1..(Len(s) + 1) /\ Len(s) \in Nat
    BY <1>1
  <2>2. At("sample", t) \subseteq At("sample", s) \cup {Len(s) + 1}
    BY AtAppend
  <2> QED BY <1>1, <2>1, <2>2
<1>3. At(event.event, t) = {p}
  BY <1>1, AtAppend
<1> HIDE DEF t
<1> QED BY <1>1, <1>2, <1>3 DEF OnceBefore, t

\* One more sample.
LEMMA HoldsMore ==
  ASSUME NEW s \in Seq(Events), NEW k \in Nat, NEW l \in Nat, Holds(s, k, l)
  PROVE  Holds(Append(s, [event |-> "sample", sample |-> k, loops |-> l]), k + 1, l)
<1> DEFINE e == [event |-> "sample", sample |-> k, loops |-> l]
           t == Append(s, e)
           new == Len(s) + 1
<1>1. e \in Events
  BY DEF Events
<1>2. /\ At("sample", t) = At("sample", s) \cup {new}
      /\ At("sample", s) \subseteq 1..Len(s)
      /\ \A j \in At("sample", s) : t[j] = s[j]
      /\ t[new] = e
  BY <1>1, AtAppend, AppendProperties
<1>3. new \in Nat /\ new \notin At("sample", s) /\ \A j \in At("sample", s) : j \in Nat /\ j < new
  BY <1>2
<1>4. e.sample = k /\ e.loops = l
  OBVIOUS
<1>5. /\ IsFiniteSet(At("sample", s)) /\ Cardinality(At("sample", s)) = k
      /\ \A j \in At("sample", s) : s[j].sample \in 0..(k - 1) /\ s[j].loops = l
      /\ \A j1, j2 \in At("sample", s) : j1 < j2 => s[j1].sample < s[j2].sample
      /\ \A m \in 0..(k - 1) : \E j \in At("sample", s) : s[j].sample = m
  BY DEF Holds
<1> HIDE DEF t, new, e
<1>6. IsFiniteSet(At("sample", t)) /\ Cardinality(At("sample", t)) = k + 1
  <2> DEFINE old == At("sample", s)
  <2>1. IsFiniteSet(old) /\ Cardinality(old) = k /\ new \notin old
    BY <1>3, <1>5
  <2> HIDE DEF old
  <2>2. IsFiniteSet(old \cup {new}) /\ Cardinality(old \cup {new}) = k + 1
    BY <2>1, FS_AddElement
  <2> QED BY <1>2, <2>2 DEF old
<1>7. \A j \in At("sample", t) : t[j].sample \in 0..k /\ t[j].loops = l
  BY <1>2, <1>4, <1>5
<1>8. \A j1, j2 \in At("sample", t) : j1 < j2 => t[j1].sample < t[j2].sample
  <2> TAKE j1, j2 \in At("sample", t)
  <2> HAVE j1 < j2
  <2>1. j1 \in At("sample", s) /\ t[j1] = s[j1] /\ s[j1].sample \in 0..(k - 1)
    BY SMTT(30), <1>2, <1>3, <1>5
  <2>2. CASE j2 = new
    BY <1>2, <1>4, <2>1, <2>2
  <2>3. CASE j2 # new
    BY <1>2, <1>5, <2>1, <2>3
  <2> QED BY <2>2, <2>3
<1>9. \A m \in 0..k : \E j \in At("sample", t) : t[j].sample = m
  <2> TAKE m \in 0..k
  <2>1. CASE m = k
    BY <1>2, <1>4, <2>1
  <2>2. CASE m # k
    <3>1. PICK j \in At("sample", s) : s[j].sample = m
      BY <1>5, <2>2
    <3> QED BY <1>2, <3>1
  <2> QED BY <2>1, <2>2
<1>10. Holds(t, k + 1, l)
  BY <1>6, <1>7, <1>8, <1>9 DEF Holds
<1> QED BY <1>10 DEF t, e

-----------------------------------------------------------------------------
(* The steps, part by part of the invariant. *)

\* A step dispatches, or leaves the buffer.
LEMMA Dispatches ==
  ASSUME TypeInv, [RunnerNext]_runnerVars
  PROVE  \/ \E its \in Nat : Execute(its)
         \/ UNCHANGED <<buffer, corruptions>>
<1> USE RunnerAssumption
<1>1. loops \in Nat /\ loops \div 2 \in Nat
  BY DEF TypeInv
<1>2. CASE Begin
  BY <1>2 DEF Begin
<1>3. CASE Calibrate
  BY <1>3 DEF Calibrate
<1>4. CASE Half \/ WarmUp \/ SampleHalf \/ Sample
  BY <1>1, <1>4 DEF Half, WarmUp, SampleHalf, Sample
<1>5. CASE ~(Begin \/ Calibrate \/ Half \/ WarmUp \/ SampleHalf \/ Sample)
  BY <1>5 DEF RunnerNext, RunnerStep, Sanity, Pre, CheckHalf, NoWarmUp, Flush, Post, Throws,
     FlushAtExit, Crash, Judge, TimeLimit, state, runnerVars
<1> QED BY <1>2, <1>3, <1>4, <1>5

LEMMA BufferTyped ==
  ASSUME TypeInv, [RunnerNext]_runnerVars
  PROVE  /\ buffer' \in [loops : Nat, good : BOOLEAN]
         /\ corruptions' \in 0..MaxCorruptions /\ corruptions' >= corruptions
<1> USE RunnerAssumption
<1>1. ASSUME NEW its \in Nat, Execute(its)
      PROVE  /\ buffer' \in [loops : Nat, good : BOOLEAN]
             /\ corruptions' \in 0..MaxCorruptions /\ corruptions' >= corruptions
  <2>1. PICK good \in BOOLEAN : /\ good \/ corruptions < MaxCorruptions
                                /\ buffer' = [loops |-> its, good |-> good]
                                /\ corruptions' = corruptions + (IF good THEN 0 ELSE 1)
    BY <1>1 DEF Execute
  <2>2. buffer' \in [loops : Nat, good : BOOLEAN]
    BY <2>1
  <2>3. CASE good = TRUE
    BY <2>1, <2>3 DEF TypeInv
  <2>4. CASE good = FALSE
    BY <2>1, <2>4 DEF TypeInv
  <2> QED BY <2>2, <2>3, <2>4
<1> QED BY <1>1, Dispatches DEF TypeInv

LEMMA ConfigKept == ASSUME [RunnerNext]_runnerVars PROVE config' = config
  BY DEF RunnerNext, RunnerStep, Begin, Sanity, Calibrate, Pre, Half, CheckHalf, WarmUp, NoWarmUp,
     SampleHalf, Sample, Flush, Post, Throws, FlushAtExit, Crash, Judge, TimeLimit, state, runnerVars

\* The order of the phases, and the bounds of the two loops.
LEMMA ControlKept ==
  ASSUME TypeInv, PhaseInv, [RunnerNext]_runnerVars
  PROVE  PhaseInv'
<1> USE RunnerAssumption, ConfigKept
    DEF PhaseInv, Early, Live, Last, Returns, HalfFirst, Differs, state, judgement
<1>0. i \in Int /\ warm \in Nat /\ loops \in Nat /\ Samples \in Nat /\ MaxSamples \in Nat /\ WarmCap \in Nat
  BY DEF TypeInv
<1>1. CASE Begin
  BY <1>1 DEF Begin
<1>2. CASE Sanity
  BY <1>2 DEF Sanity
<1>3. CASE Calibrate
  BY <1>3 DEF Calibrate
<1>4. CASE Pre
  BY <1>0, <1>4 DEF Pre
<1>5. CASE Half
  BY <1>5 DEF Half
<1>6. CASE CheckHalf
  BY <1>6 DEF CheckHalf
<1>7. CASE WarmUp
  BY <1>0, <1>7 DEF WarmUp
<1>8. CASE NoWarmUp
  BY <1>0, <1>8 DEF NoWarmUp
<1>9. CASE SampleHalf \/ Sample
  BY <1>9 DEF SampleHalf, Sample, TypeInv
<1>10. CASE Flush
  BY <1>10 DEF Flush, TypeInv
<1>11. CASE Post
  BY <1>11 DEF Post
<1>12. CASE Throws \/ FlushAtExit
  BY <1>12 DEF Throws, FlushAtExit
<1>13. CASE Crash
  BY <1>13 DEF Crash
<1>14. CASE Judge \/ TimeLimit \/ UNCHANGED runnerVars
  BY <1>14 DEF Judge, TimeLimit, runnerVars
<1> QED BY <1>1, <1>2, <1>3, <1>4, <1>5, <1>6, <1>7, <1>8, <1>9, <1>10, <1>11, <1>12, <1>13, <1>14
        DEF RunnerNext, RunnerStep

\* Whose result is in the buffer.
LEMMA BufferKept ==
  ASSUME TypeInv, PhaseInv, BufferInv, [RunnerNext]_runnerVars
  PROVE  BufferInv'
<1> USE RunnerAssumption, ConfigKept
    DEF BufferInv, Live, Returns, HalfFirst, Differs, state, judgement
<1>0. /\ i \in Int /\ loops \in Nat /\ Samples \in Nat /\ corruptions \in Nat
      /\ buffer \in [loops : Nat, good : BOOLEAN]
  BY DEF TypeInv
<1>1. CASE Begin \/ Calibrate \/ Half \/ WarmUp
  BY <1>0, <1>1 DEF Begin, Calibrate, Half, WarmUp, Execute, PhaseInv
<1>2. CASE Sanity
  BY <1>0, <1>2 DEF Sanity, Passes
<1>3. CASE Pre
  BY <1>0, <1>3 DEF Pre, Passes
<1>4. CASE CheckHalf
  BY <1>0, <1>4 DEF CheckHalf, Passes
<1>5. CASE NoWarmUp
  BY <1>5 DEF NoWarmUp
<1>6. CASE SampleHalf
  BY <1>0, <1>6 DEF SampleHalf, Execute, PhaseInv
<1>7. CASE Sample
  BY <1>0, <1>7 DEF Sample, Execute
<1>8. CASE Flush
  BY <1>0, <1>8 DEF Flush, PhaseInv, Last
<1>9. CASE Post
  BY <1>0, <1>9 DEF Post, Passes
<1>10. CASE Throws \/ FlushAtExit \/ Crash
  <2>1. buffer' = buffer /\ corruptions' = corruptions /\ final' = final
    BY <1>10 DEF Throws, FlushAtExit, Crash
  <2>2. \/ pc' = "exited" /\ rc' = 2
        \/ pc = "exited" /\ pc' = "dead" /\ rc' = rc
        \/ pc' = "dead" /\ rc' = -9
    BY <1>10 DEF Throws, FlushAtExit, Crash
  <2> QED BY <2>1, <2>2
<1>11. CASE Judge \/ TimeLimit \/ UNCHANGED runnerVars
  BY <1>11 DEF Judge, TimeLimit, runnerVars
<1> QED BY <1>1, <1>2, <1>3, <1>4, <1>5, <1>6, <1>7, <1>8, <1>9, <1>10, <1>11
        DEF RunnerNext, RunnerStep

-----------------------------------------------------------------------------
(* The stream. *)

\* Nothing is put out.
LEMMA SameStream ==
  ASSUME StreamInv(Stream), Stream' = Stream, loops' = loops, i \in Int, i' \in Int, i' >= i,
         Live' \/ rc' = 0 => Taken' = Taken /\ (Live \/ rc = 0) /\ (Live' <=> Live),
         Live' => (pc' \in Early <=> pc \in Early),
         pc = "start" => pc' = "start",
         ~Live' => i' = i /\ pc' \notin Early
  PROVE  StreamInv(Stream)'
<1>1. IsFiniteSet(At("sample", Stream')) /\ Cardinality(At("sample", Stream')) <= i' + 1
  BY FS_CardinalityType DEF StreamInv, At
<1> SUFFICES ASSUME Live' \/ rc' = 0
             PROVE  /\ Holds(Stream', Taken', loops')
                    /\ At("torn", Stream') = {}
                    /\ pc' # "start" => At("schema", Stream') # {}
                    /\ IF pc' \in Early THEN At("validation_pre", Stream') = {}
                       ELSE OnceBefore(PreEvent, Stream')
                    /\ IF Live' THEN At("validation_post", Stream') = {}
                       ELSE OnceAfter(PostEvent', Stream')
  BY <1>1 DEF StreamInv, At, Holds, OnceBefore, OnceAfter, PreEvent
<1>2. PostEvent' = PostEvent \/ Live'
  BY DEF PostEvent
<1>3. pc \notin Early \/ Live
  BY DEF Early, Live
<1> QED BY <1>2, <1>3 DEF StreamInv

\* The runner has ended without success: nothing is said but how many samples there are.
LEMMA EndedStream ==
  ASSUME StreamInv(Stream), At("sample", Stream') \subseteq At("sample", Stream),
         i' = i, i \in Int, ~Live', rc' # 0
  PROVE  StreamInv(Stream)'
<1>1. /\ IsFiniteSet(At("sample", Stream)) /\ Cardinality(At("sample", Stream)) \in Nat
      /\ Cardinality(At("sample", Stream)) <= i + 1
  BY FS_CardinalityType DEF StreamInv
<1>2. /\ IsFiniteSet(At("sample", Stream')) /\ Cardinality(At("sample", Stream')) \in Nat
      /\ Cardinality(At("sample", Stream')) <= Cardinality(At("sample", Stream))
  BY <1>1, FS_Subset, FS_CardinalityType
<1> QED BY <1>1, <1>2 DEF StreamInv, At

\* A concatenation, index by index.
LEMMA ConcatAt ==
  ASSUME NEW s \in Seq(Events), NEW t \in Seq(Events)
  PROVE  /\ s \o t \in Seq(Events)
         /\ Len(s) \in Nat /\ Len(t) \in Nat /\ Len(s \o t) = Len(s) + Len(t)
         /\ DOMAIN (s \o t) = 1..(Len(s) + Len(t))
         /\ \A j \in 1..Len(s) : (s \o t)[j] = s[j]
         /\ \A j \in 1..(Len(s) + Len(t)) : j > Len(s) =>
              j - Len(s) \in 1..Len(t) /\ (s \o t)[j] = t[j - Len(s)]
<1>1. /\ s \o t \in Seq(Events) /\ Len(s \o t) = Len(s) + Len(t)
      /\ Len(s) \in Nat /\ Len(t) \in Nat
      /\ \A j \in 1..(Len(s) + Len(t)) : (s \o t)[j] = IF j <= Len(s) THEN s[j] ELSE t[j - Len(s)]
  BY ConcatProperties, LenProperties
<1> DEFINE whole == s \o t
<1>2. DOMAIN whole = 1..Len(whole)
  BY <1>1
<1> QED BY <1>1, <1>2

\* A crash keeps a prefix of what was in the buffer, and may cut a line.
LEMMA CrashStream ==
  ASSUME {file, out} \subseteq Seq(Events), Crash
  PROVE  /\ {file', out'} \subseteq Seq(Events)
         /\ At("sample", Stream') \subseteq At("sample", Stream)
<1>1. PICK k \in 0..Len(out), torn \in BOOLEAN :
        file' = file \o SubSeq(out, 1, k)
                     \o (IF torn /\ k < Len(out) THEN <<[event |-> "torn"]>> ELSE <<>>)
  BY DEF Crash
<1> DEFINE kept == SubSeq(out, 1, k)
           rest == IF torn /\ k < Len(out) THEN <<[event |-> "torn"]>> ELSE <<>>
<1>2. /\ kept \in Seq(Events) /\ Len(kept) = k
      /\ \A j \in 1..k : kept[j] = out[j]
      /\ k \in 0..Len(out) /\ Len(out) \in Nat /\ Len(file) \in Nat
  <2>1. k \in Int /\ \A j \in 1..k : out[j] \in Events
    OBVIOUS
  <2> QED BY <2>1, SubSeqProperties
<1>3. rest \in Seq(Events) /\ \A j \in DOMAIN rest : rest[j].event # "sample"
  <2>1. [event |-> "torn"] \in Events
    BY DEF Events
  <2>2. CASE torn /\ k < Len(out)
    BY <2>1, <2>2
  <2>3. CASE ~(torn /\ k < Len(out))
    BY <2>3
  <2> QED BY <2>2, <2>3
<1>4. Stream' = (file \o kept) \o rest
  <2>1. (file \o kept) \o rest \in Seq(Events) /\ out' = <<>>
    BY <1>2, <1>3, ConcatProperties DEF Crash
  <2> QED BY <1>1, <2>1, ConcatEmptySeq DEF Stream
<1> HIDE DEF kept, rest
<1> DEFINE head == file \o kept
<1>5. /\ head \in Seq(Events) /\ Len(head) = Len(file) + k
      /\ \A j \in 1..(Len(file) + k) : head[j] = Stream[j]
      /\ DOMAIN Stream = 1..(Len(file) + Len(out))
  <2>1. /\ head \in Seq(Events) /\ Len(head) = Len(file) + k
        /\ DOMAIN Stream = 1..(Len(file) + Len(out))
    BY <1>2, ConcatAt DEF Stream
  <2>2. ASSUME NEW j \in 1..(Len(file) + k) PROVE head[j] = Stream[j]
    <3>1. CASE j <= Len(file)
      <4>1. j \in 1..Len(file)
        BY <1>2, <3>1
      <4> QED BY <1>2, <4>1, ConcatAt DEF Stream
    <3>2. CASE j > Len(file)
      <4>1. head[j] = kept[j - Len(file)]
        BY <1>2, <3>2, ConcatAt
      <4>2. Stream[j] = out[j - Len(file)]
        BY <1>2, <3>2, ConcatAt DEF Stream
      <4>3. j - Len(file) \in 1..k
        BY <1>2, <3>2
      <4> QED BY <1>2, <4>1, <4>2, <4>3
    <3> QED BY <1>2, <3>1, <3>2
  <2> QED BY <2>1, <2>2
<1> HIDE DEF head
<1>6. \A j \in DOMAIN Stream' :
        \/ j \in 1..(Len(file) + k) /\ Stream'[j] = Stream[j]
        \/ Stream'[j].event # "sample"
  <2> SUFFICES ASSUME NEW j \in DOMAIN (head \o rest)
               PROVE  \/ j \in 1..(Len(file) + k) /\ (head \o rest)[j] = Stream[j]
                      \/ (head \o rest)[j].event # "sample"
    BY <1>4 DEF head
  <2>1. j \in 1..(Len(head) + Len(rest)) /\ Len(head) \in Nat /\ Len(rest) \in Nat
    BY <1>3, <1>5, ConcatAt
  <2>2. CASE j <= Len(head)
    <3>1. j \in 1..Len(head)
      BY <2>1, <2>2
    <3> QED BY <1>3, <1>5, <3>1, ConcatAt
  <2>3. CASE j > Len(head)
    <3>1. j - Len(head) \in DOMAIN rest /\ (head \o rest)[j] = rest[j - Len(head)]
      BY <1>3, <1>5, <2>1, <2>3, ConcatAt
    <3> QED BY <1>3, <3>1
  <2> QED BY <2>1, <2>2, <2>3
<1>7. At("sample", Stream') \subseteq At("sample", Stream)
  BY <1>2, <1>5, <1>6 DEF At
<1>8. file' \in Seq(Events) /\ out' \in Seq(Events)
  <2>1. file' = (file \o kept) \o rest
    BY <1>1 DEF kept, rest
  <2> QED BY <1>3, <1>5, <2>1, ConcatProperties, EmptySeq DEF Crash, head
<1> QED BY <1>7, <1>8

\* A half-length sample is none of the events that are looked for.
LEMMA HalfStream ==
  ASSUME StreamInv(Stream), Stream \in Seq(Events), NEW e \in Events,
         e.event = "sample_half", Stream' = Append(Stream, e), loops' = loops, i' = i,
         Live, Live', Taken' = Taken, pc \notin Early, pc' \notin Early
  PROVE  StreamInv(Stream)'
<1> DEFINE t == Append(Stream, e)
<1>1. /\ Holds(Stream, Taken, loops) /\ At("torn", Stream) = {} /\ At("schema", Stream) # {}
      /\ OnceBefore(PreEvent, Stream) /\ At("validation_post", Stream) = {}
      /\ IsFiniteSet(At("sample", Stream)) /\ Cardinality(At("sample", Stream)) <= i + 1
  BY DEF StreamInv, Early
<1>2. At("sample", t) = At("sample", Stream)
  BY AtAppend
<1>3. At("torn", t) = {} /\ At("schema", t) # {}
  BY <1>1, AtAppend
<1>4. At("validation_post", t) = {}
  BY <1>1, AtAppend
<1>5. Holds(t, Taken, loops)
  BY <1>1, HoldsStill
<1>6. OnceBefore(PreEvent, t)
  BY <1>1, OnceStill DEF PreEvent
<1> HIDE DEF t
<1>7. Stream' = t /\ Taken' = Taken
  BY DEF t
<1>8. Holds(Stream, Taken, loops)' /\ IsFiniteSet(At("sample", Stream))'
      /\ (Cardinality(At("sample", Stream)) <= i + 1)'
  BY <1>1, <1>2, <1>5, <1>7 DEF Holds, At
<1>9. OnceBefore(PreEvent, Stream)'
  BY <1>6, <1>7 DEF OnceBefore, PreEvent, At
<1>10. /\ (At("torn", Stream) = {})' /\ (At("schema", Stream) # {})'
       /\ (At("validation_post", Stream) = {})'
  BY <1>3, <1>4, <1>7 DEF At
<1> QED BY <1>8, <1>9, <1>10 DEF StreamInv

\* The first event is the schema.
LEMMA BeginStream ==
  ASSUME TypeInv, PhaseInv, Begin
  PROVE  StreamInv(Stream)' /\ {file', out'} \subseteq Seq(Events)
<1> DEFINE e == [event |-> "schema"]
           t == Append(<<>>, e)
<1>1. e \in Events /\ <<>> \in Seq(Events) /\ Len(<<>>) = 0 /\ e.event = "schema"
  BY EmptySeq DEF Events
<1>2. Stream = <<>>
  BY <1>1, ConcatEmptySeq DEF Stream, PhaseInv, Begin
<1>3. Stream' = t /\ {file', out'} \subseteq Seq(Events)
  BY <1>1, <1>2, PutsStream DEF Begin, TypeInv
<1> HIDE DEF e
<1>4. \A name : name # "schema" => At(name, t) = {}
  BY <1>1, AtAppend DEF At
<1>5. At("schema", t) # {}
  BY <1>1, AtAppend DEF At
<1> HIDE DEF t
<1>6. IsFiniteSet(At("sample", t)) /\ Cardinality(At("sample", t)) = 0
  BY <1>4, FS_EmptySet
<1>7. Holds(t, 0, loops) /\ At("torn", t) = {} /\ At("validation_pre", t) = {}
      /\ At("validation_post", t) = {}
  BY <1>4, <1>6 DEF Holds
<1>8. pc' = "sanity" /\ i' = 0 /\ loops' = loops
  BY DEF Begin, PhaseInv, Early
<1>9. Live' /\ Taken' = 0 /\ pc' \in Early
  BY <1>8 DEF Live, Taken, Early
<1> QED BY <1>3, <1>5, <1>6, <1>7, <1>8, <1>9 DEF StreamInv, At, Holds

\* Calibration changes the loop count while there are no samples.
LEMMA CalibrateStream ==
  ASSUME TypeInv, PhaseInv, StreamInv(Stream), Calibrate
  PROVE  StreamInv(Stream)'
<1>1. pc = "calibrate" /\ pc' = "pre" /\ i = 0 /\ i' = 0 /\ Stream' = Stream
  BY DEF Calibrate, PhaseInv, Early, Stream
<1>2. Live /\ Live' /\ Taken = 0 /\ Taken' = 0 /\ pc \in Early /\ pc' \in Early
  BY <1>1 DEF Live, Taken, Early
<1>3. Holds(Stream, 0, loops)
  BY <1>2 DEF StreamInv
<1>4. At("sample", Stream) = {}
  BY <1>3, FS_EmptySet DEF Holds
<1>5. Holds(Stream, 0, loops')
  BY <1>3, <1>4 DEF Holds
<1>6. Holds(Stream, 0, loops)' 
  BY <1>1, <1>5 DEF Holds, At
<1> QED BY <1>1, <1>2, <1>6 DEF StreamInv, At, OnceBefore

\* The first validation stands before all samples.
LEMMA PreStream ==
  ASSUME StreamInv(Stream), Stream \in Seq(Events), pc = "pre", i = 0, i' = 0, loops' = loops,
         Stream' = Append(Stream, PreEvent), pc' \in {"half", "warm"}
  PROVE  StreamInv(Stream)'
<1> DEFINE t == Append(Stream, PreEvent)
           new == Len(Stream) + 1
<1>1. PreEvent \in Events /\ PreEvent.event = "validation_pre"
  BY DEF PreEvent, Events
<1>2. Live /\ Live' /\ Taken = 0 /\ Taken' = 0 /\ pc \in Early /\ pc' \notin Early /\ pc' # "start"
  BY DEF Live, Taken, Early
<1>3. /\ Holds(Stream, 0, loops) /\ At("torn", Stream) = {} /\ At("schema", Stream) # {}
      /\ At("validation_pre", Stream) = {} /\ At("validation_post", Stream) = {}
      /\ IsFiniteSet(At("sample", Stream))
  BY <1>2 DEF StreamInv
<1>4. At("sample", Stream) = {}
  BY <1>3, FS_EmptySet DEF Holds
<1>5. /\ At("validation_pre", t) = {new} /\ t[new] = PreEvent /\ new \in DOMAIN t
      /\ At("sample", t) = {}
      /\ At("torn", t) = {} /\ At("schema", t) # {} /\ At("validation_post", t) = {}
  <2>1. /\ At("validation_pre", t) = At("validation_pre", Stream) \cup {new}
        /\ At("sample", t) = At("sample", Stream)
        /\ At("torn", t) = At("torn", Stream) /\ At("schema", t) = At("schema", Stream)
        /\ At("validation_post", t) = At("validation_post", Stream)
    BY <1>1, AtAppend
  <2>2. t[new] = PreEvent /\ new \in DOMAIN t
    BY <1>1
  <2> QED BY <1>3, <1>4, <2>1, <2>2
<1>6. OnceBefore(PreEvent, t)
  BY <1>1, <1>5 DEF OnceBefore
<1>7. Holds(t, 0, loops)
  BY <1>3, <1>4, <1>5 DEF Holds
<1> HIDE DEF t, new
<1>8. Stream' = t
  BY DEF t
<1>9. Holds(Stream, Taken, loops)' /\ IsFiniteSet(At("sample", Stream))'
      /\ (Cardinality(At("sample", Stream)) <= i + 1)'
  BY <1>2, <1>7, <1>8 DEF Holds, At
<1>10. OnceBefore(PreEvent, Stream)'
  BY <1>6, <1>8 DEF OnceBefore, PreEvent, At
<1>11. /\ (At("torn", Stream) = {})' /\ (At("schema", Stream) # {})'
       /\ (At("validation_post", Stream) = {})'
  BY <1>5, <1>8 DEF At
<1> QED BY <1>2, <1>9, <1>10, <1>11 DEF StreamInv

\* A full-length sample is the next one.
LEMMA SampleStream ==
  ASSUME StreamInv(Stream), Stream \in Seq(Events), i \in Nat, loops \in Nat,
         i' = i, loops' = loops, pc \in {"sampling", "full"}, pc' \in {"half_after", "flush"},
         Stream' = Append(Stream, [event |-> "sample", sample |-> i, loops |-> loops])
  PROVE  StreamInv(Stream)'
<1> DEFINE e == [event |-> "sample", sample |-> i, loops |-> loops]
           t == Append(Stream, e)
<1>1. e \in Events /\ e.event = "sample"
  BY DEF Events
<1>2. Live /\ Live' /\ Taken = i /\ Taken' = i + 1 /\ pc \notin Early /\ pc' \notin Early
  BY DEF Live, Taken, Early
<1>3. /\ Holds(Stream, i, loops) /\ At("torn", Stream) = {} /\ At("schema", Stream) # {}
      /\ OnceBefore(PreEvent, Stream) /\ At("validation_post", Stream) = {}
  BY <1>2 DEF StreamInv, Early
<1>4. Holds(t, i + 1, loops)
  BY <1>3, HoldsMore
<1> HIDE DEF e
<1>5. At("torn", t) = {} /\ At("schema", t) # {} /\ At("validation_post", t) = {}
  BY <1>1, <1>3, AtAppend
<1>6. OnceBefore(PreEvent, t)
  <2>1. PreEvent.event = "validation_pre"
    BY DEF PreEvent
  <2> QED BY <1>1, <1>3, <2>1, OnceStill
<1> HIDE DEF t
<1>7. Stream' = t
  BY DEF t, e
<1>8. Holds(Stream, Taken, loops)' /\ IsFiniteSet(At("sample", Stream))'
      /\ (Cardinality(At("sample", Stream)) <= i + 1)'
  <2>1. Holds(Stream', Taken', loops') /\ Cardinality(At("sample", Stream')) = i' + 1 /\ i' \in Nat
    BY <1>2, <1>4, <1>7 DEF Holds
  <2>2. Holds(Stream, Taken, loops)'
    BY <2>1 DEF Holds, At
  <2>3. IsFiniteSet(At("sample", Stream)) '
    BY <2>1 DEF Holds, At
  <2>4. (Cardinality(At("sample", Stream)) <= i + 1)'
    <3>1. At("sample", Stream)' = At("sample", Stream')
      BY DEF At
    <3> QED BY <2>1, <3>1
  <2> QED BY <2>2, <2>3, <2>4
<1>9. OnceBefore(PreEvent, Stream)'
  BY <1>6, <1>7 DEF OnceBefore, PreEvent, At
<1>10. /\ (At("torn", Stream) = {})' /\ (At("schema", Stream) # {})'
       /\ (At("validation_post", Stream) = {})'
  BY <1>5, <1>7 DEF At
<1> QED BY <1>2, <1>8, <1>9, <1>10 DEF StreamInv

\* The last validation stands behind all samples.
LEMMA PostStream ==
  ASSUME StreamInv(Stream), Stream \in Seq(Events), i \in Nat, loops \in Nat,
         i' = i, loops' = loops, pc = "post", pc' = "exited", rc' = 0,
         Stream' = Append(Stream, PostEvent)
  PROVE  StreamInv(Stream)'
<1> DEFINE t == Append(Stream, PostEvent)
           new == Len(Stream) + 1
<1>1. PostEvent \in Events /\ PostEvent.event = "validation_post"
  BY DEF PostEvent, Events
<1>2. Live /\ ~Live' /\ Taken = i /\ Taken' = i /\ pc \notin Early /\ pc' \notin Early /\ pc' # "start"
  BY DEF Live, Taken, Early
<1>3. /\ Holds(Stream, i, loops) /\ At("torn", Stream) = {} /\ At("schema", Stream) # {}
      /\ OnceBefore(PreEvent, Stream) /\ At("validation_post", Stream) = {}
      /\ IsFiniteSet(At("sample", Stream)) /\ Cardinality(At("sample", Stream)) <= i + 1
  BY <1>2 DEF StreamInv, Early
<1>4. /\ At("validation_post", t) = {new} /\ t[new] = PostEvent /\ new \in DOMAIN t
      /\ At("sample", t) = At("sample", Stream)
      /\ \A j \in At("sample", t) : j < new
      /\ At("torn", t) = {} /\ At("schema", t) # {}
  <2>1. /\ At("validation_post", t) = At("validation_post", Stream) \cup {new}
        /\ At("sample", t) = At("sample", Stream)
        /\ At("torn", t) = At("torn", Stream) /\ At("schema", t) = At("schema", Stream)
    BY <1>1, AtAppend
  <2>2. At("sample", Stream) \subseteq 1..Len(Stream)
    BY <1>1, AtAppend
  <2>3. t[new] = PostEvent /\ new \in DOMAIN t
    BY <1>1
  <2> QED BY <1>3, <2>1, <2>2, <2>3
<1>5. OnceAfter(PostEvent, t)
  BY <1>1, <1>4 DEF OnceAfter
<1>6. Holds(t, i, loops)
  BY <1>1, <1>3, HoldsStill
<1>7. OnceBefore(PreEvent, t)
  BY <1>1, <1>3, OnceStill DEF PreEvent
<1> HIDE DEF t, new
<1>8. Stream' = t /\ PostEvent' = PostEvent
  BY DEF t, PostEvent
<1>9. Holds(Stream, Taken, loops)' /\ IsFiniteSet(At("sample", Stream))'
      /\ (Cardinality(At("sample", Stream)) <= i + 1)'
  BY <1>2, <1>3, <1>4, <1>6, <1>8 DEF Holds, At
<1>10. OnceBefore(PreEvent, Stream)'
  BY <1>7, <1>8 DEF OnceBefore, PreEvent, At
<1>11. OnceAfter(PostEvent, Stream)'
  BY <1>5, <1>8 DEF OnceAfter, At
<1>12. (At("torn", Stream) = {})' /\ (At("schema", Stream) # {})'
  BY <1>4, <1>8 DEF At
<1> QED BY <1>2, <1>9, <1>10, <1>11, <1>12 DEF StreamInv

\* Whatever the step, the stream is as it should be.
LEMMA StreamKept ==
  ASSUME RunnerInv, [RunnerNext]_runnerVars
  PROVE  StreamInv(Stream)' /\ {file', out'} \subseteq Seq(Events)
<1> USE RunnerAssumption
<1>0. /\ StreamInv(Stream) /\ Stream \in Seq(Events) /\ {file, out} \subseteq Seq(Events)
      /\ i \in Nat /\ loops \in Nat /\ (Live => rc = 0)
  BY StreamInSeq DEF RunnerInv, TypeInv, PhaseInv
<1>1. CASE Begin
  BY <1>1, BeginStream DEF RunnerInv
<1>2. CASE Calibrate
  BY <1>0, <1>2, CalibrateStream DEF RunnerInv, Calibrate
<1>3. ASSUME UNCHANGED <<file, out, loops, i>>, Live', Live, Taken' = Taken,
             pc' \in Early <=> pc \in Early, pc = "start" => pc' = "start"
      PROVE  StreamInv(Stream)' /\ {file', out'} \subseteq Seq(Events)
  BY <1>0, <1>3, SameStream DEF Stream
<1>4. ASSUME Puts([event |-> "validation_failed"]), Returns(3), UNCHANGED <<file, i>>
      PROVE  StreamInv(Stream)' /\ {file', out'} \subseteq Seq(Events)
  <2>1. [event |-> "validation_failed"] \in Events
    BY DEF Events
  <2>2. /\ Stream' = Append(Stream, [event |-> "validation_failed"])
        /\ {file', out'} \subseteq Seq(Events)
    BY <1>0, <1>4, <2>1, PutsStream
  <2>3. At("sample", Stream') \subseteq At("sample", Stream)
    BY <1>0, <2>1, <2>2, AtAppend
  <2> QED BY <1>0, <1>4, <2>2, <2>3, EndedStream DEF Returns, Live
<1>5. CASE Sanity
  BY <1>3, <1>4, <1>5 DEF Sanity, state, Live, Taken, Early
<1>6. CASE Half \/ WarmUp \/ NoWarmUp
  BY <1>3, <1>6 DEF Half, WarmUp, NoWarmUp, state, Live, Taken, Early
<1>7. CASE CheckHalf
  BY <1>3, <1>4, <1>7 DEF CheckHalf, state, Live, Taken, Early
<1>8. CASE SampleHalf
  <2> DEFINE e == [event |-> "sample_half", sample |-> i]
  <2>1. e \in Events /\ e.event = "sample_half"
    BY <1>0 DEF Events
  <2>2. Stream' = Append(Stream, e) /\ {file', out'} \subseteq Seq(Events)
    BY <1>0, <1>8, <2>1, PutsStream DEF SampleHalf
  <2>3. /\ loops' = loops /\ i' = i /\ Live /\ Live' /\ Taken' = Taken
        /\ pc \notin Early /\ pc' \notin Early
    BY <1>8 DEF SampleHalf, Live, Taken, Early
  <2> HIDE DEF e
  <2> QED BY <1>0, <2>1, <2>2, <2>3, HalfStream
<1>9. CASE Sample
  <2> DEFINE e == [event |-> "sample", sample |-> i, loops |-> loops]
  <2>1. e \in Events
    BY <1>0 DEF Events
  <2>2. Stream' = Append(Stream, e) /\ {file', out'} \subseteq Seq(Events)
    BY <1>0, <1>9, <2>1, PutsStream DEF Sample
  <2>3. /\ loops' = loops /\ i' = i
        /\ pc \in {"sampling", "full"} /\ pc' \in {"half_after", "flush"}
    BY <1>9 DEF Sample
  <2> QED BY <1>0, <2>2, <2>3, SampleStream
<1>10. CASE Flush
  <2>1. Stream' = Stream /\ {file', out'} \subseteq Seq(Events)
    BY <1>0, <1>10, WrittenStream DEF Flush
  <2>2. /\ loops' = loops /\ i' = i + 1 /\ Live /\ Live' /\ Taken' = Taken
        /\ pc \notin Early /\ pc' \notin Early /\ pc # "start"
    BY <1>10 DEF Flush, Live, Taken, Early
  <2> QED BY <1>0, <2>1, <2>2, SameStream
<1>11. CASE Throws \/ FlushAtExit
  <2>1. Stream' = Stream /\ {file', out'} \subseteq Seq(Events)
    BY <1>0, <1>11, WrittenStream DEF Throws, FlushAtExit, Stream
  <2>2. /\ loops' = loops /\ i' = i /\ ~Live' /\ pc' \notin Early
        /\ rc' = 0 => ~Live /\ rc = 0 /\ Taken' = Taken
        /\ pc = "start" => rc' = 2
    BY <1>11 DEF Throws, FlushAtExit, Returns, state, Live, Taken, Early
  <2>3. CASE rc' = 0
    BY <1>0, <2>1, <2>2, <2>3, SameStream
  <2>4. CASE rc' # 0
    BY <1>0, <2>1, <2>2, <2>4, EndedStream
  <2> QED BY <2>1, <2>3, <2>4
<1>12. CASE Crash
  <2>1. /\ At("sample", Stream') \subseteq At("sample", Stream)
        /\ {file', out'} \subseteq Seq(Events)
    BY <1>0, <1>12, CrashStream
  <2>2. i' = i /\ ~Live' /\ rc' # 0
    BY <1>12 DEF Crash, state, Live
  <2> QED BY <1>0, <2>1, <2>2, EndedStream
<1>13. CASE Judge \/ TimeLimit \/ UNCHANGED runnerVars
  <2>1. Stream' = Stream /\ UNCHANGED <<file, out, loops, i, pc, rc>>
    BY <1>13 DEF Judge, TimeLimit, runnerVars, state, Stream
  <2>2. Live' = Live /\ Taken' = Taken /\ (pc' \in Early <=> pc \in Early)
    BY <2>1 DEF Live, Taken, Early
  <2>3. ~Live => pc \notin Early
    BY DEF Live, Early
  <2> QED BY <1>0, <2>1, <2>2, <2>3, SameStream
<1>14. CASE Pre
  <2>0. out \in Seq(Events) /\ pc = "pre" /\ i = 0 /\ i' = 0 /\ loops' = loops /\ file' = file
    BY <1>14 DEF Pre, state, RunnerInv, TypeInv, PhaseInv, Early
  <2>1. CASE Passes(loops)
    <3>1. Passes(loops) = TRUE
      BY <2>1 DEF Passes, RunnerInv, TypeInv
    <3>2. Puts(PreEvent) /\ pc' \in {"half", "warm"}
      BY <1>14, <2>1, <3>1 DEF Pre, PreEvent
    <3>3. PreEvent \in Events
      BY DEF PreEvent, Events
    <3>4. Stream' = Append(Stream, PreEvent) /\ {file', out'} \subseteq Seq(Events)
      BY <1>0, <2>0, <3>2, <3>3, PutsStream
    <3> QED BY <1>0, <2>0, <3>2, <3>4, PreStream
  <2>2. CASE ~Passes(loops)
    <3> DEFINE e == [event |-> "validation_pre", pass |-> FALSE]
               f == [event |-> "validation_failed"]
    <3>1. Passes(loops) = FALSE
      BY <2>2 DEF Passes, RunnerInv, TypeInv
    <3>2. out' = out \o <<e, f>> /\ Returns(3)
      BY <1>14, <2>2, <3>1 DEF Pre
    <3>3. e \in Events /\ f \in Events /\ e.event = "validation_pre" /\ f.event = "validation_failed"
      BY DEF Events
    <3> HIDE DEF e, f
    <3>4. out \o <<e, f>> = Append(Append(out, e), f)
      <4>1. Append(out, e) \in Seq(Events) /\ <<e>> \in Seq(Events) /\ <<f>> \in Seq(Events)
        BY <2>0, <3>3
      <4>2. <<e, f>> = <<e>> \o <<f>>
        <5>1. <<e, f>> = Append(<<e>>, f)
          OBVIOUS
        <5> QED BY <3>3, <4>1, <5>1, AppendIsConcat
      <4>3. out \o (<<e>> \o <<f>>) = (out \o <<e>>) \o <<f>>
        BY <2>0, <4>1, ConcatAssociative
      <4>4. out \o <<e>> = Append(out, e) /\ Append(out, e) \o <<f>> = Append(Append(out, e), f)
        BY <2>0, <3>3, <4>1, AppendIsConcat
      <4> QED BY <4>2, <4>3, <4>4
    <3>5. Stream' = Append(Append(Stream, e), f) /\ out' \in Seq(Events)
      <4>1. Append(out, e) \in Seq(Events) /\ <<e>> \in Seq(Events) /\ <<f>> \in Seq(Events)
        BY <2>0, <3>3
      <4>2. Append(Stream, e) = file \o Append(out, e)
        BY <1>0, <2>0, <3>3, ConcatAppend DEF Stream
      <4>3. Append(Append(Stream, e), f) = file \o Append(Append(out, e), f)
        BY SMTT(30), <1>0, <3>3, <4>1, <4>2, ConcatAppend
      <4>4. out' \in Seq(Events)
        BY <3>2, <3>3, <3>4, <4>1
      <4> QED BY <2>0, <3>2, <3>4, <4>3, <4>4 DEF Stream
    <3>6. At("sample", Append(Append(Stream, e), f)) \subseteq At("sample", Stream)
      <4>1. Append(Stream, e) \in Seq(Events)
        BY <1>0, <3>3
      <4>2. At("sample", Append(Stream, e)) = At("sample", Stream)
        BY <1>0, <3>3, AtAppend
      <4>3. At("sample", Append(Append(Stream, e), f)) = At("sample", Append(Stream, e))
        BY <3>3, <4>1, AtAppend
      <4> QED BY <4>2, <4>3
    <3>7. ~Live' /\ rc' # 0
      BY <3>2 DEF Returns, Live
    <3> QED BY <1>0, <2>0, <3>5, <3>6, <3>7, EndedStream
  <2> QED BY <2>1, <2>2
<1>15. CASE Post
  <2> DEFINE e == [event |-> "validation_post", sample |-> i - 1, loops |-> loops, pass |-> Passes(loops)]
  <2>0. /\ pc = "post" /\ pc' = "exited" /\ out = <<>> /\ UNCHANGED <<i, loops, out>>
        /\ file' = Append(file, e)
    BY <1>15 DEF Post, Returns, state, RunnerInv, PhaseInv
  <2>1. e \in Events /\ e.event = "validation_post"
    <3>1. Passes(loops) \in BOOLEAN
      BY DEF Passes, RunnerInv, TypeInv
    <3> HIDE DEF Passes
    <3> QED BY <1>0, <3>1 DEF Events
  <2> HIDE DEF e
  <2>2. Stream' = Append(Stream, e) /\ {file', out'} \subseteq Seq(Events)
    BY <1>0, <2>0, <2>1, WrittenLast
  <2>3. CASE rc' = 0
    <3>1. Passes(loops)
      BY <1>15, <2>3 DEF Post, Returns
    <3>2. Passes(loops) = TRUE
      BY <3>1 DEF Passes, RunnerInv, TypeInv
    <3>3. e = PostEvent
      BY <3>2 DEF e, PostEvent
    <3> QED BY <1>0, <2>0, <2>2, <2>3, <3>3, PostStream
  <2>4. CASE rc' # 0
    <3>1. At("sample", Stream') \subseteq At("sample", Stream)
      BY <1>0, <2>1, <2>2, AtAppend
    <3>2. ~Live'
      BY <2>0 DEF Live
    <3> QED BY <1>0, <2>0, <2>2, <2>4, <3>1, <3>2, EndedStream
  <2> QED BY <2>3, <2>4
<1>16. UNCHANGED runnerVars \/ RunnerNext
  OBVIOUS
<1> QED BY <1>1, <1>2, <1>5, <1>6, <1>7, <1>8, <1>9, <1>10, <1>11, <1>12, <1>13, <1>14, <1>15, <1>16
        DEF RunnerNext, RunnerStep

-----------------------------------------------------------------------------
(* The judgement. *)

\* Where Session._run finds the events of a complete stream.
LEMMA SampleIndex ==
  ASSUME file \in Seq(Events), NEW k \in Nat, NEW l, Holds(file, k, l),
         NEW a \in At("sample", file)
  PROVE  Index(file[a]) = a
<1> DEFINE same == {j \in DOMAIN file : file[j] = file[a]}
<1>1. /\ At("sample", file) \subseteq Nat /\ a \in DOMAIN file /\ file[a].event = "sample"
      /\ same \subseteq At("sample", file) /\ a \in same
  BY DEF At
<1>2. \A j \in same : ~(j < a) /\ ~(a < j)
  BY <1>1 DEF Holds
<1>3. same = {a}
  BY <1>1, <1>2
<1>4. Min({a}) = a
  BY <1>1 DEF Min
<1> QED BY <1>3, <1>4 DEF Index

LEMMA OnceIndex ==
  ASSUME file \in Seq(Events), NEW event, NEW p \in DOMAIN file,
         At(event.event, file) = {p}, file[p] = event
  PROVE  Min(Places(event.event)) = p /\ Index(event) = p
<1>1. p \in Nat /\ Min({p}) = p
  BY DEF Min
<1>2. Places(event.event) = {p}
  BY DEF Places, At
<1>3. {j \in DOMAIN file : file[j] = event} = {p}
  BY DEF At
<1> QED BY <1>1, <1>2, <1>3 DEF Index

\* The first and the last sample.
LEMMA Extremes ==
  ASSUME file \in Seq(Events), NEW k \in Nat, k > 0, NEW l, Holds(file, k, l)
  PROVE  /\ Min(Places("sample")) \in At("sample", file)
         /\ Max(Places("sample")) \in At("sample", file)
         /\ file[Max(Places("sample"))].sample = k - 1
<1>0. Places("sample") = At("sample", file) /\ At("sample", file) \subseteq Nat
  BY DEF Places, At
<1>1. /\ \A j \in At("sample", file) : file[j].sample \in 0..(k - 1)
      /\ \A j1, j2 \in At("sample", file) : j1 < j2 => file[j1].sample < file[j2].sample
      /\ \A m \in 0..(k - 1) : \E j \in At("sample", file) : file[j].sample = m
  BY DEF Holds
<1>2. PICK a \in At("sample", file) : file[a].sample = 0
  BY <1>1
<1>3. PICK b \in At("sample", file) : file[b].sample = k - 1
  BY <1>1
<1>4. \A j \in At("sample", file) : a <= j
  <2> TAKE j \in At("sample", file)
  <2>1. a \in Nat /\ j \in Nat /\ file[j].sample \in 0..(k - 1)
    BY <1>0, <1>1
  <2>2. ~(j < a)
    BY <1>1, <1>2, <2>1
  <2> QED BY <2>1, <2>2
<1>5. \A j \in At("sample", file) : j <= b
  <2> TAKE j \in At("sample", file)
  <2>1. b \in Nat /\ j \in Nat /\ file[j].sample \in 0..(k - 1)
    BY <1>0, <1>1
  <2>2. ~(b < j)
    BY <1>1, <1>3, <2>1
  <2> QED BY <2>1, <2>2
<1>6. Min(At("sample", file)) = a
  BY <1>0, <1>4 DEF Min
<1>7. Max(At("sample", file)) = b
  BY <1>0, <1>5 DEF Max
<1> QED BY <1>0, <1>3, <1>6, <1>7

\* A complete stream is accepted unless a GPU fault was counted.
LEMMA CompleteAccepted ==
  ASSUME file \in Seq(Events), i \in Nat, i > 0, Holds(file, i, loops),
         At("schema", file) # {}, OnceBefore(PreEvent, file), OnceAfter(PostEvent, file),
         rc = 0, ~faulted'
  PROVE  Accepted
<1> DEFINE a == Min(Places("sample"))
           b == Max(Places("sample"))
<1>1. PICK p \in DOMAIN file : /\ At("validation_pre", file) = {p} /\ file[p] = PreEvent
                               /\ \A j \in At("sample", file) : p < j
  BY DEF OnceBefore, PreEvent
<1>2. PICK q \in DOMAIN file : /\ At("validation_post", file) = {q} /\ file[q] = PostEvent
                               /\ \A j \in At("sample", file) : j < q
  BY DEF OnceAfter, PostEvent
<1>0. PreEvent.event = "validation_pre" /\ PostEvent.event = "validation_post"
  BY DEF PreEvent, PostEvent
<1>3. Min(Places("validation_pre")) = p /\ Index(file[p]) = p
  <2>1. Min(Places(PreEvent.event)) = p /\ Index(PreEvent) = p
    BY <1>0, <1>1, OnceIndex
  <2> QED BY <1>0, <1>1, <2>1
<1>4. Min(Places("validation_post")) = q /\ Index(file[q]) = q
  <2>1. Min(Places(PostEvent.event)) = q /\ Index(PostEvent) = q
    BY <1>0, <1>2, OnceIndex
  <2> QED BY <1>0, <1>2, <2>1
<1>5. /\ a \in At("sample", file) /\ b \in At("sample", file)
      /\ file[b].sample = i - 1 /\ file[b].loops = loops
  BY Extremes DEF Holds
<1>6. Index(file[a]) = a /\ Index(file[b]) = b
  BY <1>5, SampleIndex
<1>7. p < a /\ b < q
  BY <1>1, <1>2, <1>5
<1>8. /\ PreEvent.pass /\ PostEvent.pass
      /\ PostEvent.sample = i - 1 /\ PostEvent.loops = loops
  BY DEF PreEvent, PostEvent
<1>9. \A name \in {"schema", "validation_pre", "validation_post", "sample"} : Places(name) # {}
  BY <1>1, <1>2, <1>5 DEF Places, At
<1> HIDE DEF a, b
<1>10. /\ file[p].pass /\ file[q].pass
       /\ file[q].sample = file[b].sample /\ file[q].loops = file[b].loops
       /\ Index(file[q]) > Index(file[b]) /\ Index(file[p]) < Index(file[a])
  BY <1>1, <1>2, <1>3, <1>4, <1>5, <1>6, <1>7, <1>8 DEF At
<1> QED BY <1>3, <1>4, <1>9, <1>10 DEF Accepted, a, b

\* A row is accepted or rejected once, after the process has ended, from all of the stream.
LEMMA JudgeKept ==
  ASSUME RunnerInv, [RunnerNext]_runnerVars
  PROVE  JudgeInv'
<1> USE DEF JudgeInv
<1>0. /\ i \in Nat /\ loops \in Nat /\ file \in Seq(Events) /\ StreamInv(Stream)
      /\ (out = <<>> => Stream = file)
  BY RunnerAssumption, StreamInSeq DEF RunnerInv, TypeInv
<1>1. CASE Judge
  <2>1. pc = "dead" /\ outcome = "none" /\ UNCHANGED <<i, rc, pc>> /\ Stream = file
    BY <1>0, <1>1 DEF Judge, state, RunnerInv, PhaseInv
  <2>2. CASE Places("torn") # {}
    <3>1. outcome' = "raised" /\ UNCHANGED <<n, faulted>>
      BY <1>1, <2>2 DEF Judge
    <3> QED BY <2>1, <3>1 DEF RunnerInv
  <2>3. CASE Places("torn") = {}
    <3>1. n' = Cardinality(At("sample", file)) /\ outcome' = IF Accepted THEN "accepted" ELSE "rejected"
      BY <1>1, <2>3 DEF Judge, Places, At
    <3>2. n' \in Nat /\ n' <= i + 1
      BY <1>0, <2>1, <3>1, FS_CardinalityType DEF StreamInv
    <3>3. Accepted => rc = 0
      BY DEF Accepted
    <3>4. ASSUME rc = 0
          PROVE  n' = i /\ (~faulted' => Accepted)
      <4>1. ~Live /\ Taken = i /\ i > 0 /\ pc \notin Early /\ pc # "start"
        BY <2>1, <3>4 DEF Live, Taken, Early, RunnerInv, PhaseInv
      <4>2. /\ Holds(file, i, loops) /\ At("schema", file) # {}
            /\ OnceBefore(PreEvent, file) /\ OnceAfter(PostEvent, file)
        BY <1>0, <2>1, <3>4, <4>1 DEF StreamInv
      <4>3. n' = i
        BY <3>1, <4>2 DEF Holds
      <4>4. ~faulted' => Accepted
        BY <1>0, <3>4, <4>1, <4>2, CompleteAccepted
      <4> QED BY <4>3, <4>4
    <3> QED BY <1>0, <2>1, <3>1, <3>2, <3>3, <3>4
  <2> QED BY <2>2, <2>3
<1>2. ASSUME UNCHANGED <<outcome, n, faulted>>, i' \in {i, i + 1}, pc # "dead"
      PROVE  JudgeInv'
  <2>1. n \in 0..(i + 1) /\ outcome \notin {"accepted", "rejected"}
    BY <1>2 DEF RunnerInv
  <2>2. n' = n /\ outcome' = outcome /\ i \in Nat
    BY <1>0, <1>2
  <2>3. CASE i' = i
    BY <2>1, <2>2, <2>3
  <2>4. CASE i' = i + 1
    BY <2>1, <2>2, <2>4
  <2> QED BY <1>2, <2>3, <2>4
<1>3. CASE RunnerStep
  <2>1. i' \in {i, i + 1}
    BY <1>0, <1>3 DEF RunnerStep, Begin, Sanity, Calibrate, Pre, Half, CheckHalf, WarmUp,
       NoWarmUp, SampleHalf, Sample, Flush, Post, Throws, FlushAtExit, state
  <2>2. pc # "dead" /\ UNCHANGED <<outcome, n, faulted>>
    BY <1>3 DEF RunnerStep, Begin, Sanity, Calibrate, Pre, Half, CheckHalf, WarmUp,
       NoWarmUp, SampleHalf, Sample, Flush, Post, Throws, FlushAtExit, judgement, Live
  <2> QED BY <1>2, <2>1, <2>2
<1>4. CASE Crash
  BY <1>0, <1>2, <1>4 DEF Crash, state, judgement, Live
<1>5. CASE TimeLimit \/ UNCHANGED runnerVars
  BY <1>5 DEF TimeLimit, state, runnerVars, RunnerInv
<1> QED BY <1>1, <1>3, <1>4, <1>5 DEF RunnerNext

\* The types, given that the stream keeps its own.
LEMMA TypeKept ==
  ASSUME RunnerInv, [RunnerNext]_runnerVars, {file', out'} \subseteq Seq(Events)
  PROVE  TypeInv'
<1> USE RunnerAssumption
<1>1. config' \in [differential : BOOLEAN, timed : BOOLEAN, sensitive : BOOLEAN] /\ config' = config
  BY ConfigKept DEF RunnerInv, TypeInv
<1>2. buffer' \in [loops : Nat, good : BOOLEAN] /\ corruptions' \in 0..MaxCorruptions
  BY BufferTyped DEF RunnerInv
<1>3. /\ loops' \in LoopChoices \cup {1} /\ i' \in 0..Last' /\ warm' \in 0..WarmCap
  <2>0. /\ i \in 0..Last /\ loops \in LoopChoices \cup {1} /\ warm \in 0..WarmCap
        /\ Last \in Nat /\ Last' = Last /\ Samples \in Nat /\ MaxSamples \in Nat
        /\ (pc = "flush" => i < Last) /\ (pc = "warm" => warm < WarmCap)
    BY <1>1 DEF RunnerInv, TypeInv, PhaseInv, Last
  <2>1. CASE Flush
    BY <2>0, <2>1 DEF Flush
  <2>2. CASE WarmUp
    BY <2>0, <2>2 DEF WarmUp
  <2>3. CASE Calibrate
    BY <2>0, <2>3 DEF Calibrate
  <2>4. CASE ~(Flush \/ WarmUp \/ Calibrate)
    <3>1. UNCHANGED <<i, loops, warm>>
      BY <2>4 DEF RunnerNext, RunnerStep, Begin, Sanity, Pre, Half, CheckHalf, NoWarmUp, SampleHalf,
         Sample, Post, Throws, FlushAtExit, Crash, Judge, TimeLimit, state, runnerVars
    <3> QED BY <2>0, <3>1
  <2> QED BY <2>1, <2>2, <2>3, <2>4
<1>4. pc' \in {"start", "sanity", "calibrate", "pre", "half", "check_half", "warm",
               "sampling", "full", "half_after", "flush", "post", "exited", "dead"}
  <2>1. CASE Begin \/ Sanity \/ Calibrate \/ Pre \/ Half \/ CheckHalf
    BY <2>1 DEF Begin, Sanity, Calibrate, Pre, Half, CheckHalf, Returns
  <2>2. CASE WarmUp \/ NoWarmUp \/ SampleHalf \/ Sample \/ Flush
    BY <2>2 DEF WarmUp, NoWarmUp, SampleHalf, Sample, Flush
  <2>3. CASE Post \/ Throws \/ FlushAtExit \/ Crash
    BY <2>3 DEF Post, Returns, Throws, FlushAtExit, Crash
  <2>4. CASE Judge \/ TimeLimit \/ UNCHANGED runnerVars
    BY <2>4 DEF Judge, TimeLimit, runnerVars, RunnerInv, TypeInv
  <2> QED BY <2>1, <2>2, <2>3, <2>4 DEF RunnerNext, RunnerStep
<1>7. rc' \in {-9, 0, 2, 3}
  <2>0. rc \in {-9, 0, 2, 3}
    BY DEF RunnerInv, TypeInv
  <2>1. CASE Begin \/ Sanity \/ Calibrate \/ Pre \/ Half \/ CheckHalf
    BY <2>0, <2>1 DEF Begin, Sanity, Calibrate, Pre, Half, CheckHalf, Returns
  <2>2. CASE WarmUp \/ NoWarmUp \/ SampleHalf \/ Sample \/ Flush
    BY <2>0, <2>2 DEF WarmUp, NoWarmUp, SampleHalf, Sample, Flush
  <2>3. CASE Post \/ Throws \/ FlushAtExit \/ Crash
    BY <2>0, <2>3 DEF Post, Returns, Throws, FlushAtExit, Crash
  <2>4. CASE Judge \/ TimeLimit \/ UNCHANGED runnerVars
    BY <2>0, <2>4 DEF Judge, TimeLimit, runnerVars
  <2> QED BY <2>1, <2>2, <2>3, <2>4 DEF RunnerNext, RunnerStep
<1>8. outcome' \in {"none", "accepted", "rejected", "raised"}
  <2>1. CASE Judge \/ TimeLimit
    BY <2>1 DEF Judge, TimeLimit, RunnerInv, TypeInv
  <2>2. CASE ~(Judge \/ TimeLimit)
    <3>1. outcome' = outcome
      BY <2>2 DEF RunnerNext, RunnerStep, Begin, Sanity, Calibrate, Pre, Half, CheckHalf, WarmUp,
         NoWarmUp, SampleHalf, Sample, Flush, Post, Throws, FlushAtExit, Crash, judgement, runnerVars
    <3> QED BY <3>1 DEF RunnerInv, TypeInv
  <2> QED BY <2>1, <2>2
<1>5. faulted' \in BOOLEAN
  <2>1. faulted \in BOOLEAN
    BY Zenon DEF RunnerInv, TypeInv
  <2>2. faulted' \in BOOLEAN \/ faulted' = faulted
    BY ZenonT(60) DEF RunnerNext, RunnerStep, Begin, Sanity, Calibrate, Pre, Half, CheckHalf, WarmUp, NoWarmUp,
     SampleHalf, Sample, Flush, Post, Throws, FlushAtExit, Crash, Judge, TimeLimit, judgement, runnerVars
  <2> QED BY Zenon, <2>1, <2>2
<1>6. final' \in BOOLEAN
  <2>1. final \in BOOLEAN
    BY Zenon DEF RunnerInv, TypeInv
  <2>2. CASE Sample
    <3>1. buffer'.good \in BOOLEAN
      BY <1>2
    <3> QED BY Zenon, <2>2, <3>1 DEF Sample
  <2>3. CASE ~Sample
    <3>1. final' = final
      BY ZenonT(60), <2>3 DEF RunnerNext, RunnerStep, Begin, Sanity, Calibrate, Pre, Half, CheckHalf, WarmUp,
         NoWarmUp, SampleHalf, Flush, Post, Throws, FlushAtExit, Crash, Judge, TimeLimit, state, runnerVars
    <3> QED BY Zenon, <2>1, <3>1
  <2> QED BY <2>2, <2>3
<1> QED BY <1>1, <1>2, <1>3, <1>4, <1>5, <1>6, <1>7, <1>8 DEF TypeInv

\* Nothing was sampled yet.
LEMMA HoldsAtFirst == ASSUME NEW l PROVE Holds(<<>>, 0, l)
<1>1. At("sample", <<>>) = {}
  BY EmptySeq DEF At
<1>2. 0..(0 - 1) = {}
  OBVIOUS
<1>3. IsFiniteSet({}) /\ Cardinality({}) = 0
  BY FS_EmptySet
<1> QED BY Zenon, <1>1, <1>2, <1>3 DEF Holds

LEMMA RunnerInvInit == RunnerInit => RunnerInv
<1> SUFFICES ASSUME RunnerInit PROVE RunnerInv
  OBVIOUS
<1> USE RunnerAssumption DEF RunnerInit
<1>1. TypeInv
  <2>1. <<>> \in Seq(Events)
    BY EmptySeq
  <2>2. i \in 0..Last
    BY DEF Last
  <2>3. /\ faulted \in BOOLEAN /\ final \in BOOLEAN
        /\ config \in [differential : BOOLEAN, timed : BOOLEAN, sensitive : BOOLEAN]
    BY Zenon
  <2>4. /\ buffer \in [loops : Nat, good : BOOLEAN] /\ {file, out} \subseteq Seq(Events)
        /\ loops \in LoopChoices \cup {1} /\ warm \in 0..WarmCap /\ corruptions \in 0..MaxCorruptions
    BY <2>1
  <2> QED BY <2>2, <2>3, <2>4 DEF TypeInv
<1>2. PhaseInv /\ BufferInv
  BY DEF PhaseInv, BufferInv, Live, Early
<1>3. StreamInv(Stream)
  <2>1. Stream = <<>>
    BY EmptySeq, ConcatEmptySeq DEF Stream
  <2>2. \A name : At(name, <<>>) = {}
    BY EmptySeq DEF At
  <2>3. Taken = 0 /\ Live /\ pc \in Early
    BY DEF Taken, Live, Early
  <2>4. IsFiniteSet({}) /\ Cardinality({}) = 0
    BY FS_EmptySet
  <2>5. Holds(<<>>, 0, loops)
    BY HoldsAtFirst
  <2>6. IsFiniteSet(At("sample", <<>>)) /\ Cardinality(At("sample", <<>>)) <= i + 1
    <3>1. At("sample", <<>>) = {}
      BY <2>2
    <3>2. 0 <= i + 1
      OBVIOUS
    <3> QED BY <2>4, <3>1, <3>2
  <2>7. At("torn", <<>>) = {} /\ At("validation_pre", <<>>) = {} /\ At("validation_post", <<>>) = {}
    BY <2>2
  <2> QED BY <2>1, <2>3, <2>5, <2>6, <2>7 DEF StreamInv
<1>4. JudgeInv
  BY DEF JudgeInv
<1> QED BY <1>1, <1>2, <1>3, <1>4 DEF RunnerInv

\* RunnerInv holds in every reachable state: where the runner is, whose result is in the
\* buffer, what it has put out so far, and what Session._run made of it.
THEOREM RunnerInvariant == RunnerSpec => []RunnerInv
<1>1. RunnerInv /\ [RunnerNext]_runnerVars => RunnerInv'
  <2> SUFFICES ASSUME RunnerInv, [RunnerNext]_runnerVars PROVE RunnerInv'
    OBVIOUS
  <2>1. StreamInv(Stream)' /\ {file', out'} \subseteq Seq(Events)
    BY StreamKept
  <2>2. TypeInv'
    BY <2>1, TypeKept
  <2>3. PhaseInv' /\ BufferInv'
    BY ControlKept, BufferKept DEF RunnerInv
  <2>4. JudgeInv'
    BY JudgeKept
  <2> QED BY <2>1, <2>2, <2>3, <2>4 DEF RunnerInv
<1> QED BY RunnerInvInit, <1>1, PTL DEF RunnerSpec

\* The variables of Runner keep their types: no run takes more samples than it was asked
\* for, and the warm-up stays below its limit.
THEOREM RunnerTypeCorrect == RunnerSpec => []RunnerTypeOK
<1>1. RunnerInv => RunnerTypeOK
  <2> SUFFICES ASSUME RunnerInv PROVE RunnerTypeOK
    OBVIOUS
  <2>1. TypeInv /\ n \in 0..(i + 1)
    BY DEF RunnerInv, JudgeInv
  <2>2. i \in 0..(IF config.timed THEN MaxSamples ELSE Samples)
    BY <2>1 DEF TypeInv, Last
  <2> QED BY Zenon, <2>1, <2>2 DEF TypeInv, RunnerTypeOK
<1> QED BY <1>1, RunnerInvariant, PTL

\* In every row that is accepted no sample is missing, and the result that the last
\* full-length sample left was checked and is right.
THEOREM AcceptedVerified == RunnerSpec => []AcceptedIsVerified
<1>1. RunnerInv => AcceptedIsVerified
  BY DEF RunnerInv, PhaseInv, BufferInv, JudgeInv, Live, AcceptedIsVerified
<1> QED BY <1>1, RunnerInvariant, PTL

\* A run whose dispatches all computed right is rejected only for a crash, a failed call
\* or a counted GPU fault: its stream, complete whenever the exit code is 0, is accepted.
THEOREM HealthyAccepted == RunnerSpec => []HealthyIsAccepted
<1>1. RunnerInv => HealthyIsAccepted
  BY DEF RunnerInv, TypeInv, BufferInv, JudgeInv, HealthyIsAccepted
<1> QED BY <1>1, RunnerInvariant, PTL
=============================================================================
