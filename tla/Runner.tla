-------------------------------- MODULE Runner --------------------------------
(***************************************************************************)
(* One runner process (runner/src/roofline.cpp) and the judgement of its   *)
(* output by Session._run (session.py).                                    *)
(*                                                                         *)
(* Every dispatch overwrites the output buffer.  The runner validates the  *)
(* buffer before and after the timed samples, which interleave full-length *)
(* and half-length dispatches, and prints one event per step.  Its stdout  *)
(* is a file and so is buffered: it is flushed after every sample and at   *)
(* exit, and a crash loses a suffix and may cut a line.  A dispatch may    *)
(* leave a wrong result, fail, or hang until the controller's time limit.  *)
(* The times that dispatches take are left out.                            *)
(***************************************************************************)
EXTENDS Integers, Sequences, FiniteSets, FiniteSetsExt

CONSTANTS
  Samples,        \* c["samples"]
  LoopChoices,    \* loop counts that calibration may settle on
  WarmCap,        \* dispatches that fit into 4 x warmup_seconds
  MaxSamples,     \* bound: samples of a run limited by duration_seconds
  MaxCorruptions  \* bound: dispatches that leave a wrong result

ASSUME RunnerAssumption ==
  /\ Samples \in Nat \ {0} /\ WarmCap \in Nat \ {0} /\ MaxSamples \in Nat \ {0}
  /\ LoopChoices \subseteq Nat \ {0} /\ LoopChoices # {}
  /\ MaxCorruptions \in Nat

VARIABLES
  config,     \* differential: two-point timing; timed: duration_seconds > 0;
              \* sensitive: the expected output depends on the loop count
  pc, loops, warm, i,
  buffer,     \* loop count and correctness of the dispatch that wrote it last
  out, file,  \* events in the stdio buffer, and in the raw file
  rc,
  outcome,    \* of Session._run: "accepted" and "rejected" rows, or it "raised"
  n,          \* row["n"]
  faulted,    \* row["fault_delta"] is not zero
  corruptions,
  final       \* history: the last full-length sample left a correct result

state == <<config, loops, warm, i, buffer, final, corruptions>>
runnerVars == <<state, pc, out, file, rc, outcome, n, faulted>>
judgement == <<outcome, n, faulted>>

RunnerInit ==
  /\ config \in [differential : BOOLEAN, timed : BOOLEAN, sensitive : BOOLEAN]
  /\ pc = "start" /\ loops = 1 /\ warm = 0 /\ i = 0
  /\ buffer = [loops |-> 0, good |-> FALSE]
  /\ out = <<>> /\ file = <<>>
  /\ rc = 0 /\ outcome = "none" /\ n = 0 /\ faulted = FALSE
  /\ corruptions = 0 /\ final = FALSE

-----------------------------------------------------------------------------
(* The runner. *)

\* execute(its): the buffer holds the result of this dispatch.
Execute(its) ==
  \E good \in BOOLEAN :
    /\ good \/ corruptions < MaxCorruptions
    /\ buffer' = [loops |-> its, good |-> good]
    /\ corruptions' = corruptions + (IF good THEN 0 ELSE 1)

Puts(event) == out' = Append(out, event)

\* Mutant of Passes: validation that checks no element passes.
PassesUnchecked(its) == buffer.loops > 0

\* validate(its)["pass"]
Passes(its) == buffer.good /\ (config.sensitive => buffer.loops = its)

Returns(status) ==
  /\ pc' = "exited"
  /\ rc' = status

Differs == ~config.timed /\ config.differential /\ loops >= 2

\* Mutant of HalfFirst: off by one.
HalfFirstLate == Differs /\ i = Samples

\* "Leave the actual final full-length sample in the output buffer."
HalfFirst == Differs /\ i = Samples - 1

Begin ==
  /\ pc = "start"
  /\ Puts([event |-> "schema"])
  /\ Execute(2)
  /\ pc' = "sanity"
  /\ UNCHANGED <<config, loops, warm, i, final, file, rc, judgement>>

Sanity ==
  /\ pc = "sanity"
  /\ IF Passes(2)
     THEN pc' = "calibrate" /\ UNCHANGED <<out, rc>>
     ELSE Puts([event |-> "validation_failed"]) /\ Returns(3)
  /\ UNCHANGED <<state, file, judgement>>

\* calibrate(); warm_up("calibration"); calibrate(); execute(loops)
Calibrate ==
  /\ pc = "calibrate"
  /\ loops' \in LoopChoices
  /\ Execute(loops')
  /\ pc' = "pre"
  /\ UNCHANGED <<config, warm, i, final, out, file, rc, judgement>>

Pre ==
  /\ pc = "pre"
  /\ LET event == [event |-> "validation_pre", pass |-> Passes(loops)]
     IN IF Passes(loops)
        THEN /\ Puts(event)
             /\ pc' = IF Differs THEN "half" ELSE "warm"
             /\ UNCHANGED rc
        ELSE /\ out' = out \o <<event, [event |-> "validation_failed"]>>
             /\ Returns(3)
  /\ UNCHANGED <<state, file, judgement>>

Half ==
  /\ pc = "half"
  /\ Execute(loops \div 2)
  /\ pc' = "check_half"
  /\ UNCHANGED <<config, loops, warm, i, final, out, file, rc, judgement>>

CheckHalf ==
  /\ pc = "check_half"
  /\ IF Passes(loops \div 2)
     THEN pc' = "warm" /\ UNCHANGED <<out, rc>>
     ELSE Puts([event |-> "validation_failed"]) /\ Returns(3)
  /\ UNCHANGED <<state, file, judgement>>

\* Mutant of WarmUp: no limit on waiting for steady dispatch times.
WarmUpUntilSteady ==
  /\ pc = "warm"
  /\ Execute(loops)
  /\ warm' = (warm + 1) % WarmCap
  /\ \E steady \in BOOLEAN : pc' = IF steady THEN "sampling" ELSE "warm"
  /\ UNCHANGED <<config, loops, i, final, out, file, rc, judgement>>

\* warm_up("sampling"): until the last times agree, for a limited time; not at all
\* when warmup_seconds is 0.
WarmUp ==
  /\ pc = "warm"
  /\ Execute(loops)
  /\ warm' = warm + 1
  /\ \E steady \in BOOLEAN :
       pc' = IF steady \/ warm' = WarmCap THEN "sampling" ELSE "warm"
  /\ UNCHANGED <<config, loops, i, final, out, file, rc, judgement>>

NoWarmUp ==
  /\ pc = "warm" /\ warm = 0
  /\ pc' = "sampling"
  /\ UNCHANGED <<state, out, file, rc, judgement>>

SampleHalf ==
  /\ \/ pc = "sampling" /\ HalfFirst /\ pc' = "full"
     \/ pc = "half_after" /\ pc' = "flush"
  /\ Execute(loops \div 2)
  /\ Puts([event |-> "sample_half", sample |-> i])
  /\ UNCHANGED <<config, loops, warm, i, final, file, rc, judgement>>

Sample ==
  /\ pc = "full" \/ (pc = "sampling" /\ ~HalfFirst)
  /\ Execute(loops)
  /\ final' = buffer'.good
  /\ Puts([event |-> "sample", sample |-> i, loops |-> loops])
  /\ pc' = IF Differs /\ ~HalfFirst THEN "half_after" ELSE "flush"
  /\ UNCHANGED <<config, loops, warm, i, file, rc, judgement>>

\* Mutant of Flush: one sample too many.
FlushOnceMore ==
  /\ pc = "flush"
  /\ file' = file \o out /\ out' = <<>>
  /\ i' = i + 1
  /\ pc' = IF i' <= Samples THEN "sampling" ELSE "post"
  /\ UNCHANGED <<config, loops, warm, buffer, final, corruptions, rc, judgement>>

\* fflush(stdout); a timed run stops at the first sample past its duration.
Flush ==
  /\ pc = "flush"
  /\ file' = file \o out /\ out' = <<>>
  /\ i' = i + 1
  /\ IF config.timed
     THEN \E over \in BOOLEAN :
            /\ i' = MaxSamples => over
            /\ pc' = IF over THEN "post" ELSE "sampling"
     ELSE pc' = IF i' < Samples THEN "sampling" ELSE "post"
  /\ UNCHANGED <<config, loops, warm, buffer, final, corruptions, rc, judgement>>

\* validate(loops), fflush(stdout), CHECK(vkDeviceWaitIdle(...)).
Post ==
  /\ pc = "post"
  /\ file' = Append(file, [event |-> "validation_post", sample |-> i - 1,
                           loops |-> loops, pass |-> Passes(loops)])
  /\ \E idle \in BOOLEAN : Returns(IF ~idle THEN 2 ELSE IF Passes(loops) THEN 0 ELSE 3)
  /\ UNCHANGED <<state, out, judgement>>

Live == pc \notin {"exited", "dead"}

\* CHECK(...) throws: main returns 2.
Throws ==
  /\ Live
  /\ Returns(2)
  /\ UNCHANGED <<state, out, file, judgement>>

\* stdio flushes what is left when main returns.
FlushAtExit ==
  /\ pc = "exited"
  /\ file' = file \o out /\ out' = <<>>
  /\ pc' = "dead"
  /\ UNCHANGED <<state, rc, judgement>>

\* A crash or a kill loses what stdio had not written, at any byte.
Crash ==
  /\ Live
  /\ \E k \in 0..Len(out), torn \in BOOLEAN :
       file' = file \o SubSeq(out, 1, k)
                    \o (IF torn /\ k < Len(out) THEN <<[event |-> "torn"]>> ELSE <<>>)
  /\ out' = <<>>
  /\ rc' = -9
  /\ pc' = "dead"
  /\ UNCHANGED <<state, judgement>>

-----------------------------------------------------------------------------
(* Session._run. *)

Places(name) == {j \in DOMAIN file : file[j].event = name}

\* events.index(event)
Index(event) == Min({j \in DOMAIN file : file[j] = event})

\* validation_reasons(row) is empty, and the post event is the final sample's.
Accepted ==
  LET pre == file[Min(Places("validation_pre"))]
      post == file[Min(Places("validation_post"))]
      first == file[Min(Places("sample"))]
      last == file[Max(Places("sample"))]
  IN /\ rc = 0 /\ ~faulted'
     /\ \A name \in {"schema", "validation_pre", "validation_post", "sample"} : Places(name) # {}
     /\ pre.pass /\ post.pass
     /\ post.sample = last.sample /\ post.loops = last.loops
     /\ Index(post) > Index(last) /\ Index(pre) < Index(first)

\* The process ended before its time limit: the row is made and written.
Judge ==
  /\ pc = "dead"
  /\ outcome = "none"
  /\ IF Places("torn") # {}
     THEN outcome' = "raised" /\ UNCHANGED <<n, faulted>>
     ELSE /\ n' = Cardinality(Places("sample"))
          /\ faulted' \in BOOLEAN
          /\ outcome' = IF Accepted THEN "accepted" ELSE "rejected"
  /\ UNCHANGED <<state, pc, out, file, rc>>

\* The limit passes, or a signal arrives: no row is made; stop() is a Crash.
TimeLimit ==
  /\ outcome = "none"
  /\ outcome' = "raised"
  /\ UNCHANGED <<state, pc, out, file, rc, n, faulted>>

-----------------------------------------------------------------------------

RunnerStep ==
  \/ Begin \/ Sanity \/ Calibrate \/ Pre \/ Half \/ CheckHalf \/ WarmUp \/ NoWarmUp
  \/ SampleHalf \/ Sample \/ Flush \/ Post \/ Throws \/ FlushAtExit

RunnerNext == RunnerStep \/ Crash \/ Judge \/ TimeLimit

RunnerSpec == RunnerInit /\ [][RunnerNext]_runnerVars /\ WF_runnerVars(RunnerStep) /\ WF_runnerVars(Judge)

-----------------------------------------------------------------------------

RunnerTypeOK ==
  /\ config \in [differential : BOOLEAN, timed : BOOLEAN, sensitive : BOOLEAN]
  /\ pc \in {"start", "sanity", "calibrate", "pre", "half", "check_half", "warm",
             "sampling", "full", "half_after", "flush", "post", "exited", "dead"}
  /\ loops \in LoopChoices \cup {1} /\ warm \in 0..WarmCap
  /\ i \in 0..(IF config.timed THEN MaxSamples ELSE Samples)
  /\ buffer \in [loops : Nat, good : BOOLEAN]
  /\ rc \in {-9, 0, 2, 3}
  /\ outcome \in {"none", "accepted", "rejected", "raised"}
  /\ n \in 0..(i + 1) /\ faulted \in BOOLEAN
  /\ corruptions \in 0..MaxCorruptions /\ final \in BOOLEAN

\* The result of the last timed sample was checked against the CPU reference and is
\* right, and no sample is missing, in every row that is accepted: neither a half-length
\* dispatch nor an earlier one was validated in its place, and no truncated output is
\* taken for a complete one (session.py:344-352, roofline.cpp:738-739).
AcceptedIsVerified ==
  outcome = "accepted" => final /\ (~config.timed => n = Samples) /\ n = i

\* A run whose dispatches all computed right is rejected only for a crash, a failed
\* call or a counted GPU fault, whatever the family, the timing mode and the loop count
\* (an odd one too): a failed validation points at the device, never at the order of
\* the dispatches (roofline.cpp:702-768).
HealthyIsAccepted ==
  outcome = "rejected" /\ corruptions = 0 => rc \in {2, -9} \/ faulted

\* Every measurement comes to an outcome without help of the time limit: the warm-up
\* gives up on a clock that never settles (roofline.cpp:686), and the sampling ends.
EveryRunIsJudged == <>(outcome # "none")
=============================================================================
