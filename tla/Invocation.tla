----------------------------- MODULE Invocation -----------------------------
(***************************************************************************)
(* What one runner invocation promises its controller, whatever transport  *)
(* carries it: a command that was sent may start, it works at most once,   *)
(* and once the controller has been told that it ended it neither works    *)
(* nor ever starts.  AdbStop is shown to implement this.                   *)
(***************************************************************************)

VARIABLES
  work,       \* "pending" (sent, may still start), "running", "over"
  confirmed   \* stop() or a clean exit told the controller that it ended

vars == <<work, confirmed>>

Init == work = "pending" /\ confirmed = FALSE

\* Work begins only while nobody was told that it is over.
Begin ==
  /\ work = "pending"
  /\ ~confirmed
  /\ work' = "running"
  /\ UNCHANGED confirmed

\* The process exits, is killed, or gives up before executing the runner.
End ==
  /\ work # "over"
  /\ work' = "over"
  /\ UNCHANGED confirmed

\* The controller is told; it may release the device from here on.
Confirm ==
  /\ work # "running"
  /\ ~confirmed
  /\ confirmed' = TRUE
  /\ UNCHANGED work

Next == Begin \/ End \/ Confirm

Spec == Init /\ [][Next]_vars
=============================================================================
