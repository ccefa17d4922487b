--------------------------- MODULE WorkerContract ---------------------------
(***************************************************************************)
(* What the scheduler may assume of one call of Worker.Process: it marks   *)
(* the batch in progress, writes at most one other status, and returns     *)
(* success only from a batch it has put back to pending.  Scheduler's      *)
(* worker steps are these, and Worker is shown to implement them.          *)
(***************************************************************************)

VARIABLES
  status,     \* the status of the worker's batch copy
  marked,     \* it has been set to in_progress
  cancelled,  \* the run's context is cancelled
  result      \* "none" until Process returns "ok" or "err"

vars == <<status, marked, cancelled, result>>

Init ==
  /\ status \in {"pending", "in_progress", "paused"}
  /\ ~marked
  /\ ~cancelled
  /\ result = "none"

Running == result = "none" /\ marked /\ status = "in_progress"

Mark ==
  /\ result = "none"
  /\ ~marked
  /\ marked' = TRUE
  /\ status' = "in_progress"
  /\ UNCHANGED <<cancelled, result>>

Succeed ==
  /\ Running
  /\ status' = "pending"
  /\ result' = "ok"
  /\ UNCHANGED <<marked, cancelled>>

\* An attempt failed, or was stopped by a cancellation: Process goes on to fail.
WriteOutcome ==
  /\ Running
  /\ status' = "failed" \/ (cancelled /\ status' = "pending")
  /\ UNCHANGED <<marked, cancelled, result>>

Fail ==
  /\ result = "none"
  /\ result' = "err"
  /\ UNCHANGED <<status, marked, cancelled>>

\* The last failure is written and returned in one step.
FailMarked ==
  /\ Running
  /\ status' = "failed"
  /\ result' = "err"
  /\ UNCHANGED <<marked, cancelled>>

Cancel ==
  /\ ~cancelled
  /\ cancelled' = TRUE
  /\ UNCHANGED <<status, marked, result>>

Next == Mark \/ Succeed \/ WriteOutcome \/ Fail \/ FailMarked \/ Cancel

Spec == Init /\ [][Next]_vars
=============================================================================
