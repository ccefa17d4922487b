------------------------------- MODULE Worker -------------------------------
(***************************************************************************)
(* One call of Worker.Process: attempts of an execution and a verification *)
(* run, each a session of a coding agent whose events executeTask stores   *)
(* until the session is idle, its channel is closed or its context ends.   *)
(*                                                                         *)
(* The contexts nest: the call's own, cancelled at shutdown; the run       *)
(* context with YARALPHO_TASK_RUN_TIMEOUT; and one per phase.  They end at *)
(* any time, the agent sends what it likes, and store calls fail.          *)
(***************************************************************************)
EXTENDS Naturals, Sequences

CONSTANTS
  MaxRetries,  \* YARALPHO_MAX_RETRIES of parseMaxRetries; less than 1 acts as 1
  MaxEvents,   \* bound: events an agent sends in one session
  MaxFaults    \* bound: store calls that fail under a live context

ASSUME WorkerAssumption ==
  /\ MaxRetries \in Nat \ {0}
  /\ MaxEvents \in Nat
  /\ MaxFaults \in Nat

VARIABLES
  pc,          \* where Process is
  hasRetries,  \* the retry limit could be read from the configuration
  attempt,     \* attempts begun
  phase,       \* "execute" or "verify"
  cancelled,   \* ctx is cancelled
  runErr,      \* Err() of the run context
  phaseErr,    \* Err() of the phase's context
  session,     \* the session of the phase
  chan,        \* its events not read yet
  sent,        \* events sent in this session
  said,        \* the last assistant message stored for it
  outcome,     \* the status executeTask has decided on
  verdict,     \* agentResp.Status
  runs,        \* the run documents
  status,      \* batch.Status of the worker's copy
  marked,      \* history: setBatchStatus(in_progress) was called
  result,      \* what Process returned
  faults       \* store calls that have failed so far

ctxVars == <<cancelled, runErr, phaseErr>>
sessionVars == <<session, chan, sent, said>>
whereVars == <<attempt, phase, hasRetries>>
batchVars == <<status, marked>>
vars == <<pc, whereVars, ctxVars, sessionVars, outcome, verdict, runs, batchVars,
          result, faults>>
-----------------------------------------------------------------------------
Attempts == 1..MaxRetries
Phases == {"execute", "verify"}
FinalRunStatus == {"succeeded", "failed", "stopped", "timed_out"}
RunStatus == {"none", "running"} \cup FinalRunStatus

\* context.Context.Err(): nil, Canceled or DeadlineExceeded.
ContextErr == {"nil", "canceled", "deadline"}

\* An assistant message is a JSON verdict or anything else.
Messages == {"success", "failure", "other"}
Events == Messages \cup {"idle"}

CallSucceeds(err) == err = "nil" /\ UNCHANGED faults

CallFails(err) ==
  /\ err # "nil" \/ faults < MaxFaults
  /\ faults' = IF err # "nil" THEN faults ELSE faults + 1

\* The run document of the current phase gets status s.
WriteRun(s) == runs' = [runs EXCEPT ![attempt][phase] = s]

\* A call that writes it returns an error; the write may have been applied.
WriteRunFails(s, err) ==
  /\ CallFails(err)
  /\ WriteRun(s) \/ UNCHANGED runs

\* A child context starts with the error of its parent.
FirstErr(parent, child) == IF child = "nil" THEN parent ELSE child

Return(r) ==
  /\ result' = r
  /\ pc' = "returned"
-----------------------------------------------------------------------------
(* Process and handleSingleTask *)

\* Incomplete work item, GetBatch or GetRepository failed, no repository path.
FetchFails ==
  /\ pc = "fetch"
  /\ Return("err")
  /\ UNCHANGED <<whereVars, ctxVars, sessionVars, outcome, verdict, runs, batchVars, faults>>

Mark ==
  /\ pc = "fetch"
  /\ status' = "in_progress"
  /\ marked' = TRUE
  /\ pc' = "client"
  /\ UNCHANGED <<whereVars, ctxVars, sessionVars, outcome, verdict, runs, result, faults>>

\* clientForRuntime does not know the agent's runtime.
UnknownRuntime ==
  /\ pc = "client"
  /\ Return("err")
  /\ UNCHANGED <<whereVars, ctxVars, sessionVars, outcome, verdict, runs, batchVars, faults>>

\* The next phase of this or of the next attempt, under a fresh context.
BeginPhase(n, p) ==
  /\ attempt' = n
  /\ phase' = p
  /\ phaseErr' = runErr
  /\ session' = "none"
  /\ chan' = <<>>
  /\ sent' = 0
  /\ said' = "nothing"
  /\ pc' = "prompt"

BeginFirstAttempt ==
  /\ pc = "client"
  /\ BeginPhase(1, "execute")
  /\ UNCHANGED <<hasRetries, cancelled, runErr, outcome, verdict, runs, batchVars,
                 result, faults>>

\* The agent reported no failure: what it did report is not looked at.
AcceptVerdict ==
  /\ pc = "judge"
  /\ verdict # "failure"
  /\ status' = "pending"
  /\ Return("ok")
  /\ UNCHANGED <<whereVars, ctxVars, sessionVars, outcome, verdict, runs, marked, faults>>

RetryOnceMore ==
  /\ pc = "judge"
  /\ verdict = "failure"
  /\ hasRetries
  /\ attempt < MaxRetries + 1
  /\ BeginPhase(attempt + 1, "execute")
  /\ UNCHANGED <<hasRetries, cancelled, runErr, outcome, verdict, runs, batchVars,
                 result, faults>>

RetryUncounted ==
  /\ pc = "judge"
  /\ verdict = "failure"
  /\ hasRetries
  /\ attempt < MaxRetries
  /\ BeginPhase(attempt, "execute")
  /\ UNCHANGED <<hasRetries, cancelled, runErr, outcome, verdict, runs, batchVars,
                 result, faults>>

\* shouldRetry says yes.
Retry ==
  /\ pc = "judge"
  /\ verdict = "failure"
  /\ hasRetries
  /\ attempt < MaxRetries
  /\ BeginPhase(attempt + 1, "execute")
  /\ UNCHANGED <<hasRetries, cancelled, runErr, outcome, verdict, runs, batchVars,
                 result, faults>>

\* shouldRetry says no: the retries are used up, or their limit is not known.
RejectVerdict ==
  /\ pc = "judge"
  /\ verdict = "failure"
  /\ ~hasRetries \/ attempt >= MaxRetries
  /\ status' = IF hasRetries THEN "failed" ELSE status
  /\ Return("err")
  /\ UNCHANGED <<whereVars, ctxVars, sessionVars, outcome, verdict, runs, marked, faults>>
-----------------------------------------------------------------------------
(* executeAndVerify, Execute and executeTask *)

\* No prompt in the configuration, or the tracker's comments cannot be read.
NoPrompt ==
  /\ pc = "prompt"
  /\ Return("err")
  /\ UNCHANGED <<whereVars, ctxVars, sessionVars, outcome, verdict, runs, batchVars, faults>>

\* The failed run is recorded if the store takes it.
StartFails ==
  /\ pc = "prompt"
  /\ \/ CallSucceeds(phaseErr) /\ WriteRun("failed")
     \/ WriteRunFails("failed", phaseErr)
  /\ status' = "failed"
  /\ Return("err")
  /\ UNCHANGED <<whereVars, ctxVars, sessionVars, outcome, verdict, marked>>

StartSession ==
  /\ pc = "prompt"
  /\ session' = "open"
  /\ pc' = "create"
  /\ UNCHANGED <<whereVars, ctxVars, chan, sent, said, outcome, verdict, runs,
                 batchVars, result, faults>>

CreateRun ==
  /\ pc = "create"
  /\ CallSucceeds(phaseErr)
  /\ WriteRun("running")
  /\ pc' = "loop"
  /\ UNCHANGED <<whereVars, ctxVars, sessionVars, outcome, verdict, batchVars, result>>

CreateRunFailsLeaking ==
  /\ pc = "create"
  /\ WriteRunFails("running", phaseErr)
  /\ status' = "failed"
  /\ Return("err")
  /\ UNCHANGED <<whereVars, ctxVars, sessionVars, outcome, verdict, marked>>

\* The deferred stop ends the session.
CreateRunFails ==
  /\ pc = "create"
  /\ WriteRunFails("running", phaseErr)
  /\ status' = "failed"
  /\ session' = "stopped"
  /\ Return("err")
  /\ UNCHANGED <<whereVars, ctxVars, chan, sent, said, outcome, verdict, marked>>

Decide(s) ==
  /\ outcome' = s
  /\ pc' = "finish"

Stored(e) == said' = IF e \in Messages THEN e ELSE said

\* An event is stored and published; an idle event ends the loop.
TakeEvent ==
  /\ pc = "loop"
  /\ chan # <<>>
  /\ CallSucceeds(phaseErr)
  /\ chan' = Tail(chan)
  /\ Stored(Head(chan))
  /\ IF Head(chan) = "idle" THEN Decide("succeeded") ELSE UNCHANGED <<outcome, pc>>
  /\ UNCHANGED <<whereVars, ctxVars, session, sent, verdict, runs, batchVars, result>>

StoreEventFails ==
  /\ pc = "loop"
  /\ chan # <<>>
  /\ CallFails(phaseErr)
  /\ chan' = Tail(chan)
  /\ Stored(Head(chan)) \/ UNCHANGED said
  /\ Decide("failed")
  /\ UNCHANGED <<whereVars, ctxVars, session, sent, verdict, runs, batchVars, result>>

\* A closed channel ends the run like an idle event.
ChannelClosed ==
  /\ pc = "loop"
  /\ session = "ended"
  /\ chan = <<>>
  /\ Decide("succeeded")
  /\ UNCHANGED <<whereVars, ctxVars, sessionVars, verdict, runs, batchVars, result, faults>>

\* select may also take ctx.Done() while events are waiting.
ContextDone ==
  /\ pc = "loop"
  /\ phaseErr # "nil"
  /\ Decide(IF phaseErr = "deadline" THEN "timed_out" ELSE "stopped")
  /\ UNCHANGED <<whereVars, ctxVars, sessionVars, verdict, runs, batchVars, result, faults>>

StatusAfterEveryRun(s) ==
  CASE s \in {"succeeded", "stopped"} -> "pending"
    [] OTHER -> "failed"

\* What the batch is set to after a run.
StatusAfter(s) ==
  CASE s = "succeeded" -> status
    [] s = "stopped" -> "pending"
    [] OTHER -> "failed"

FinishRunUnderContext ==
  /\ pc = "finish"
  /\ \/ CallSucceeds(phaseErr) /\ WriteRun(outcome)
     \/ WriteRunFails(outcome, phaseErr)
  /\ status' = StatusAfter(outcome)
  /\ session' = "stopped"
  /\ pc' = "read"
  /\ UNCHANGED <<whereVars, ctxVars, chan, sent, said, outcome, verdict, marked, result>>

\* The final status of the run and of the batch, under a context that no longer
\* ends; an error of UpdateTaskRun is only logged.  Then the deferred stop.
FinishRun ==
  /\ pc = "finish"
  /\ \/ CallSucceeds("nil") /\ WriteRun(outcome)
     \/ WriteRunFails(outcome, "nil")
  /\ status' = StatusAfter(outcome)
  /\ session' = "stopped"
  /\ pc' = "read"
  /\ UNCHANGED <<whereVars, ctxVars, chan, sent, said, outcome, verdict, marked, result>>

\* The run did not succeed: its error is returned.
RunFailed ==
  /\ pc = "read"
  /\ outcome # "succeeded"
  /\ Return("err")
  /\ UNCHANGED <<whereVars, ctxVars, sessionVars, outcome, verdict, runs, batchVars, faults>>

VerifyAnyway ==
  /\ pc = "read"
  /\ phase = "execute"
  /\ BeginPhase(attempt, "verify")
  /\ UNCHANGED <<hasRetries, cancelled, runErr, outcome, verdict, runs, batchVars,
                 result, faults>>

\* The execution run succeeded and is verified.
Verify ==
  /\ pc = "read"
  /\ phase = "execute"
  /\ outcome = "succeeded"
  /\ BeginPhase(attempt, "verify")
  /\ UNCHANGED <<hasRetries, cancelled, runErr, outcome, verdict, runs, batchVars,
                 result, faults>>

\* executeTaskWithStructuredOutput reads back the stored messages; when it
\* cannot, or finds none, the output is empty and no error is returned.
ReadVerdict ==
  /\ pc = "read"
  /\ phase = "verify"
  /\ outcome = "succeeded"
  /\ \/ CallSucceeds(phaseErr) /\ verdict' = said
     \/ CallFails(phaseErr) /\ verdict' = "nothing"
  /\ pc' = "judge"
  /\ UNCHANGED <<whereVars, ctxVars, sessionVars, outcome, runs, batchVars, result>>
-----------------------------------------------------------------------------
(* Contexts and the agent *)

\* Shutdown, seen by every context below.
Cancel ==
  /\ ~cancelled
  /\ cancelled' = TRUE
  /\ runErr' = FirstErr("canceled", runErr)
  /\ phaseErr' = FirstErr("canceled", phaseErr)
  /\ UNCHANGED <<pc, whereVars, sessionVars, outcome, verdict, runs, batchVars,
                 result, faults>>

RunDeadlineAlone ==
  /\ attempt > 0
  /\ runErr = "nil"
  /\ runErr' = "deadline"
  /\ UNCHANGED <<pc, whereVars, cancelled, phaseErr, sessionVars, outcome, verdict,
                 runs, batchVars, result, faults>>

RunDeadline ==
  /\ attempt > 0
  /\ runErr = "nil"
  /\ runErr' = "deadline"
  /\ phaseErr' = FirstErr("deadline", phaseErr)
  /\ UNCHANGED <<pc, whereVars, cancelled, sessionVars, outcome, verdict, runs,
                 batchVars, result, faults>>

PhaseDeadline ==
  /\ attempt > 0
  /\ phaseErr = "nil"
  /\ phaseErr' = "deadline"
  /\ UNCHANGED <<pc, whereVars, cancelled, runErr, sessionVars, outcome, verdict, runs,
                 batchVars, result, faults>>

AgentSends(e) ==
  /\ session = "open"
  /\ sent < MaxEvents
  /\ sent' = sent + 1
  /\ chan' = Append(chan, e)
  /\ UNCHANGED <<pc, whereVars, ctxVars, session, said, outcome, verdict, runs,
                 batchVars, result, faults>>

\* The agent's process exits, or crashes: its channel is closed.
AgentEnds ==
  /\ session = "open"
  /\ session' = "ended"
  /\ UNCHANGED <<pc, whereVars, ctxVars, chan, sent, said, outcome, verdict, runs,
                 batchVars, result, faults>>
-----------------------------------------------------------------------------
Init ==
  /\ pc = "fetch"
  /\ hasRetries \in BOOLEAN
  /\ attempt = 0
  /\ phase = "execute"
  /\ cancelled = FALSE
  /\ runErr = "nil"
  /\ phaseErr = "nil"
  /\ session = "none"
  /\ chan = <<>>
  /\ sent = 0
  /\ said = "nothing"
  /\ outcome = "running"
  /\ verdict = "nothing"
  /\ runs = [a \in Attempts |-> [p \in Phases |-> "none"]]
  /\ status \in {"pending", "in_progress", "paused"}
  /\ marked = FALSE
  /\ result = "none"
  /\ faults = 0

ProcessStep ==
  \/ FetchFails \/ Mark \/ UnknownRuntime \/ BeginFirstAttempt
  \/ AcceptVerdict \/ Retry \/ RejectVerdict

TaskStep ==
  \/ NoPrompt \/ StartFails \/ StartSession
  \/ CreateRun \/ CreateRunFails
  \/ TakeEvent \/ StoreEventFails \/ ChannelClosed \/ ContextDone
  \/ FinishRun \/ RunFailed \/ Verify \/ ReadVerdict

WorkerStep == ProcessStep \/ TaskStep

AgentStep == AgentEnds \/ \E e \in Events : AgentSends(e)

Next ==
  \/ WorkerStep
  \/ AgentStep
  \/ Cancel \/ RunDeadline \/ PhaseDeadline

Spec == Init /\ [][Next]_vars

\* Process keeps running and time passes; the agent owes nothing.
FairSpec == Spec /\ WF_vars(WorkerStep) /\ WF_vars(RunDeadline)
-----------------------------------------------------------------------------
(* Properties *)

\* Types of every variable.
TypeOK ==
  /\ pc \in {"fetch", "client", "prompt", "create", "loop", "finish", "read",
            "judge", "returned"}
  /\ hasRetries \in BOOLEAN
  /\ attempt \in 0..MaxRetries
  /\ pc \notin {"fetch", "client", "returned"} => attempt \in Attempts
  /\ phase \in Phases
  /\ cancelled \in BOOLEAN
  /\ runErr \in ContextErr
  /\ phaseErr \in ContextErr
  /\ session \in {"none", "open", "ended", "stopped"}
  /\ chan \in Seq(Events)
  /\ sent \in 0..MaxEvents
  /\ said \in Messages \cup {"nothing"}
  /\ outcome \in {"running"} \cup FinalRunStatus
  /\ verdict \in Messages \cup {"nothing"}
  /\ runs \in [Attempts -> [Phases -> RunStatus]]
  /\ status \in {"pending", "in_progress", "paused", "failed"}
  /\ marked \in BOOLEAN
  /\ result \in {"none", "ok", "err"}
  /\ faults \in 0..MaxFaults

Contract == INSTANCE WorkerContract

\* What Scheduler assumes of the worker: after any mix of retries, timeouts and
\* failing calls it writes at most one outcome, and success never after it.
FollowsContract == Contract!Spec

\* When Process returned success and no store call failed, both runs of every
\* attempt are recorded as succeeded, whichever deadline fell in between.
SuccessIsRecorded ==
  result = "ok" /\ faults = 0 =>
    \A a \in 1..attempt, p \in Phases : runs[a][p] = "succeeded"

\* No agent session outlives the call: the error paths stop it too.
SessionsAreStopped == result # "none" => session \in {"none", "stopped"}

\* Work is verified, or tried again, only after the run before it has ended
\* well; an attempt the agent could not start or finish is never repeated here.
OnlyVerdictsAreRetried ==
  \A a \in Attempts, p \in Phases :
    a < attempt \/ (a = attempt /\ p = "execute" /\ phase = "verify") =>
      runs[a][p] = "succeeded" \/ (runs[a][p] = "running" /\ faults > 0)

\* Process returns although the agent may hang without a word.
ProcessReturns == <>(result # "none")

\* What is left of a call: the phases to come, and in this one the way to its
\* end, the events of the agent, its session and the contexts that can still end.
PhasesLeft == 2 * (MaxRetries - attempt) + (IF phase = "execute" THEN 1 ELSE 0)
PlacesLeft ==
  CASE pc = "fetch"  -> 8 [] pc = "client" -> 7 [] pc = "prompt" -> 6
    [] pc = "create" -> 5 [] pc = "loop"   -> 4 [] pc = "finish" -> 3
    [] pc = "read"   -> 2 [] pc = "judge"  -> 1 [] OTHER         -> 0
SessionLeft ==
  CASE session = "none" -> 3 [] session = "open" -> 2 [] session = "ended" -> 1 [] OTHER -> 0
OneIf(p) == IF p THEN 1 ELSE 0
EventsLeft == 2 * (MaxEvents - sent) + Len(chan)
InPhase == PlacesLeft + SessionLeft + EventsLeft + OneIf(phaseErr = "nil")
StepsLeft ==
  (2 * MaxEvents + 11) * PhasesLeft + InPhase + OneIf(~cancelled) + OneIf(runErr = "nil")

\* However agents, deadlines and the store behave, each step of a call, its
\* retries included, brings its end nearer: the attempts are counted, and no
\* deadline is needed to bound the runs that one call makes.
EveryStepCounts == [][StepsLeft' \in 0..(StepsLeft - 1)]_vars

\* The verifier's reported failure is never taken for success.
FailureIsHeeded == ~(result = "ok" /\ said = "failure")
=============================================================================
