---------------------------- MODULE WorkerProofs ----------------------------
(***************************************************************************)
(* Worker implements WorkerContract, for every number of retries, events   *)
(* and faults: whatever the agent, the deadlines and the store do, one     *)
(* call writes at most one outcome to the batch, and success is returned   *)
(* only from a batch on which no failure was written.                      *)
(***************************************************************************)
EXTENDS Worker, TLAPS

\* Where the batch stands at each point of Process.
StatusInv ==
  /\ pc = "returned" <=> result # "none"
  /\ pc = "fetch" => ~marked
  /\ pc \notin {"fetch", "returned"} => marked
  /\ pc \in {"client", "prompt", "create", "loop", "finish", "judge"} => status = "in_progress"
  /\ pc = "read" /\ outcome = "succeeded" => status = "in_progress"
  /\ pc = "fetch" => status \in {"pending", "in_progress", "paused"}

\* A context is canceled only below a cancelled ctx.
CancelInv ==
  /\ runErr = "canceled" \/ phaseErr = "canceled" => cancelled
  /\ outcome = "stopped" => cancelled

\* No session before the first attempt, none left after its run.
SessionInv ==
  /\ pc \in {"fetch", "client"} => attempt = 0
  /\ pc \in {"fetch", "client", "prompt"} => session = "none"
  /\ pc \in {"read", "judge"} => session = "stopped"
  /\ pc = "returned" => session \in {"none", "stopped"}

\* The run ended well, as far as the store has not lost its final write.
EndedWell(a, p) ==
  runs[a][p] = "succeeded" \/ (runs[a][p] = "running" /\ faults > 0)

\* Which runs must have ended well by now.
RunsInv ==
  /\ \A a \in Attempts, p \in Phases : a < attempt => EndedWell(a, p)
  /\ attempt \in Attempts /\ phase = "verify" => EndedWell(attempt, "execute")
  /\ pc \in {"loop", "finish"} => runs[attempt][phase] = "running"
  /\ pc = "read" /\ outcome = "succeeded" => EndedWell(attempt, phase)
  /\ pc = "judge" \/ result = "ok" =>
       attempt \in Attempts /\ phase = "verify" /\ EndedWell(attempt, "verify")

\* The inductive invariant.
WInv == TypeOK /\ StatusInv /\ CancelInv /\ SessionInv /\ RunsInv

LEMMA CallKeepsFaults ==
  ASSUME TypeOK, NEW e, CallSucceeds(e) \/ CallFails(e)
  PROVE  faults' \in 0..MaxFaults
BY WorkerAssumption DEF TypeOK, CallSucceeds, CallFails

LEMMA RunWriteType ==
  ASSUME TypeOK, NEW s \in RunStatus, WriteRun(s)
  PROVE  runs' \in [Attempts -> [Phases -> RunStatus]]
<1>1. CASE attempt \in Attempts
  <2>1. [runs[attempt] EXCEPT ![phase] = s] \in [Phases -> RunStatus]
    BY <1>1 DEF TypeOK
  <2>2. runs' = [runs EXCEPT ![attempt] = [runs[attempt] EXCEPT ![phase] = s]]
    BY DEF WriteRun
  <2> QED  BY <2>1, <2>2 DEF TypeOK
<1>2. CASE attempt \notin Attempts
  BY <1>2 DEF TypeOK, WriteRun
<1> QED  BY <1>1, <1>2

LEMMA BeginPhaseType ==
  ASSUME TypeOK, NEW n \in Attempts, NEW p \in Phases, BeginPhase(n, p)
  PROVE  /\ attempt' \in Attempts /\ attempt' \in 0..MaxRetries
         /\ phase' \in Phases
         /\ phaseErr' \in ContextErr
         /\ session' = "none"
         /\ chan' \in Seq(Events)
         /\ sent' \in 0..MaxEvents
         /\ said' \in Messages \cup {"nothing"}
         /\ pc' = "prompt"
<1>1. chan' \in Seq(Events)
  BY DEF BeginPhase
<1> QED
  BY <1>1, WorkerAssumption DEF TypeOK, BeginPhase, Attempts
-----------------------------------------------------------------------------
(* Types *)

LEMMA WorkerTypeInit == Init => TypeOK
<1> SUFFICES ASSUME Init PROVE TypeOK
  OBVIOUS
<1>1. chan \in Seq(Events)
  BY DEF Init
<1>2. runs \in [Attempts -> [Phases -> RunStatus]]
  BY DEF Init, RunStatus
<1>3. attempt \in 0..MaxRetries /\ sent \in 0..MaxEvents /\ faults \in 0..MaxFaults
  BY WorkerAssumption DEF Init
<1>4. hasRetries \in BOOLEAN /\ cancelled \in BOOLEAN /\ marked \in BOOLEAN
  BY Zenon DEF Init
<1> QED
  BY <1>1, <1>2, <1>3, <1>4 DEF Init, TypeOK, Phases, ContextErr

\* Every step keeps the types.
LEMMA WorkerTypeStep == TypeOK /\ [Next]_vars => TypeOK'
<1> SUFFICES ASSUME TypeOK, [Next]_vars PROVE TypeOK'
  OBVIOUS
<1> USE DEF whereVars, ctxVars, sessionVars, batchVars
<1>1. CASE FetchFails \/ UnknownRuntime \/ AcceptVerdict \/ RejectVerdict
          \/ NoPrompt \/ RunFailed
  BY <1>1 DEF TypeOK, FetchFails, UnknownRuntime, AcceptVerdict, RejectVerdict,
              NoPrompt, RunFailed, Return
<1>2. CASE Mark
  BY <1>2 DEF TypeOK, Mark
<1>3. CASE BeginFirstAttempt
  <2>1. 1 \in Attempts /\ "execute" \in Phases /\ BeginPhase(1, "execute")
    BY <1>3, WorkerAssumption DEF BeginFirstAttempt, Attempts, Phases
  <2> QED  BY <1>3, <2>1, BeginPhaseType DEF TypeOK, BeginFirstAttempt
<1>4. CASE Retry
  <2>1. attempt + 1 \in Attempts /\ "execute" \in Phases /\ BeginPhase(attempt + 1, "execute")
    BY <1>4, WorkerAssumption DEF TypeOK, Retry, Attempts, Phases
  <2> QED  BY <1>4, <2>1, BeginPhaseType DEF TypeOK, Retry
<1>5. CASE Verify
  <2>1. attempt \in Attempts /\ "verify" \in Phases /\ BeginPhase(attempt, "verify")
    BY <1>5 DEF TypeOK, Verify, Phases
  <2> QED  BY <1>5, <2>1, BeginPhaseType DEF TypeOK, Verify
<1>6. CASE StartFails \/ CreateRunFails
  <2>1. runs' \in [Attempts -> [Phases -> RunStatus]]
    BY <1>6, RunWriteType
       DEF TypeOK, StartFails, CreateRunFails, WriteRunFails, RunStatus, FinalRunStatus
  <2>2. faults' \in 0..MaxFaults
    BY <1>6, CallKeepsFaults DEF StartFails, CreateRunFails, WriteRunFails
  <2> QED  BY <1>6, <2>1, <2>2 DEF TypeOK, StartFails, CreateRunFails, Return
<1>7. CASE StartSession
  BY <1>7 DEF TypeOK, StartSession
<1>8. CASE CreateRun
  <2>1. runs' \in [Attempts -> [Phases -> RunStatus]]
    BY <1>8, RunWriteType DEF CreateRun, RunStatus
  <2>2. faults' \in 0..MaxFaults
    BY <1>8, CallKeepsFaults DEF CreateRun
  <2> QED  BY <1>8, <2>1, <2>2 DEF TypeOK, CreateRun
<1>9. CASE TakeEvent \/ StoreEventFails
  <2>1. chan' \in Seq(Events)
    <3>1. chan \in Seq(Events) /\ chan # <<>> /\ chan' = Tail(chan)
      BY <1>9 DEF TypeOK, TakeEvent, StoreEventFails
    <3> QED  BY <3>1
  <2>2. faults' \in 0..MaxFaults
    BY <1>9, CallKeepsFaults DEF TakeEvent, StoreEventFails
  <2>3. said' \in Messages \cup {"nothing"}
    BY <1>9 DEF TypeOK, TakeEvent, StoreEventFails, Stored
  <2> QED
    BY <1>9, <2>1, <2>2, <2>3
       DEF TypeOK, TakeEvent, StoreEventFails, Decide, FinalRunStatus
<1>10. CASE ChannelClosed \/ ContextDone
  BY <1>10 DEF TypeOK, ChannelClosed, ContextDone, Decide, FinalRunStatus
<1>11. CASE FinishRun
  <2>1. runs' \in [Attempts -> [Phases -> RunStatus]]
    BY <1>11, RunWriteType DEF TypeOK, FinishRun, WriteRunFails, RunStatus
  <2>2. faults' \in 0..MaxFaults
    BY <1>11, CallKeepsFaults DEF FinishRun, WriteRunFails
  <2>3. status' \in {"pending", "in_progress", "paused", "failed"}
    BY <1>11 DEF TypeOK, FinishRun, StatusAfter
  <2> QED  BY <1>11, <2>1, <2>2, <2>3 DEF TypeOK, FinishRun
<1>12. CASE ReadVerdict
  BY <1>12, CallKeepsFaults DEF TypeOK, ReadVerdict
<1>13. CASE AgentEnds
  BY <1>13 DEF TypeOK, AgentEnds
<1>14. ASSUME NEW e \in Events, AgentSends(e) PROVE TypeOK'
  <2>1. chan' \in Seq(Events)
    BY <1>14 DEF TypeOK, AgentSends
  <2>2. sent' \in 0..MaxEvents
    BY <1>14, WorkerAssumption DEF TypeOK, AgentSends
  <2> QED  BY <1>14, <2>1, <2>2 DEF TypeOK, AgentSends
<1>15. CASE Cancel \/ RunDeadline \/ PhaseDeadline
  BY <1>15 DEF TypeOK, Cancel, RunDeadline, PhaseDeadline, FirstErr, ContextErr
<1>16. CASE UNCHANGED vars
  BY <1>16 DEF TypeOK, vars
<1> QED
  BY <1>1, <1>2, <1>3, <1>4, <1>5, <1>6, <1>7, <1>8, <1>9, <1>10, <1>11, <1>12,
     <1>13, <1>14, <1>15, <1>16
     DEF Next, WorkerStep, ProcessStep, TaskStep, AgentStep

\* TypeOK holds of every behaviour: attempts never exceed MaxRetries.
THEOREM WorkerTypeCorrect == Spec => []TypeOK
BY WorkerTypeInit, WorkerTypeStep, PTL DEF Spec
-----------------------------------------------------------------------------
(* The batch, the contexts and the session *)

LEMMA StatusStep == TypeOK /\ StatusInv /\ [Next]_vars => StatusInv'
<1> SUFFICES ASSUME TypeOK, StatusInv, [Next]_vars PROVE StatusInv'
  OBVIOUS
<1> USE DEF whereVars, ctxVars, sessionVars, batchVars, StatusInv
<1>1. CASE ProcessStep
  BY <1>1 DEF TypeOK, ProcessStep, FetchFails, Mark, UnknownRuntime, BeginFirstAttempt,
              AcceptVerdict, Retry, RejectVerdict, BeginPhase, Return
<1>2. CASE NoPrompt \/ StartFails \/ StartSession \/ CreateRun \/ CreateRunFails
  BY <1>2 DEF TypeOK, NoPrompt, StartFails, StartSession, CreateRun, CreateRunFails, Return
<1>3. CASE TakeEvent \/ StoreEventFails \/ ChannelClosed \/ ContextDone
  BY <1>3 DEF TypeOK, TakeEvent, StoreEventFails, ChannelClosed, ContextDone, Decide
<1>4. CASE FinishRun
  BY <1>4 DEF TypeOK, FinishRun, StatusAfter
<1>5. CASE RunFailed \/ Verify \/ ReadVerdict
  BY <1>5 DEF TypeOK, RunFailed, Verify, ReadVerdict, BeginPhase, Return
<1>6. CASE AgentStep \/ Cancel \/ RunDeadline \/ PhaseDeadline
  BY <1>6 DEF AgentStep, AgentEnds, AgentSends, Cancel, RunDeadline, PhaseDeadline
<1>7. CASE UNCHANGED vars
  BY <1>7 DEF vars
<1> QED
  BY <1>1, <1>2, <1>3, <1>4, <1>5, <1>6, <1>7 DEF Next, WorkerStep, TaskStep

LEMMA CancelStep == TypeOK /\ CancelInv /\ [Next]_vars => CancelInv'
<1> SUFFICES ASSUME TypeOK, CancelInv, [Next]_vars PROVE CancelInv'
  OBVIOUS
<1> USE DEF whereVars, ctxVars, sessionVars, batchVars, CancelInv
<1>1. CASE ProcessStep
  BY <1>1 DEF ProcessStep, FetchFails, Mark, UnknownRuntime, BeginFirstAttempt,
              AcceptVerdict, Retry, RejectVerdict, BeginPhase, Return
<1>2. CASE NoPrompt \/ StartFails \/ StartSession \/ CreateRun \/ CreateRunFails
  BY <1>2 DEF NoPrompt, StartFails, StartSession, CreateRun, CreateRunFails, Return
<1>3. CASE TakeEvent \/ StoreEventFails \/ ChannelClosed \/ ContextDone
  BY <1>3 DEF TypeOK, ContextErr, TakeEvent, StoreEventFails, ChannelClosed, ContextDone,
              Decide
<1>4. CASE FinishRun \/ RunFailed \/ Verify \/ ReadVerdict
  BY <1>4 DEF FinishRun, RunFailed, Verify, ReadVerdict, BeginPhase, Return
<1>5. CASE AgentStep \/ Cancel \/ RunDeadline \/ PhaseDeadline
  BY <1>5 DEF AgentStep, AgentEnds, AgentSends, Cancel, RunDeadline, PhaseDeadline, FirstErr
<1>6. CASE UNCHANGED vars
  BY <1>6 DEF vars
<1> QED
  BY <1>1, <1>2, <1>3, <1>4, <1>5, <1>6 DEF Next, WorkerStep, TaskStep

LEMMA SessionStep == TypeOK /\ SessionInv /\ [Next]_vars => SessionInv'
<1> SUFFICES ASSUME TypeOK, SessionInv, [Next]_vars PROVE SessionInv'
  OBVIOUS
<1> USE DEF whereVars, ctxVars, sessionVars, batchVars, SessionInv
<1>1. CASE ProcessStep
  BY <1>1 DEF ProcessStep, FetchFails, Mark, UnknownRuntime, BeginFirstAttempt,
              AcceptVerdict, Retry, RejectVerdict, BeginPhase, Return
<1>2. CASE NoPrompt \/ StartFails \/ StartSession \/ CreateRun \/ CreateRunFails
  BY <1>2 DEF NoPrompt, StartFails, StartSession, CreateRun, CreateRunFails, Return
<1>3. CASE TakeEvent \/ StoreEventFails \/ ChannelClosed \/ ContextDone
  BY <1>3 DEF TakeEvent, StoreEventFails, ChannelClosed, ContextDone, Decide
<1>4. CASE FinishRun \/ RunFailed \/ Verify \/ ReadVerdict
  BY <1>4 DEF FinishRun, RunFailed, Verify, ReadVerdict, BeginPhase, Return
<1>5. CASE AgentStep \/ Cancel \/ RunDeadline \/ PhaseDeadline
  BY <1>5 DEF AgentStep, AgentEnds, AgentSends, Cancel, RunDeadline, PhaseDeadline
<1>6. CASE UNCHANGED vars
  BY <1>6 DEF vars
<1> QED
  BY <1>1, <1>2, <1>3, <1>4, <1>5, <1>6 DEF Next, WorkerStep, TaskStep
-----------------------------------------------------------------------------
(* The run documents *)

LEMMA FaultsNeverDecrease ==
  ASSUME TypeOK, NEW e, CallSucceeds(e) \/ CallFails(e)
  PROVE  faults > 0 => faults' > 0
BY DEF TypeOK, CallSucceeds, CallFails

\* Writing the run of the current phase leaves every other run as it was.
LEMMA WriteRunElsewhere ==
  ASSUME TypeOK, attempt \in Attempts, NEW s, WriteRun(s)
  PROVE  /\ runs'[attempt][phase] = s
         /\ \A a \in Attempts, p \in Phases :
              a # attempt \/ p # phase => runs'[a][p] = runs[a][p]
BY DEF TypeOK, WriteRun

\* A final write that is lost was lost to a fault.
LEMMA LostWriteIsAFault ==
  ASSUME TypeOK, CallFails("nil")
  PROVE  faults' > 0
BY DEF TypeOK, CallFails

\* A call about the current run disturbs no other run, and no fault is undone.
LEMMA OtherRunsKept ==
  ASSUME TypeOK, attempt \in Attempts, NEW s, NEW e,
         (CallSucceeds(e) /\ WriteRun(s)) \/ WriteRunFails(s, e)
  PROVE  \A a \in Attempts, p \in Phases :
           (a # attempt \/ p # phase) /\ EndedWell(a, p) => EndedWell(a, p)'
<1>1. faults > 0 => faults' > 0
  BY FaultsNeverDecrease DEF WriteRunFails
<1>2. \A a \in Attempts, p \in Phases :
        a # attempt \/ p # phase => runs'[a][p] = runs[a][p]
  BY WriteRunElsewhere DEF WriteRunFails
<1> QED  BY <1>1, <1>2 DEF EndedWell

LEMMA RunsStep ==
  ASSUME TypeOK, StatusInv, RunsInv, [Next]_vars PROVE RunsInv'
<1> USE DEF whereVars, ctxVars, sessionVars, batchVars, Return
<1>1. CASE FetchFails \/ Mark \/ UnknownRuntime \/ AcceptVerdict \/ RejectVerdict
           \/ NoPrompt \/ RunFailed
  BY <1>1 DEF RunsInv, EndedWell, StatusInv, FetchFails, Mark, UnknownRuntime,
              AcceptVerdict, RejectVerdict, NoPrompt, RunFailed
<1>2. CASE BeginFirstAttempt
  <2>1. attempt' = 1 /\ phase' = "execute" /\ pc' = "prompt" /\ result' # "ok"
    BY <1>2 DEF BeginFirstAttempt, BeginPhase, StatusInv
  <2> QED  BY <2>1 DEF RunsInv, Attempts
<1>3. CASE Retry
  <2>1. /\ attempt' = attempt + 1 /\ phase' = "execute" /\ pc' = "prompt"
        /\ result' # "ok" /\ UNCHANGED <<runs, faults>>
    BY <1>3 DEF Retry, BeginPhase, StatusInv
  <2>2. \A p \in Phases : EndedWell(attempt, p)
    BY <1>3 DEF RunsInv, Retry, Phases
  <2>3. \A a \in Attempts, p \in Phases : a < attempt + 1 => EndedWell(a, p)
    <3>1. \A a \in Attempts : a < attempt + 1 => a < attempt \/ a = attempt
      BY DEF TypeOK, Attempts
    <3> QED  BY <2>2, <3>1 DEF RunsInv
  <2> QED  BY <2>1, <2>3 DEF RunsInv, EndedWell
<1>4. CASE Verify
  <2>1. /\ attempt' = attempt /\ phase' = "verify" /\ pc' = "prompt"
        /\ result' # "ok" /\ UNCHANGED <<runs, faults>>
    BY <1>4 DEF Verify, BeginPhase, StatusInv
  <2> QED  BY <1>4, <2>1 DEF RunsInv, EndedWell, Verify
<1>5. CASE StartFails \/ CreateRunFails
  <2>1. attempt \in Attempts /\ pc' = "returned" /\ result' = "err"
        /\ UNCHANGED <<attempt, phase, outcome>>
    BY <1>5 DEF TypeOK, StartFails, CreateRunFails
  <2>2. \A a \in Attempts, p \in Phases :
          (a # attempt \/ p # phase) /\ EndedWell(a, p) => EndedWell(a, p)'
    BY <1>5, <2>1, OtherRunsKept DEF StartFails, CreateRunFails
  <2>3. \A a \in Attempts : a < attempt => a # attempt
    BY DEF TypeOK, Attempts
  <2> QED  BY <2>1, <2>2, <2>3 DEF RunsInv, Phases
<1>6. CASE CreateRun
  <2>1. attempt \in Attempts /\ pc' = "loop" /\ result' # "ok" /\ WriteRun("running")
        /\ UNCHANGED <<attempt, phase, outcome>>
    BY <1>6 DEF TypeOK, CreateRun, StatusInv
  <2>2. \A a \in Attempts, p \in Phases :
          (a # attempt \/ p # phase) /\ EndedWell(a, p) => EndedWell(a, p)'
    BY <1>6, <2>1, OtherRunsKept DEF CreateRun
  <2>3. \A a \in Attempts : a < attempt => a # attempt
    BY DEF TypeOK, Attempts
  <2>4. runs'[attempt][phase] = "running"
    BY <2>1, WriteRunElsewhere
  <2> QED  BY <2>1, <2>2, <2>3, <2>4 DEF RunsInv, Phases
<1>7. CASE StartSession \/ TakeEvent \/ StoreEventFails \/ ChannelClosed \/ ContextDone
  <2>1. UNCHANGED <<attempt, phase, runs, result>> /\ pc' # "judge" /\ pc' # "read"
    BY <1>7 DEF StartSession, TakeEvent, StoreEventFails, ChannelClosed, ContextDone, Decide
  <2>2. faults > 0 => faults' > 0
    BY <1>7, FaultsNeverDecrease DEF TypeOK, StartSession, TakeEvent, StoreEventFails,
       ChannelClosed, ContextDone
  <2>3. result' # "ok"
    BY <1>7, <2>1 DEF StatusInv, StartSession, TakeEvent, StoreEventFails, ChannelClosed,
       ContextDone
  <2>4. pc' \in {"loop", "finish"} => pc = "loop"
    BY <1>7 DEF StartSession, TakeEvent, StoreEventFails, ChannelClosed, ContextDone, Decide
  <2> QED  BY <2>1, <2>2, <2>3, <2>4 DEF RunsInv, EndedWell
<1>8. CASE FinishRun
  <2>1. attempt \in Attempts /\ pc = "finish" /\ pc' = "read" /\ result' # "ok"
        /\ UNCHANGED <<attempt, phase, outcome>>
    BY <1>8 DEF TypeOK, FinishRun, StatusInv
  <2>2. \A a \in Attempts, p \in Phases :
          (a # attempt \/ p # phase) /\ EndedWell(a, p) => EndedWell(a, p)'
    BY <1>8, <2>1, OtherRunsKept DEF FinishRun
  <2>3. \A a \in Attempts : a < attempt => a # attempt
    BY DEF TypeOK, Attempts
  <2>4. outcome = "succeeded" => EndedWell(attempt, phase)'
    <3>1. CASE WriteRun(outcome)
      BY <2>1, <3>1, WriteRunElsewhere DEF EndedWell
    <3>2. CASE UNCHANGED runs /\ CallFails("nil")
      BY <2>1, <3>2, LostWriteIsAFault DEF RunsInv, EndedWell
    <3> QED  BY <1>8, <3>1, <3>2 DEF FinishRun, WriteRunFails
  <2> QED  BY <2>1, <2>2, <2>3, <2>4 DEF RunsInv, Phases
<1>9. CASE ReadVerdict
  <2>1. /\ pc = "read" /\ pc' = "judge" /\ phase = "verify" /\ outcome = "succeeded"
        /\ UNCHANGED <<attempt, phase, runs, result, outcome>>
    BY <1>9 DEF ReadVerdict
  <2>2. faults > 0 => faults' > 0
    BY <1>9, FaultsNeverDecrease DEF ReadVerdict
  <2>3. attempt \in Attempts /\ result # "ok"
    BY <2>1 DEF TypeOK, StatusInv
  <2> QED  BY <2>1, <2>2, <2>3 DEF RunsInv, EndedWell
<1>10. CASE AgentStep \/ Cancel \/ RunDeadline \/ PhaseDeadline
  BY <1>10 DEF RunsInv, EndedWell, AgentStep, AgentEnds, AgentSends, Cancel, RunDeadline,
               PhaseDeadline
<1>11. CASE UNCHANGED vars
  BY <1>11 DEF RunsInv, EndedWell, vars
<1> QED
  BY <1>1, <1>2, <1>3, <1>4, <1>5, <1>6, <1>7, <1>8, <1>9, <1>10, <1>11
     DEF Next, WorkerStep, ProcessStep, TaskStep
-----------------------------------------------------------------------------
(* Invariants *)

LEMMA WInvInit == Init => WInv
<1> SUFFICES ASSUME Init PROVE WInv
  OBVIOUS
<1>1. TypeOK
  BY WorkerTypeInit
<1>2. StatusInv /\ CancelInv /\ SessionInv
  BY DEF Init, StatusInv, CancelInv, SessionInv
<1>3. RunsInv
  BY DEF Init, RunsInv, EndedWell, Attempts
<1> QED  BY <1>1, <1>2, <1>3 DEF WInv

LEMMA WInvStep == WInv /\ [Next]_vars => WInv'
BY WorkerTypeStep, StatusStep, CancelStep, SessionStep, RunsStep DEF WInv

\* WInv holds of every behaviour.
THEOREM WInvHolds == Spec => []WInv
BY WInvInit, WInvStep, PTL DEF Spec

\* After a call that returned success and met no fault, both runs of every
\* attempt are recorded as succeeded.
THEOREM WorkerSuccessIsRecorded == Spec => []SuccessIsRecorded
<1>1. WInv => SuccessIsRecorded
  <2> SUFFICES ASSUME WInv, result = "ok", faults = 0,
                      NEW a \in 1..attempt, NEW p \in Phases
               PROVE  runs[a][p] = "succeeded"
    BY DEF SuccessIsRecorded
  <2>1. ~(faults > 0)
    OBVIOUS
  <2>2. attempt \in Attempts /\ phase = "verify" /\ EndedWell(attempt, "verify")
    BY DEF WInv, RunsInv
  <2>3. CASE a = attempt
    BY <2>1, <2>2, <2>3 DEF WInv, RunsInv, EndedWell, Phases
  <2>4. CASE a # attempt
    <3>1. a \in Attempts /\ a < attempt
      BY <2>2, <2>4, WorkerAssumption DEF Attempts
    <3> QED  BY <2>1, <3>1 DEF WInv, RunsInv, EndedWell
  <2> QED  BY <2>3, <2>4
<1> QED  BY <1>1, WInvHolds, PTL

\* A verification, or another attempt, follows only a run that ended well: no
\* timeout, stop or crash of a session is ever retried within the call.
THEOREM WorkerRetriesVerdictsOnly == Spec => []OnlyVerdictsAreRetried
<1>1. WInv => OnlyVerdictsAreRetried
  BY DEF WInv, RunsInv, EndedWell, OnlyVerdictsAreRetried
<1> QED  BY <1>1, WInvHolds, PTL

\* Every way out of the call stops the agent's session.
THEOREM WorkerStopsSessions == Spec => []SessionsAreStopped
<1>1. WInv => SessionsAreStopped
  BY DEF WInv, StatusInv, SessionInv, SessionsAreStopped
<1> QED  BY <1>1, WInvHolds, PTL
-----------------------------------------------------------------------------
(* Worker implements WorkerContract *)

LEMMA ContractInit == Init => Contract!Init
BY DEF Init, Contract!Init

\* Every step of the call is a step its caller may rely on, or none.
LEMMA ContractStep ==
  ASSUME WInv, [Next]_vars PROVE [Contract!Next]_Contract!vars
<1> USE DEF WInv, StatusInv, whereVars, ctxVars, sessionVars, batchVars, Contract!vars
<1>1. CASE FetchFails \/ UnknownRuntime \/ NoPrompt \/ RunFailed
  <2>1. Contract!Fail
    BY <1>1 DEF Contract!Fail, FetchFails, UnknownRuntime, NoPrompt, RunFailed, Return
  <2> QED  BY <2>1 DEF Contract!Next
<1>2. CASE Mark
  <2>1. Contract!Mark
    BY <1>2 DEF Contract!Mark, Mark
  <2> QED  BY <2>1 DEF Contract!Next
<1>3. CASE AcceptVerdict
  <2>1. Contract!Succeed
    BY <1>3 DEF Contract!Succeed, Contract!Running, AcceptVerdict, Return
  <2> QED  BY <2>1 DEF Contract!Next
<1>4. CASE RejectVerdict
  <2>1. Contract!Fail \/ Contract!FailMarked
    BY <1>4 DEF Contract!Fail, Contract!FailMarked, Contract!Running, RejectVerdict, Return
  <2> QED  BY <2>1 DEF Contract!Next
<1>5. CASE StartFails \/ CreateRunFails
  <2>1. Contract!FailMarked
    BY <1>5 DEF Contract!FailMarked, Contract!Running, StartFails, CreateRunFails, Return
  <2> QED  BY <2>1 DEF Contract!Next
<1>6. CASE FinishRun
  <2>1. CASE outcome = "succeeded"
    BY <1>6, <2>1 DEF FinishRun, StatusAfter
  <2>2. CASE outcome = "stopped"
    <3>1. Contract!WriteOutcome
      BY <1>6, <2>2 DEF CancelInv, Contract!WriteOutcome, Contract!Running, FinishRun,
                        StatusAfter
    <3> QED  BY <3>1 DEF Contract!Next
  <2>3. CASE outcome \notin {"succeeded", "stopped"}
    <3>1. Contract!WriteOutcome
      BY <1>6, <2>3 DEF Contract!WriteOutcome, Contract!Running, FinishRun, StatusAfter
    <3> QED  BY <3>1 DEF Contract!Next
  <2> QED  BY <2>1, <2>2, <2>3
<1>7. CASE Cancel
  <2>1. Contract!Cancel
    BY <1>7 DEF Contract!Cancel, Cancel
  <2> QED  BY <2>1 DEF Contract!Next
<1>8. CASE BeginFirstAttempt \/ Retry \/ Verify \/ StartSession \/ CreateRun
           \/ TakeEvent \/ StoreEventFails \/ ChannelClosed \/ ContextDone \/ ReadVerdict
  BY <1>8 DEF BeginFirstAttempt, Retry, Verify, StartSession, CreateRun, TakeEvent,
              StoreEventFails, ChannelClosed, ContextDone, ReadVerdict
<1>9. CASE AgentStep \/ RunDeadline \/ PhaseDeadline
  BY <1>9 DEF AgentStep, AgentEnds, AgentSends, RunDeadline, PhaseDeadline
<1>10. CASE UNCHANGED vars
  BY <1>10 DEF vars
<1> QED
  BY <1>1, <1>2, <1>3, <1>4, <1>5, <1>6, <1>7, <1>8, <1>9, <1>10
     DEF Next, WorkerStep, ProcessStep, TaskStep

\* One call of Process does what its caller may rely on: at most one outcome is
\* written, and success only where none was.
THEOREM WorkerImplementsContract == Spec => FollowsContract
BY ContractInit, ContractStep, WInvHolds, PTL DEF Spec, FollowsContract, Contract!Spec
-----------------------------------------------------------------------------
(* The steps of a call are counted *)

\* Arithmetic: a sum of parts, none greater than before and one smaller.
LEMMA SumDecreases ==
  ASSUME NEW a \in Nat, NEW b \in Nat, NEW c \in Nat, NEW d \in Nat, NEW e \in Nat,
         NEW f \in Nat, NEW a2 \in 0..a, NEW b2 \in 0..b, NEW c2 \in 0..c,
         NEW d2 \in 0..d, NEW e2 \in 0..e, NEW f2 \in 0..f, NEW k \in Nat,
         a2 # a \/ b2 # b \/ c2 # c \/ d2 # d \/ e2 # e \/ f2 # f
  PROVE  k + (a2 + b2 + c2 + d2) + e2 + f2
           \in 0..((k + (a + b + c + d) + e + f) - 1)
OBVIOUS

LEMMA ProductIsNat ==
  ASSUME NEW w \in Nat, NEW p \in Nat
  PROVE  w * p \in Nat
OBVIOUS

\* A phase less outweighs whatever the phase that begins has before it.
LEMMA PhaseOutweighs ==
  ASSUME NEW w \in Nat, NEW p \in Nat, NEW q \in Nat, q + 1 <= p
  PROVE  w * q + w <= w * p
<1>1. w * (q + 1) = w * q + w
  OBVIOUS
<1>2. PICK r \in Nat : p = (q + 1) + r
  <2>1. p - (q + 1) \in Nat /\ p = (q + 1) + (p - (q + 1))
    OBVIOUS
  <2> QED  BY <2>1
<1>3. w * p = w * (q + 1) + w * r
  BY <1>2
<1>4. w * r \in Nat /\ w * q \in Nat
  BY ProductIsNat
<1> QED  BY <1>1, <1>3, <1>4

LEMMA PhaseDecreases ==
  ASSUME NEW w \in Nat, NEW p \in Nat, NEW q \in Nat, q + 1 <= p,
         NEW i \in Nat, NEW j \in Nat, j < w, NEW e \in Nat, NEW f \in Nat
  PROVE  w * q + j + e + f \in 0..((w * p + i + e + f) - 1)
<1>1. w * q + w <= w * p /\ w * q \in Nat /\ w * p \in Nat
  BY PhaseOutweighs, ProductIsNat
<1> DEFINE u == w * q
           v == w * p
<1> HIDE DEF u, v
<1>2. u + w <= v /\ u \in Nat /\ v \in Nat
  BY <1>1 DEF u, v
<1>3. u + j + e + f \in 0..((v + i + e + f) - 1)
  BY <1>2
<1> QED  BY <1>3 DEF u, v

\* Every part of the measure is a number.
LeftOK ==
  /\ PlacesLeft \in 0..8
  /\ SessionLeft \in 0..3
  /\ EventsLeft \in Nat
  /\ PhasesLeft \in Nat
  /\ InPhase \in Nat

LEMMA LeftTypes == TypeOK => LeftOK
<1> SUFFICES ASSUME TypeOK PROVE LeftOK
  OBVIOUS
<1>1. PlacesLeft \in 0..8 /\ SessionLeft \in 0..3
  BY DEF PlacesLeft, SessionLeft
<1>2. EventsLeft \in Nat
  <2>1. Len(chan) \in Nat /\ sent \in 0..MaxEvents /\ MaxEvents \in Nat
    BY WorkerAssumption DEF TypeOK
  <2> QED  BY <2>1 DEF EventsLeft
<1>3. PhasesLeft \in Nat
  <2>1. attempt \in 0..MaxRetries /\ MaxRetries \in Nat
    BY WorkerAssumption DEF TypeOK
  <2> QED  BY <2>1 DEF PhasesLeft
<1>4. InPhase \in Nat
  <2>1. OneIf(phaseErr = "nil") \in 0..1
    BY DEF OneIf
  <2> QED  BY <1>1, <1>2, <2>1 DEF InPhase
<1> QED  BY <1>1, <1>2, <1>3, <1>4 DEF LeftOK

LEMMA LeftTypesNext == TypeOK' => LeftOK'
BY LeftTypes, PTL

\* A step within a phase moves one part of the measure and raises none.
LEMMA WithinPhase ==
  ASSUME TypeOK, TypeOK', UNCHANGED <<attempt, phase>>,
         PlacesLeft' <= PlacesLeft, SessionLeft' <= SessionLeft,
         EventsLeft' <= EventsLeft,
         phaseErr' = "nil" => phaseErr = "nil",
         cancelled => cancelled',
         runErr' = "nil" => runErr = "nil",
         \/ PlacesLeft' # PlacesLeft
         \/ SessionLeft' # SessionLeft
         \/ EventsLeft' # EventsLeft
         \/ phaseErr = "nil" /\ phaseErr' # "nil"
         \/ ~cancelled /\ cancelled'
         \/ runErr = "nil" /\ runErr' # "nil"
  PROVE  StepsLeft' \in 0..(StepsLeft - 1)
<1> DEFINE a == PlacesLeft
           b == SessionLeft
           c == EventsLeft
           d == OneIf(phaseErr = "nil")
           e == OneIf(~cancelled)
           f == OneIf(runErr = "nil")
           k == (2 * MaxEvents + 11) * PhasesLeft
<1>1. a \in Nat /\ b \in Nat /\ c \in Nat /\ d \in Nat /\ e \in Nat /\ f \in Nat
  BY LeftTypes DEF LeftOK, OneIf
<1>2. a' \in 0..a /\ b' \in 0..b /\ c' \in 0..c
  <2>1. a' \in Nat /\ b' \in Nat /\ c' \in Nat
    BY LeftTypesNext DEF LeftOK
  <2> QED  BY <1>1, <2>1
<1>3. d' \in 0..d /\ e' \in 0..e /\ f' \in 0..f
  BY DEF OneIf
<1>4. a' # a \/ b' # b \/ c' # c \/ d' # d \/ e' # e \/ f' # f
  BY DEF OneIf
<1>5. k \in Nat /\ k' = k
  <2>1. PhasesLeft' = PhasesLeft
    BY DEF PhasesLeft
  <2>2. 2 * MaxEvents + 11 \in Nat /\ PhasesLeft \in Nat
    BY WorkerAssumption, LeftTypes DEF LeftOK
  <2> QED  BY <2>1, <2>2, ProductIsNat
<1>6. StepsLeft = k + (a + b + c + d) + e + f
  BY DEF StepsLeft, InPhase
<1>7. StepsLeft' = k' + (a' + b' + c' + d') + e' + f'
  BY DEF StepsLeft, InPhase
<1> HIDE DEF a, b, c, d, e, f, k
<1>8. k + (a' + b' + c' + d') + e' + f' \in 0..((k + (a + b + c + d) + e + f) - 1)
  BY <1>1, <1>2, <1>3, <1>4, <1>5, SumDecreases
<1> QED  BY <1>5, <1>6, <1>7, <1>8

\* The beginning of a phase uses one of those that are left.
LEMMA NextPhase ==
  ASSUME TypeOK, TypeOK', PhasesLeft' + 1 <= PhasesLeft,
         pc' = "prompt", session' = "none", chan' = <<>>, sent' = 0,
         UNCHANGED <<cancelled, runErr>>
  PROVE  StepsLeft' \in 0..(StepsLeft - 1)
<1> DEFINE w == 2 * MaxEvents + 11
           p == PhasesLeft
           i == InPhase
           e == OneIf(~cancelled)
           f == OneIf(runErr = "nil")
<1>1. w \in Nat /\ p \in Nat /\ p' \in Nat /\ i \in Nat /\ i' \in Nat
  BY LeftTypes, LeftTypesNext, WorkerAssumption DEF LeftOK
<1>2. e \in Nat /\ f \in Nat /\ e' = e /\ f' = f
  BY DEF OneIf
<1>3. i' < w
  <2>1. PlacesLeft' = 6 /\ SessionLeft' = 3
    BY DEF PlacesLeft, SessionLeft
  <2>2. EventsLeft' = 2 * MaxEvents
    BY WorkerAssumption DEF EventsLeft
  <2>3. OneIf(phaseErr = "nil")' \in 0..1
    BY DEF OneIf
  <2> QED  BY <2>1, <2>2, <2>3, WorkerAssumption DEF InPhase
<1>4. StepsLeft = w * p + i + e + f
  BY DEF StepsLeft
<1>5. StepsLeft' = w * p' + i' + e' + f'
  BY DEF StepsLeft
<1>6. p' + 1 <= p
  OBVIOUS
<1> HIDE DEF w, p, i, e, f
<1>7. w * p' + i' + e + f \in 0..((w * p + i + e + f) - 1)
  BY <1>1, <1>2, <1>3, <1>6, PhaseDecreases
<1> QED  BY <1>2, <1>4, <1>5, <1>7

LEMMA StepCounts ==
  ASSUME TypeOK, TypeOK', SessionInv, Next PROVE StepsLeft' \in 0..(StepsLeft - 1)
<1> USE DEF whereVars, ctxVars, sessionVars, batchVars
<1>1. CASE FetchFails \/ Mark \/ UnknownRuntime \/ AcceptVerdict \/ RejectVerdict
           \/ NoPrompt \/ RunFailed \/ ReadVerdict \/ ChannelClosed \/ ContextDone
  <2>1. UNCHANGED <<whereVars, ctxVars, sessionVars>>
    BY <1>1 DEF FetchFails, Mark, UnknownRuntime, AcceptVerdict, RejectVerdict,
         NoPrompt, RunFailed, ReadVerdict, ChannelClosed, ContextDone
  <2>2. PlacesLeft' < PlacesLeft
    BY <1>1 DEF PlacesLeft, FetchFails, Mark, UnknownRuntime, AcceptVerdict, RejectVerdict,
         NoPrompt, RunFailed, ReadVerdict, ChannelClosed, ContextDone, Return, Decide
  <2>3. SessionLeft' = SessionLeft /\ EventsLeft' = EventsLeft
    BY <2>1 DEF SessionLeft, EventsLeft
  <2>4. PlacesLeft' <= PlacesLeft /\ PlacesLeft' # PlacesLeft
    BY <2>2, LeftTypes, LeftTypesNext DEF LeftOK
  <2>5. SessionLeft' <= SessionLeft /\ EventsLeft' <= EventsLeft
    BY <2>3, LeftTypes, LeftTypesNext DEF LeftOK
  <2> QED  BY <2>1, <2>4, <2>5, WithinPhase
<1>2. CASE StartFails \/ StartSession \/ CreateRun \/ CreateRunFails \/ FinishRun
  <2>1. UNCHANGED <<whereVars, ctxVars, chan, sent>>
    BY <1>2 DEF StartFails, StartSession, CreateRun, CreateRunFails, FinishRun
  <2>2. PlacesLeft' < PlacesLeft
    BY <1>2 DEF PlacesLeft, StartFails, StartSession, CreateRun, CreateRunFails, FinishRun,
         Return
  <2>3. SessionLeft' <= SessionLeft
    BY <1>2 DEF SessionInv, TypeOK, SessionLeft, StartFails, StartSession, CreateRun,
         CreateRunFails, FinishRun
  <2>4. EventsLeft' = EventsLeft
    BY <2>1 DEF EventsLeft
  <2>5. PlacesLeft' <= PlacesLeft /\ PlacesLeft' # PlacesLeft /\ EventsLeft' <= EventsLeft
    BY <2>2, <2>4, LeftTypes, LeftTypesNext DEF LeftOK
  <2> QED  BY <2>1, <2>3, <2>5, WithinPhase
<1>3. CASE TakeEvent \/ StoreEventFails
  <2>1. UNCHANGED <<whereVars, ctxVars, session, sent>>
    BY <1>3 DEF TakeEvent, StoreEventFails
  <2>2. PlacesLeft' <= PlacesLeft
    BY <1>3 DEF PlacesLeft, TakeEvent, StoreEventFails, Decide
  <2>3. Len(chan') + 1 = Len(chan) /\ Len(chan') \in Nat
    <3>1. chan \in Seq(Events) /\ chan # <<>> /\ chan' = Tail(chan)
      BY <1>3 DEF TypeOK, TakeEvent, StoreEventFails
    <3> QED  BY <3>1
  <2>4. EventsLeft' < EventsLeft
    BY <2>1, <2>3, WorkerAssumption DEF EventsLeft, TypeOK
  <2>5. SessionLeft' = SessionLeft
    BY <2>1 DEF SessionLeft
  <2>6. EventsLeft' <= EventsLeft /\ EventsLeft' # EventsLeft /\ SessionLeft' <= SessionLeft
    BY <2>4, <2>5, LeftTypes, LeftTypesNext DEF LeftOK
  <2> QED  BY <2>1, <2>2, <2>6, WithinPhase
<1>4. CASE BeginFirstAttempt \/ Retry \/ Verify
  <2>1. /\ pc' = "prompt" /\ session' = "none" /\ chan' = <<>> /\ sent' = 0
        /\ UNCHANGED <<cancelled, runErr>>
    BY <1>4 DEF BeginFirstAttempt, Retry, Verify, BeginPhase
  <2>2. attempt \in 0..MaxRetries /\ attempt' \in 0..MaxRetries /\ MaxRetries \in Nat
    BY WorkerAssumption DEF TypeOK
  <2>3. CASE BeginFirstAttempt
    <3>1. attempt = 0 /\ attempt' = 1 /\ phase' = "execute" /\ phase \in Phases
      BY <2>3 DEF BeginFirstAttempt, BeginPhase, SessionInv, TypeOK
    <3> QED  BY <2>1, <2>2, <3>1, NextPhase DEF PhasesLeft
  <2>4. CASE Retry
    <3>1. attempt' = attempt + 1 /\ phase' = "execute"
      BY <2>4 DEF Retry, BeginPhase
    <3> QED  BY <2>1, <2>2, <3>1, NextPhase DEF PhasesLeft
  <2>5. CASE Verify
    <3>1. attempt' = attempt /\ phase = "execute" /\ phase' = "verify"
      BY <2>5 DEF Verify, BeginPhase
    <3>2. PhasesLeft = 2 * (MaxRetries - attempt) + 1
      BY <3>1 DEF PhasesLeft
    <3>3. PhasesLeft' = 2 * (MaxRetries - attempt)
      BY <2>2, <3>1 DEF PhasesLeft
    <3>4. PhasesLeft' + 1 <= PhasesLeft
      BY <2>2, <3>2, <3>3
    <3> QED  BY <2>1, <3>4, NextPhase
  <2> QED  BY <1>4, <2>3, <2>4, <2>5
<1>5. CASE AgentEnds
  <2>1. UNCHANGED <<pc, whereVars, ctxVars, chan, sent>>
    BY <1>5 DEF AgentEnds
  <2>2. SessionLeft' <= SessionLeft /\ SessionLeft' # SessionLeft
    <3>1. session = "open" /\ session' = "ended"
      BY <1>5 DEF AgentEnds
    <3>2. SessionLeft = 2 /\ SessionLeft' = 1
      BY <3>1 DEF SessionLeft
    <3> QED  BY <3>2
  <2>3. PlacesLeft' = PlacesLeft /\ EventsLeft' = EventsLeft
    BY <2>1 DEF PlacesLeft, EventsLeft
  <2>4. PlacesLeft' <= PlacesLeft /\ EventsLeft' <= EventsLeft
    BY <2>3, LeftTypes, LeftTypesNext DEF LeftOK
  <2> QED  BY <2>1, <2>2, <2>4, WithinPhase
<1>6. CASE \E e \in Events : AgentSends(e)
  <2>1. PICK e \in Events : AgentSends(e)
    BY <1>6
  <2>2. UNCHANGED <<pc, whereVars, ctxVars, session>>
    BY <2>1 DEF AgentSends
  <2>3. Len(chan') = Len(chan) + 1 /\ Len(chan) \in Nat
    BY <2>1 DEF AgentSends, TypeOK
  <2>4. EventsLeft' < EventsLeft
    BY <2>1, <2>3, WorkerAssumption DEF EventsLeft, AgentSends, TypeOK
  <2>5. PlacesLeft' = PlacesLeft /\ SessionLeft' = SessionLeft
    BY <2>2 DEF PlacesLeft, SessionLeft
  <2>6. /\ EventsLeft' <= EventsLeft /\ EventsLeft' # EventsLeft
        /\ PlacesLeft' <= PlacesLeft /\ SessionLeft' <= SessionLeft
    BY <2>4, <2>5, LeftTypes, LeftTypesNext DEF LeftOK
  <2> QED  BY <2>2, <2>6, WithinPhase
<1>7. CASE Cancel \/ RunDeadline \/ PhaseDeadline
  <2>1. UNCHANGED <<pc, whereVars, sessionVars>>
    BY <1>7 DEF Cancel, RunDeadline, PhaseDeadline
  <2>2. PlacesLeft' = PlacesLeft /\ SessionLeft' = SessionLeft /\ EventsLeft' = EventsLeft
    BY <2>1 DEF PlacesLeft, SessionLeft, EventsLeft
  <2>3. /\ PlacesLeft' <= PlacesLeft /\ SessionLeft' <= SessionLeft
        /\ EventsLeft' <= EventsLeft
    BY <2>2, LeftTypes, LeftTypesNext DEF LeftOK
  <2>4. /\ phaseErr' = "nil" => phaseErr = "nil"
        /\ cancelled => cancelled'
        /\ runErr' = "nil" => runErr = "nil"
    BY <1>7 DEF Cancel, RunDeadline, PhaseDeadline, FirstErr
  <2>5. \/ phaseErr = "nil" /\ phaseErr' # "nil"
        \/ ~cancelled /\ cancelled'
        \/ runErr = "nil" /\ runErr' # "nil"
    BY <1>7 DEF Cancel, RunDeadline, PhaseDeadline
  <2> QED  BY <2>1, <2>3, <2>4, <2>5, WithinPhase
<1> QED
  BY <1>1, <1>2, <1>3, <1>4, <1>5, <1>6, <1>7
     DEF Next, WorkerStep, ProcessStep, TaskStep, AgentStep

\* Each step of a call uses up one of finitely many: no agent, deadline or store
\* can make Process begin sessions for ever, whatever the limit on retries.
THEOREM CallsAreBounded == Spec => EveryStepCounts
<1>1. WInv /\ WInv' /\ [Next]_vars => [StepsLeft' \in 0..(StepsLeft - 1)]_vars
  BY StepCounts DEF WInv
<1> QED  BY <1>1, WInvHolds, PTL DEF Spec, EveryStepCounts
-----------------------------------------------------------------------------
(* How a verdict can be lost *)

\* The agent's last word is what is judged, unless it could not be read back.
VerdictInv ==
  (pc = "judge" \/ result = "ok") /\ said = "failure" =>
    \/ pc = "judge" /\ verdict = "failure"
    \/ phaseErr # "nil"
    \/ faults > 0

LEMMA VerdictStep ==
  ASSUME TypeOK, StatusInv, VerdictInv, [Next]_vars PROVE VerdictInv'
<1> USE DEF whereVars, ctxVars, sessionVars, batchVars, Return
<1>1. CASE FetchFails \/ Mark \/ UnknownRuntime \/ RejectVerdict \/ NoPrompt \/ RunFailed
  BY <1>1 DEF VerdictInv, StatusInv, FetchFails, Mark, UnknownRuntime, RejectVerdict,
              NoPrompt, RunFailed
<1>2. CASE BeginFirstAttempt \/ Retry \/ Verify
  BY <1>2 DEF VerdictInv, StatusInv, BeginFirstAttempt, Retry, Verify, BeginPhase
<1>3. CASE AcceptVerdict
  BY <1>3 DEF VerdictInv, AcceptVerdict
<1>4. CASE StartFails \/ StartSession \/ CreateRun \/ CreateRunFails \/ FinishRun
  BY <1>4 DEF VerdictInv, StatusInv, StartFails, StartSession, CreateRun, CreateRunFails,
              FinishRun
<1>5. CASE TakeEvent \/ StoreEventFails \/ ChannelClosed \/ ContextDone
  BY <1>5 DEF VerdictInv, StatusInv, TakeEvent, StoreEventFails, ChannelClosed,
              ContextDone, Decide
<1>6. CASE ReadVerdict
  <2>1. pc' = "judge" /\ UNCHANGED <<said, phaseErr>>
    BY <1>6 DEF ReadVerdict
  <2>2. CASE verdict' = said
    BY <2>1, <2>2 DEF VerdictInv
  <2>3. CASE CallFails(phaseErr)
    <3>1. phaseErr = "nil" => faults' > 0
      BY <2>3, LostWriteIsAFault
    <3> QED  BY <2>1, <3>1 DEF VerdictInv
  <2> QED  BY <1>6, <2>2, <2>3 DEF ReadVerdict
<1>7. CASE AgentStep
  BY <1>7 DEF VerdictInv, AgentStep, AgentEnds, AgentSends
<1>8. CASE Cancel \/ RunDeadline \/ PhaseDeadline
  BY <1>8 DEF VerdictInv, Cancel, RunDeadline, PhaseDeadline, FirstErr
<1>9. CASE UNCHANGED vars
  BY <1>9 DEF VerdictInv, vars
<1> QED
  BY <1>1, <1>2, <1>3, <1>4, <1>5, <1>6, <1>7, <1>8, <1>9
     DEF Next, WorkerStep, ProcessStep, TaskStep

\* A reported failure is taken for success only if the context of the phase ended
\* or a store call failed: the read-back is the one place where it can be lost.
THEOREM VerdictsAreHeeded ==
  Spec => [](~FailureIsHeeded => phaseErr # "nil" \/ faults > 0)
<1>1. Init => VerdictInv
  BY DEF Init, VerdictInv
<1>2. WInv /\ VerdictInv => (~FailureIsHeeded => phaseErr # "nil" \/ faults > 0)
  BY DEF WInv, StatusInv, VerdictInv, FailureIsHeeded
<1>3. WInv /\ VerdictInv /\ [Next]_vars => VerdictInv'
  BY VerdictStep DEF WInv
<1> QED  BY <1>1, <1>2, <1>3, WInvHolds, PTL DEF Spec
=============================================================================
