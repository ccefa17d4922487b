------------------------------- MODULE Drain -------------------------------
(***************************************************************************)
(* How the service stops: App.Run and its shutdown sequence, runScheduler  *)
(* with Tick cut down to the steps that take and give back an item, and    *)
(* the restart requests that wait for it to be idle.                       *)
(*                                                                         *)
(* Three kinds of goroutines share the draining flag, the count of active  *)
(* runs, the run context and the store's client.                           *)
(***************************************************************************)
EXTENDS Naturals

CONSTANTS
  Waiters,   \* requests POST /restart?wait=true
  MaxItems,  \* bound: items to run
  MaxFaults  \* bound: store calls that fail though nothing was cancelled

ASSUME DrainAssumption ==
  /\ MaxItems \in Nat
  /\ MaxFaults \in Nat

VARIABLES
  main,       \* where App.Run is
  loop,       \* where runScheduler is, or Tick inside it
  answer,     \* how far each waiter is
  draining,   \* Scheduler.draining
  active,     \* activeRuns, and the counter of activeWG
  cancelled,  \* the run context is cancelled
  storeOpen,  \* the store's client is connected
  queue,      \* items still to do
  item,       \* status in the store of the next item
  agent,      \* status in the store of the agent
  detached,   \* completionCtx is free of the run context
  faults,     \* store calls that failed so far
  cause,      \* history: who ended the service first
  early,      \* history: a wait ended while Tick was about to claim
  expired     \* history: server.Shutdown gave up

stopVars == <<draining, cancelled, cause>>
docVars == <<queue, item, agent>>
historyVars == <<early, expired>>
tickVars == <<loop, active, docVars, detached, faults>>
outsideVars == <<main, answer, stopVars, storeOpen, historyVars>>
vars == <<tickVars, outsideVars>>
-----------------------------------------------------------------------------
\* A store call under a context that is done, or not.
CallSucceeds(done) ==
  /\ ~done
  /\ storeOpen
  /\ UNCHANGED faults

CallFails(done) ==
  /\ done \/ ~storeOpen \/ faults < MaxFaults
  /\ faults' = IF done \/ ~storeOpen THEN faults ELSE faults + 1

EndedBy(c) ==
  /\ cancelled' = TRUE
  /\ cause' = IF cancelled THEN cause ELSE c

\* requestShutdown
RequestShutdown(c) ==
  /\ draining' = TRUE
  /\ EndedBy(c)
-----------------------------------------------------------------------------
(* runScheduler and Tick *)

\* Where Tick has passed its draining check and the run is not counted yet.
Claiming == loop \in {"list", "claim", "claimAgent", "rollback", "start"}

\* Where the run is counted.
Counted == loop \in {"run", "complete", "release", "finish"}

LoopEndsQuietly ==
  /\ loop = "check"
  /\ draining
  /\ active = 0
  /\ loop' = "stopped"
  /\ UNCHANGED <<outsideVars, active, docVars, detached, faults>>

\* Draining() and ActiveCount() between two ticks.
LoopEnds ==
  /\ loop = "check"
  /\ draining
  /\ active = 0
  /\ RequestShutdown("loop")
  /\ loop' = "stopped"
  /\ UNCHANGED <<main, answer, active, storeOpen, docVars, detached, faults, historyVars>>

LoopWaits ==
  /\ loop = "check"
  /\ ~(draining /\ active = 0)
  /\ loop' = "select"
  /\ UNCHANGED <<outsideVars, active, docVars, detached, faults>>

LoopCancelled ==
  /\ loop = "select"
  /\ cancelled
  /\ loop' = "stopped"
  /\ UNCHANGED <<outsideVars, active, docVars, detached, faults>>

\* The ticker fires; select may take it although the context is done.
LoopTicks ==
  /\ loop = "select"
  /\ loop' = "tick"
  /\ UNCHANGED <<outsideVars, active, docVars, detached, faults>>

TickSkips ==
  /\ loop = "tick"
  /\ draining
  /\ loop' = "check"
  /\ UNCHANGED <<outsideVars, active, docVars, detached, faults>>

TickStartsAlways ==
  /\ loop = "tick"
  /\ loop' = "list"
  /\ UNCHANGED <<outsideVars, active, docVars, detached, faults>>

TickStarts ==
  /\ loop = "tick"
  /\ ~draining
  /\ loop' = "list"
  /\ UNCHANGED <<outsideVars, active, docVars, detached, faults>>

TickFinds ==
  /\ loop = "list"
  /\ CallSucceeds(cancelled)
  /\ queue > 0
  /\ item = "pending"
  /\ agent = "idle"
  /\ loop' = "claim"
  /\ UNCHANGED <<outsideVars, active, docVars, detached>>

TickFindsNothing ==
  /\ loop = "list"
  /\ \/ CallSucceeds(cancelled) /\ (queue = 0 \/ item # "pending" \/ agent # "idle")
     \/ CallFails(cancelled)
  /\ loop' = "check"
  /\ UNCHANGED <<outsideVars, active, docVars, detached>>

ClaimItem ==
  /\ loop = "claim"
  /\ CallSucceeds(cancelled)
  /\ item' = "in_progress"
  /\ loop' = "claimAgent"
  /\ UNCHANGED <<outsideVars, active, queue, agent, detached>>

ClaimItemFails ==
  /\ loop = "claim"
  /\ CallFails(cancelled)
  /\ item' \in {item, "in_progress"}
  /\ loop' = "check"
  /\ UNCHANGED <<outsideVars, active, queue, agent, detached>>

ClaimAgent ==
  /\ loop = "claimAgent"
  /\ CallSucceeds(cancelled)
  /\ agent' = "busy"
  /\ loop' = "start"
  /\ UNCHANGED <<outsideVars, active, queue, item, detached>>

ClaimAgentFails ==
  /\ loop = "claimAgent"
  /\ CallFails(cancelled)
  /\ agent' \in {agent, "busy"}
  /\ loop' = "rollback"
  /\ UNCHANGED <<outsideVars, active, queue, item, detached>>

\* Under the same context as the call that failed; an error is ignored.
Rollback ==
  /\ loop = "rollback"
  /\ \/ CallSucceeds(cancelled) /\ item' = "pending"
     \/ CallFails(cancelled) /\ item' \in {item, "pending"}
  /\ loop' = "check"
  /\ UNCHANGED <<outsideVars, active, queue, agent, detached>>

\* Only now does the run count.
StartRun ==
  /\ loop = "start"
  /\ active' = active + 1
  /\ loop' = "run"
  /\ UNCHANGED <<outsideVars, docVars, detached, faults>>

\* Process returns, and completionCtx is chosen.
RunEnds ==
  /\ loop = "run"
  /\ detached' = cancelled
  /\ loop' = "complete"
  /\ UNCHANGED <<outsideVars, active, docVars, faults>>

\* Done, or pending or failed after an error: the item is no longer in progress.
CompleteItem ==
  /\ loop = "complete"
  /\ \/ CallSucceeds(cancelled /\ ~detached)
        /\ item' = "pending" /\ queue' \in {queue, queue - 1}
     \/ CallFails(cancelled /\ ~detached)
        /\ \/ UNCHANGED <<item, queue>>
           \/ item' = "pending" /\ queue' \in {queue, queue - 1}
  /\ loop' = "release"
  /\ UNCHANGED <<outsideVars, active, agent, detached>>

ReleaseAgent ==
  /\ loop = "release"
  /\ \/ CallSucceeds(cancelled /\ ~detached) /\ agent' = "idle"
     \/ CallFails(cancelled /\ ~detached) /\ agent' \in {agent, "idle"}
  /\ loop' = "finish"
  /\ UNCHANGED <<outsideVars, active, queue, item, detached>>

FinishRunUncounted ==
  /\ loop = "finish"
  /\ loop' = "check"
  /\ UNCHANGED <<outsideVars, active, docVars, detached, faults>>

\* The deferred decrement.
FinishRun ==
  /\ loop = "finish"
  /\ active' = active - 1
  /\ loop' = "check"
  /\ UNCHANGED <<outsideVars, docVars, detached, faults>>
-----------------------------------------------------------------------------
(* restartHandler *)

\* No new request once server.Shutdown has begun.
Accepting == main \in {"serving", "stop"}

Restart ==
  /\ Accepting
  /\ draining' = TRUE
  /\ UNCHANGED <<tickVars, main, answer, cancelled, cause, storeOpen, historyVars>>

RestartWaits(w) ==
  /\ Accepting
  /\ answer[w] = "none"
  /\ draining' = TRUE
  /\ answer' = [answer EXCEPT ![w] = "waiting"]
  /\ UNCHANGED <<tickVars, main, cancelled, cause, storeOpen, historyVars>>

WaitReturnsAtOnce(w) ==
  /\ main # "exited"
  /\ answer[w] = "waiting"
  /\ answer' = [answer EXCEPT ![w] = "idle"]
  /\ early' = (early \/ Claiming)
  /\ UNCHANGED <<tickVars, main, stopVars, storeOpen, expired>>

\* activeWG.Wait returns and WaitForIdle with it.
WaitReturns(w) ==
  /\ main # "exited"
  /\ answer[w] = "waiting"
  /\ active = 0
  /\ answer' = [answer EXCEPT ![w] = "idle"]
  /\ early' = (early \/ Claiming)
  /\ UNCHANGED <<tickVars, main, stopVars, storeOpen, expired>>

WaitTimesOut(w) ==
  /\ main # "exited"
  /\ answer[w] = "waiting"
  /\ answer' = [answer EXCEPT ![w] = "timed_out"]
  /\ UNCHANGED <<tickVars, main, stopVars, storeOpen, historyVars>>

Drained(w) ==
  /\ main # "exited"
  /\ answer[w] = "idle"
  /\ RequestShutdown("wait")
  /\ answer' = [answer EXCEPT ![w] = "drained"]
  /\ UNCHANGED <<tickVars, main, storeOpen, historyVars>>

\* "drained", or the timeout's error, reaches the caller.
Answer(w) ==
  /\ main # "exited"
  /\ answer[w] \in {"drained", "timed_out"}
  /\ answer' = [answer EXCEPT ![w] = IF answer[w] = "drained" THEN "told_drained"
                                                              ELSE "told_timeout"]
  /\ UNCHANGED <<tickVars, main, stopVars, storeOpen, historyVars>>
-----------------------------------------------------------------------------
(* App.Run *)

\* SIGINT or SIGTERM ends the context that runCtx is derived from.
Signal ==
  /\ main = "serving"
  /\ ~cancelled
  /\ EndedBy("signal")
  /\ UNCHANGED <<tickVars, main, answer, draining, storeOpen, historyVars>>

MainWakes ==
  /\ main = "serving"
  /\ cancelled
  /\ main' = "stop"
  /\ UNCHANGED <<tickVars, answer, stopVars, storeOpen, historyVars>>

\* ListenAndServe failed.
ServerFails ==
  /\ main = "serving"
  /\ EndedBy("server")
  /\ main' = "stop"
  /\ UNCHANGED <<tickVars, answer, draining, storeOpen, historyVars>>

MainStopsServingAtOnce ==
  /\ main = "stop"
  /\ draining' = TRUE
  /\ main' = "close"
  /\ UNCHANGED <<tickVars, answer, cancelled, cause, storeOpen, historyVars>>

\* scheduler.Stop; then server.Shutdown refuses new requests.
MainStops ==
  /\ main = "stop"
  /\ draining' = TRUE
  /\ main' = "shutdown"
  /\ UNCHANGED <<tickVars, answer, cancelled, cause, storeOpen, historyVars>>

Unanswered == {w \in Waiters : answer[w] \in {"waiting", "idle", "drained", "timed_out"}}

\* server.Shutdown returns when every request is answered.
MainShutsDown ==
  /\ main = "shutdown"
  /\ Unanswered = {}
  /\ main' = "close"
  /\ UNCHANGED <<tickVars, answer, stopVars, storeOpen, historyVars>>

\* It gives up after ten seconds.
ShutdownExpires ==
  /\ main = "shutdown"
  /\ Unanswered # {}
  /\ main' = "close"
  /\ expired' = TRUE
  /\ UNCHANGED <<tickVars, answer, stopVars, storeOpen, early>>

MainCloses ==
  /\ main = "close"
  /\ storeOpen' = FALSE
  /\ main' = "wait"
  /\ UNCHANGED <<tickVars, answer, stopVars, historyVars>>

\* wg.Wait
MainExits ==
  /\ main = "wait"
  /\ loop = "stopped"
  /\ main' = "exited"
  /\ UNCHANGED <<tickVars, answer, stopVars, storeOpen, historyVars>>
-----------------------------------------------------------------------------
Init ==
  /\ main = "serving"
  /\ loop = "check"
  /\ answer = [w \in Waiters |-> "none"]
  /\ draining = FALSE
  /\ active = 0
  /\ cancelled = FALSE
  /\ storeOpen = TRUE
  /\ queue \in 0..MaxItems
  /\ item = "pending"
  /\ agent = "idle"
  /\ detached = FALSE
  /\ faults = 0
  /\ cause = "none"
  /\ early = FALSE
  /\ expired = FALSE

LoopStep ==
  \/ LoopEnds \/ LoopWaits \/ LoopCancelled \/ LoopTicks
  \/ TickSkips \/ TickStarts \/ TickFinds \/ TickFindsNothing
  \/ ClaimItem \/ ClaimItemFails \/ ClaimAgent \/ ClaimAgentFails \/ Rollback
  \/ StartRun \/ RunEnds \/ CompleteItem \/ ReleaseAgent \/ FinishRun

WaiterStep(w) ==
  RestartWaits(w) \/ WaitReturns(w) \/ WaitTimesOut(w) \/ Drained(w) \/ Answer(w)

MainStep == MainWakes \/ MainStops \/ MainShutsDown \/ ShutdownExpires \/ MainCloses \/ MainExits

Next ==
  \/ LoopStep
  \/ Restart \/ \E w \in Waiters : WaiterStep(w)
  \/ MainStep \/ Signal \/ ServerFails

Spec == Init /\ [][Next]_vars

\* The loop ticks, calls return, and shutdown's own timeout passes.
FairSpec == Spec /\ WF_vars(LoopStep) /\ WF_vars(MainStep)
-----------------------------------------------------------------------------
(* Properties *)

\* Types of every variable.
TypeOK ==
  /\ main \in {"serving", "stop", "shutdown", "close", "wait", "exited"}
  /\ Claiming \/ Counted \/ loop \in {"check", "select", "tick", "stopped"}
  /\ answer \in [Waiters -> {"none", "waiting", "idle", "drained", "told_drained",
                             "timed_out", "told_timeout"}]
  /\ draining \in BOOLEAN
  /\ active \in {0, 1}
  /\ cancelled \in BOOLEAN
  /\ storeOpen \in BOOLEAN
  /\ queue \in 0..MaxItems
  /\ item \in {"pending", "in_progress"}
  /\ agent \in {"idle", "busy"}
  /\ detached \in BOOLEAN
  /\ faults \in 0..MaxFaults
  /\ cause \in {"none", "loop", "wait", "signal", "server"}
  /\ early \in BOOLEAN
  /\ expired \in BOOLEAN

\* A wait that has found the service idle.
FoundIdle == {w \in Waiters : answer[w] \in {"idle", "drained", "told_drained"}}

\* Once a wait has found the service idle, nothing starts again, unless it
\* ended in the window between Tick's draining check and its count.
IdleIsStable == FoundIdle # {} /\ ~early => ~Claiming /\ ~Counted

\* A service ended by a drain leaves nothing in progress and no agent busy;
\* that window is the only way to lose something.
DrainLosesNothing ==
  loop = "stopped" /\ cause \in {"loop", "wait"} /\ faults = 0 /\ ~early =>
    item = "pending" /\ agent = "idle"

\* Who asked for a wait has an answer before the process is gone.
WaitersAreAnswered == main = "exited" /\ ~expired => Unanswered = {}

\* A restart, waited for or not, timed out or not, ends the service.
DrainEnds == draining ~> main = "exited"

\* How far from its end the loop is, at l, while it drains.
StepsFrom(l) ==
  CASE l = "list"       -> 11 [] l = "claim"   -> 10 [] l = "claimAgent" -> 9
    [] l = "rollback"   -> 8  [] l = "start"   -> 8  [] l = "run"        -> 7
    [] l = "complete"   -> 6  [] l = "release" -> 5  [] l = "finish"     -> 4
    [] l = "select"     -> 3  [] l = "tick"    -> 2  [] l = "check"      -> 1
    [] OTHER            -> 0

\* A drain is never taken back, and the loop goes straight to its end: it gives
\* back the item that it may have at hand, and looks for no other.
DrainIsStraight ==
  [][draining => draining' /\ (loop' = loop \/ StepsFrom(loop') < StepsFrom(loop))]_vars

\* What Tick writes after a cancelled run, under a context detached for that,
\* reaches the store: the item is not in progress and the agent not busy.
CleanupIsStored ==
  loop = "finish" /\ detached /\ faults = 0 => item = "pending" /\ agent = "idle"
=============================================================================
