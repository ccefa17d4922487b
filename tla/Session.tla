------------------------------- MODULE Session -------------------------------
(***************************************************************************)
(* A session of the agent: StartSession of the two runtimes and the run    *)
(* that reads its channel (executeTask).                                   *)
(*                                                                         *)
(* Codex runs a wrapper process.  A goroutine, the pump, reads the lines   *)
(* of its output and sends them to the channel, which it alone closes.     *)
(* GitHub has the SDK call a handler for each event; the handler sends to  *)
(* the channel or drops, and stop, called by the run, closes it.           *)
(***************************************************************************)
EXTENDS Naturals, Sequences

CONSTANTS
  Runtimes,   \* which of "codex", "github" are run
  MaxEvents,  \* bound: lines or events of the agent
  Buffer,     \* eventBufferSize, the capacity of the channel
  Pipe        \* bound: lines that fit in the pipe or connection of the agent

ASSUME SessionAssumption ==
  /\ Runtimes \subseteq {"codex", "github"}
  /\ MaxEvents \in Nat
  /\ Buffer \in Nat \ {0}
  /\ Pipe \in Nat \ {0}

VARIABLES
  runtime,   \* which of the two it is
  deadline,  \* a timeout is set for the phase or for the run above it
  agent,     \* the agent: working, done, crashed, killed
  said,      \* how many lines it has written; line n is event n
  malformed, \* the lines that are not JSON, or events that do not encode
  huge,      \* the first line longer than the scanner's buffer, 0 if none
  pipe,      \* what the agent has written and nobody has read
  pump,      \* where the goroutine of Codex is, or the handler of GitHub
  hand,      \* the event it is about to send, 0 if none
  reaped,    \* cmd.Wait has returned
  chan,      \* events in the channel
  closed,    \* the channel is closed
  run,       \* where executeTask is, with the stop that it defers
  outcome,   \* what ended its loop
  got,       \* the events that it has stored
  ctxDone,   \* the context of the phase is done
  detached,  \* handlerCtx is cancelled and the handler unsubscribed
  dropped,   \* history: events that found the channel full
  late       \* history: the context was done when the loop ended

agentVars == <<agent, said, malformed, huge>>
pumpVars == <<pump, hand, reaped>>
chanVars == <<chan, closed>>
runVars == <<run, outcome, got, late>>
vars == <<runtime, deadline, agentVars, pipe, pumpVars, chanVars, runVars, ctxDone,
          detached, dropped>>

Lines == 1..MaxEvents

\* The event that ends a run, synthetic for Codex, the agent's own for GitHub.
Idle == MaxEvents + 1
-----------------------------------------------------------------------------
(* The agent *)

\* A line of output, or an event of the SDK.
AgentSays ==
  /\ agent = "working"
  /\ said < MaxEvents
  /\ Len(pipe) < Pipe
  /\ said' = said + 1
  /\ pipe' = Append(pipe, said')
  /\ malformed' \in {malformed, malformed \union {said'}}
  /\ huge' \in IF runtime = "codex" /\ huge = 0 THEN {0, said'} ELSE {huge}
  /\ UNCHANGED <<runtime, deadline, agent, pumpVars, chanVars, runVars, ctxDone, detached, dropped>>

\* Codex's wrapper exits; GitHub's session says that it is idle.
AgentIsDone ==
  /\ agent = "working"
  /\ agent' = "done"
  /\ IF runtime = "codex"
       THEN UNCHANGED pipe
       ELSE Len(pipe) < Pipe /\ pipe' = Append(pipe, Idle)
  /\ UNCHANGED <<runtime, deadline, said, malformed, huge, pumpVars, chanVars, runVars,
                 ctxDone, detached, dropped>>

AgentCrashes ==
  /\ agent = "working"
  /\ agent' = "crashed"
  /\ UNCHANGED <<runtime, deadline, said, malformed, huge, pipe, pumpVars, chanVars, runVars,
                 ctxDone, detached, dropped>>

Killed == IF agent = "working" THEN "killed" ELSE agent

\* exec.CommandContext: the process does not outlive its context.
ContextKills ==
  /\ runtime = "codex"
  /\ ctxDone
  /\ agent = "working"
  /\ agent' = "killed"
  /\ UNCHANGED <<runtime, deadline, said, malformed, huge, pipe, pumpVars, chanVars, runVars,
                 ctxDone, detached, dropped>>
-----------------------------------------------------------------------------
(* The channel *)

HasRoom == Len(chan) < Buffer

SendAnyway(e) == chan' = Append(chan, e)

Send(e) ==
  /\ HasRoom
  /\ chan' = Append(chan, e)
-----------------------------------------------------------------------------
(* The pump of Codex *)

PumpGoes(place) ==
  /\ pump' = place
  /\ UNCHANGED <<runtime, deadline, said, malformed, huge, runVars, ctxDone, detached, dropped>>

\* stdoutScanner.Scan returned a line.
PumpReads ==
  /\ pump = "scan"
  /\ pipe # <<>>
  /\ Head(pipe) \notin malformed \union {huge}
  /\ hand' = Head(pipe)
  /\ pipe' = Tail(pipe)
  /\ PumpGoes("send")
  /\ UNCHANGED <<agent, reaped, chanVars>>

PumpSkips ==
  /\ pump = "scan"
  /\ pipe # <<>>
  /\ Head(pipe) \in malformed \ {huge}
  /\ pipe' = Tail(pipe)
  /\ PumpGoes("scan")
  /\ UNCHANGED <<agent, hand, reaped, chanVars>>

\* cmd.Wait closes the pipe under a reader that has not come to its end.
PumpWaitsEarly ==
  /\ pump = "scan"
  /\ agent # "working"
  /\ PumpGoes("wait")
  /\ UNCHANGED <<agent, pipe, hand, reaped, chanVars>>

\* End of file, or a line that the scanner's buffer does not hold: what comes
\* after such a line is never read.
PumpStopsReading ==
  /\ pump = "scan"
  /\ IF pipe = <<>> THEN agent # "working" ELSE Head(pipe) = huge
  /\ PumpGoes("wait")
  /\ UNCHANGED <<agent, pipe, hand, reaped, chanVars>>

PumpSends ==
  /\ pump = "send"
  /\ Send(hand)
  /\ hand' = 0
  /\ PumpGoes("scan")
  /\ UNCHANGED <<agent, pipe, reaped, closed>>

PumpSendsOnly ==
  /\ pump = "send"
  /\ ctxDone
  /\ Send(hand)
  /\ hand' = 0
  /\ PumpGoes("scan")
  /\ UNCHANGED <<agent, pipe, reaped, closed>>

\* ctx.Done while sending: the pump calls stop.
PumpIsCancelled ==
  /\ pump = "send"
  /\ ctxDone
  /\ agent' = Killed
  /\ hand' = 0
  /\ PumpGoes("drain")
  /\ UNCHANGED <<pipe, reaped, chanVars>>

\* stderrWG.Wait; the process is not waited for on this way out.
PumpDrains ==
  /\ pump = "drain"
  /\ agent # "working"
  /\ PumpGoes("close")
  /\ UNCHANGED <<agent, pipe, hand, reaped, chanVars>>

ScanFailed == pipe # <<>> /\ Head(pipe) = huge

ProcessOk == {agent = "done"} \union IF ctxDone THEN {FALSE} ELSE {}

IdlesAlways ==
  /\ pump = "wait"
  /\ agent # "working"
  /\ reaped' = TRUE
  /\ PumpGoes("idle")
  /\ UNCHANGED <<agent, pipe, hand, chanVars>>

\* cmd.Wait, which may answer with the context's error although the process
\* ended well; then shouldEmitIdle.
PumpWaits ==
  /\ pump = "wait"
  /\ agent # "working"
  /\ reaped' = TRUE
  /\ \E ok \in ProcessOk : PumpGoes(IF ok \/ ScanFailed THEN "idle" ELSE "close")
  /\ UNCHANGED <<agent, pipe, hand, chanVars>>

PumpSendsIdle ==
  /\ pump = "idle"
  /\ Send(Idle)
  /\ PumpGoes("close")
  /\ UNCHANGED <<agent, pipe, hand, reaped, closed>>

PumpOmitsIdle ==
  /\ pump = "idle"
  /\ ctxDone
  /\ PumpGoes("close")
  /\ UNCHANGED <<agent, pipe, hand, reaped, chanVars>>

PumpReturns ==
  /\ pump = "close"
  /\ PumpGoes("ended")
  /\ UNCHANGED <<agent, pipe, hand, reaped, chanVars>>

PumpCloses ==
  /\ pump = "close"
  /\ closed' = TRUE
  /\ PumpGoes("ended")
  /\ UNCHANGED <<agent, pipe, hand, reaped, chan>>
-----------------------------------------------------------------------------
(* The handler of GitHub *)

\* The SDK calls the handler for one event at a time.
HandlerIsCalled ==
  /\ pump = "listen"
  /\ pipe # <<>>
  /\ ~detached
  /\ pipe' = Tail(pipe)
  /\ IF Head(pipe) \in malformed
       THEN PumpGoes("listen") /\ UNCHANGED hand
       ELSE PumpGoes("called") /\ hand' = Head(pipe)
  /\ UNCHANGED <<agent, reaped, chanVars>>

HandlerReturns ==
  /\ pump' = "listen"
  /\ hand' = 0
  /\ UNCHANGED <<runtime, deadline, agentVars, pipe, reaped, closed, runVars, ctxDone, detached>>

\* The first select: handlerCtx is done, or go on.
HandlerChecks ==
  /\ pump = "called"
  /\ ~detached
  /\ PumpGoes("offer")
  /\ UNCHANGED <<agent, pipe, hand, reaped, chanVars>>

HandlerSends ==
  /\ pump = "offer"
  /\ Send(hand)
  /\ HandlerReturns
  /\ UNCHANGED dropped

HandlerGivesUp ==
  /\ \/ pump = "called" /\ detached
     \/ pump = "offer" /\ (detached \/ ctxDone)
  /\ HandlerReturns
  /\ UNCHANGED <<chan, dropped>>

\* The default of the second select, taken when no other case is ready.
HandlerDrops ==
  /\ pump = "offer"
  /\ ~HasRoom /\ ~detached /\ ~ctxDone
  /\ dropped' = dropped \union {hand}
  /\ HandlerReturns
  /\ UNCHANGED chan
-----------------------------------------------------------------------------
(* The run: the loop of executeTask and the stop that it defers *)

Leaves(why) ==
  /\ outcome' = why
  /\ late' = ctxDone
  /\ run' = IF runtime = "codex" THEN "kill" ELSE "cancel"

\* session.Send of the prompt, the last call of GitHub's StartSession.
PromptSent ==
  /\ run = "prompt"
  /\ ~ctxDone
  /\ run' = "reading"
  /\ UNCHANGED <<runtime, deadline, agentVars, pipe, pumpVars, chanVars, outcome, got, late,
                 ctxDone, detached, dropped>>

PromptFails ==
  /\ run = "prompt"
  /\ Leaves("not_started")
  /\ UNCHANGED <<runtime, deadline, agentVars, pipe, pumpVars, chanVars, got, ctxDone,
                 detached, dropped>>

CreateRunFails ==
  /\ run = "reading"
  /\ got = <<>>
  /\ Leaves("failed")
  /\ UNCHANGED <<runtime, deadline, agentVars, pipe, pumpVars, chanVars, got, ctxDone,
                 detached, dropped>>

TakesPastIdle ==
  /\ run = "reading"
  /\ chan # <<>>
  /\ ~ctxDone
  /\ got' = Append(got, Head(chan))
  /\ chan' = Tail(chan)
  /\ UNCHANGED <<runtime, deadline, agentVars, pipe, pumpVars, closed, run, outcome, late,
                 ctxDone, detached, dropped>>

\* InsertSessionEvent under a live context; the idle event ends the loop.
TakesEvent ==
  /\ run = "reading"
  /\ chan # <<>>
  /\ ~ctxDone
  /\ got' = Append(got, Head(chan))
  /\ chan' = Tail(chan)
  /\ IF Head(chan) = Idle THEN Leaves("idle") ELSE UNCHANGED <<run, outcome, late>>
  /\ UNCHANGED <<runtime, deadline, agentVars, pipe, pumpVars, closed, ctxDone, detached, dropped>>

\* The event is taken and lost.
StoreFails ==
  /\ run = "reading"
  /\ chan # <<>>
  /\ chan' = Tail(chan)
  /\ Leaves("failed")
  /\ UNCHANGED <<runtime, deadline, agentVars, pipe, pumpVars, closed, got, ctxDone, detached,
                 dropped>>

\* A closed channel leaves the status of the run as it was: succeeded.
ChannelClosed ==
  /\ run = "reading"
  /\ closed
  /\ chan = <<>>
  /\ Leaves("closed")
  /\ UNCHANGED <<runtime, deadline, agentVars, pipe, pumpVars, chanVars, got, ctxDone,
                 detached, dropped>>

\* select may take any case that is ready.
ContextDone ==
  /\ run = "reading"
  /\ ctxDone
  /\ Leaves("cancelled")
  /\ UNCHANGED <<runtime, deadline, agentVars, pipe, pumpVars, chanVars, got, ctxDone,
                 detached, dropped>>

\* stop of Codex
StopKills ==
  /\ run = "kill"
  /\ agent' = Killed
  /\ run' = "left"
  /\ UNCHANGED <<runtime, deadline, said, malformed, huge, pipe, pumpVars, chanVars, outcome,
                 got, late, ctxDone, detached, dropped>>

\* stop of GitHub: cancel and unsubscribe
StopDetaches ==
  /\ run = "cancel"
  /\ detached' = TRUE
  /\ run' = "join"
  /\ UNCHANGED <<runtime, deadline, agentVars, pipe, pumpVars, chanVars, outcome, got, late,
                 ctxDone, dropped>>

StopJoinsNobody ==
  /\ run = "join"
  /\ agent' = Killed
  /\ run' = "close"
  /\ UNCHANGED <<runtime, deadline, said, malformed, huge, pipe, pumpVars, chanVars, outcome,
                 got, late, ctxDone, detached, dropped>>

\* client.Stop ends the agent and the connection, whose reader is the one that
\* calls the handler.
StopJoins ==
  /\ run = "join"
  /\ pump = "listen"
  /\ pump' = "ended"
  /\ agent' = Killed
  /\ pipe' = <<>>
  /\ run' = "close"
  /\ UNCHANGED <<runtime, deadline, said, malformed, huge, hand, reaped, chanVars, outcome,
                 got, late, ctxDone, detached, dropped>>

StopCloses ==
  /\ run = "close"
  /\ closed' = TRUE
  /\ run' = "left"
  /\ UNCHANGED <<runtime, deadline, agentVars, pipe, pumpVars, chan, outcome, got, late,
                 ctxDone, detached, dropped>>

ContextEnds ==
  /\ ~ctxDone
  /\ ctxDone' = TRUE
  /\ UNCHANGED <<runtime, deadline, agentVars, pipe, pumpVars, chanVars, runVars, detached,
                 dropped>>

\* The deadline of the phase or the run, or a shutdown.
DeadlinePasses == ContextEnds

\* The callers of executeTask return: their cancel is a func that does nothing
\* unless a timeout is set.
CallerReturns ==
  /\ run = "left"
  /\ deadline
  /\ ContextEnds
-----------------------------------------------------------------------------
Init ==
  /\ runtime \in Runtimes
  /\ deadline \in BOOLEAN
  /\ agent = "working"
  /\ said = 0
  /\ malformed = {}
  /\ huge = 0
  /\ pipe = <<>>
  /\ pump = IF runtime = "codex" THEN "scan" ELSE "listen"
  /\ hand = 0
  /\ reaped = FALSE
  /\ chan = <<>>
  /\ closed = FALSE
  /\ run = IF runtime = "codex" THEN "reading" ELSE "prompt"
  /\ outcome = "none"
  /\ got = <<>>
  /\ ctxDone = FALSE
  /\ detached = FALSE
  /\ dropped = {}
  /\ late = FALSE

AgentStep == AgentSays \/ AgentIsDone \/ AgentCrashes

PumpStep ==
  \/ PumpReads \/ PumpSkips \/ PumpStopsReading \/ PumpSends \/ PumpIsCancelled
  \/ PumpDrains \/ PumpWaits \/ PumpSendsIdle \/ PumpOmitsIdle \/ PumpCloses

HandlerStep ==
  \/ HandlerIsCalled \/ HandlerChecks \/ HandlerSends \/ HandlerGivesUp \/ HandlerDrops

RunStep ==
  \/ PromptSent \/ PromptFails \/ CreateRunFails
  \/ TakesEvent \/ StoreFails \/ ChannelClosed \/ ContextDone

StopStep == StopKills \/ StopDetaches \/ StopJoins \/ StopCloses

Next ==
  \/ AgentStep \/ ContextKills
  \/ PumpStep \/ HandlerStep
  \/ RunStep \/ StopStep
  \/ DeadlinePasses \/ CallerReturns

Spec == Init /\ [][Next]_vars

\* Goroutines go on where nothing blocks them, and a context with a deadline
\* ends after the run: by a caller's cancel, or at the latest by its timer.  The
\* agent may hang, and nothing need end a context whose timeouts are switched off.
FairSpec ==
  /\ Spec
  /\ WF_vars(PumpStep) /\ WF_vars(HandlerStep)
  /\ WF_vars(RunStep) /\ WF_vars(StopStep)
  /\ WF_vars(ContextKills) /\ WF_vars(CallerReturns)
-----------------------------------------------------------------------------
(* Properties *)

PumpPlaces == {"scan", "send", "drain", "wait", "idle", "close", "ended"}
HandlerPlaces == {"listen", "called", "offer", "ended"}

\* Types of every variable; the event in the hand is there while it is sent.
TypeOK ==
  /\ runtime \in Runtimes
  /\ deadline \in BOOLEAN
  /\ agent \in {"working", "done", "crashed", "killed"}
  /\ said \in 0..MaxEvents
  /\ malformed \subseteq Lines
  /\ huge \in 0..MaxEvents
  /\ pipe \in Seq(1..Idle)
  /\ pump \in IF runtime = "codex" THEN PumpPlaces ELSE HandlerPlaces
  /\ hand \in IF pump \in {"send", "called", "offer"} THEN 1..Idle ELSE {0}
  /\ reaped \in BOOLEAN
  /\ chan \in Seq(1..Idle)
  /\ Len(chan) <= Buffer
  /\ closed \in BOOLEAN
  /\ run \in {"prompt", "reading", "kill", "cancel", "join", "close", "left"}
  /\ outcome \in {"none", "not_started", "failed", "idle", "closed", "cancelled"}
  /\ got \in Seq(1..Idle)
  /\ ctxDone \in BOOLEAN
  /\ detached \in BOOLEAN
  /\ dropped \subseteq 1..Idle
  /\ late \in BOOLEAN

\* The handler's send would panic on a closed channel: whoever closes it has
\* seen to it that nobody is sending or will send.
NeverSendsOnClosed == closed => pump = "ended"

Stored(n) == \E i \in DOMAIN got : got[i] = n

\* Events that no one but the agent has seen.
Skipped(n) == n \in malformed \/ (huge # 0 /\ n >= huge)

\* interface.go "forward events exactly as received so downstream storage can
\* persist the full record": a run that its session ended has stored every
\* event of the agent, except those that found the channel full, malformed
\* lines, and what follows a line too long for the scanner.
RecordIsComplete ==
  outcome \in {"idle", "closed"} /\ ~late =>
    \A n \in 1..said : Stored(n) \/ Skipped(n) \/ n \in dropped

\* README "synthetic session.idle when the wrapper process exits cleanly": a
\* run ends by the idle event of Codex only if the process has exited well, or
\* its output could not be read to the end.
IdleIsEarned ==
  runtime = "codex" /\ Stored(Idle) => reaped /\ (agent = "done" \/ ScanFailed)

\* README "On timeout, the worker ... marks the TaskRun timed out": a process
\* killed by the deadline does not make its run a success.
TimeoutIsRecorded == outcome \in {"idle", "closed"} => agent # "killed"

\* Each runtime keeps the promise of AgentStream.
Stream == INSTANCE AgentStream WITH
  working <- agent = "working",
  reading <- run \in {"prompt", "reading"}
FollowsStream == Stream!Spec

\* A run ends when its agent does, without the help of a deadline, unless
\* GitHub's agent crashed or its idle event was dropped.
EndReachesTheRun ==
  agent # "working" ~>
    \/ run \notin {"prompt", "reading"}
    \/ runtime = "github" /\ (agent = "crashed" \/ Idle \in dropped)

\* The pump of Codex waits for room that no reader will make.
PumpIsStuck == pump \in {"send", "idle"} /\ ~HasRoom

\* interface.go "stop must release any SDK resources": after the run the agent
\* ends, and so does whatever fed the channel, however full the channel is and
\* whatever the agent was writing; only a pump that is stuck under a context
\* without a deadline stays until the service is shut down.
SessionIsReleased ==
  LET ended == pump = "ended" /\ closed
  IN  /\ run = "left" ~> agent # "working" /\ (ended \/ (PumpIsStuck /\ ~deadline))
      /\ run = "left" /\ ctxDone ~> agent # "working" /\ ended
=============================================================================
