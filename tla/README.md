# TLA+ models of the yaralpho runner

The runner takes batches of work items over HTTP, hands one item at a time to a
coding agent, retries what fails, and keeps everything in MongoDB.  These
modules model its concurrency and its failures; TLC checks them on small
instances and TLAPS proves the central results for every instance.

Run `tlc -config SchedHttp.cfg MCScheduler.tla`, and so on for the other
configurations (the module of each run is in `PROJECT.json`), and `tlapm` on
each of the eight modules whose name ends in `Proofs`.

## 1. Inventory

| Part | State | Operations | Talks to |
|---|---|---|---|
| Scheduler (`internal/scheduler`) | draining flag, active-run counter | `Tick`, `SetDraining`, `WaitForIdle`, `Stop` | store, worker |
| Worker (`internal/consumer/worker.go`) | its copy of the batch | `Process`: execute, verify, retry | store, task execution, tracker, notifier |
| Task execution (`internal/consumer/task_helpers.go`) | run document, session events | `executeTask` and its two wrappers, `setBatchStatus` | agent runtime, store, event bus |
| Agent runtimes (`internal/copilot`) | a child process or SDK session, an event channel | `StartSession`, stop | task execution |
| Event bus (`internal/bus`) | sessions, subscribers, buffers, idle timers | `Publish`, `Subscribe`, `Close` | task execution, live stream |
| Live stream (`run_events_live_handler.go`) | cursor, keys seen | backfill, forward, heartbeat | bus, store, browser |
| HTTP handlers (`internal/app`) | none of their own | batches: add, pause, resume, restart; agents and repositories: create, update, delete; restart of the service | store, scheduler |
| Store (`internal/storage`) | batches, agents, repositories, runs, events | read, list newest first, replace a document | MongoDB |
| Process (`app.go`, `cmd/main.go`) | context, server, goroutines | run, request shutdown, close | all of them |
| Web UI (`internal/app/ui`) | list of events, reconnect timer | merge, reconnect | live stream |
| Tracker, notifier, configuration, scripts | none | commands, messages, settings | outside |

What makes it hard:

* **Documents are replaced whole.**  Every writer (Tick, the worker, each
  request) reads a batch, edits its copy and writes all of it back with no
  version check.  A copy may be as old as a run, an hour by default
  (`config.go:43`; the repository's README says twenty minutes).
* **Calls fail half way.**  A write may fail, or fail and still have been
  applied; a claim is two writes, a completion two more; the context is
  cancelled between any two of them.
* **The process dies.**  Only the store survives, with the item in progress and
  the agent busy.
* **Check and act are apart.**  Agents are updated and deleted, batches paused
  and restarted, repositories deleted, after a check made in an earlier call.
* **Several clocks.**  The deadline of a run, of its phases, of a drain wait, of
  an idle subscriber, each racing an answer.

What makes each part correct:

* Scheduler, worker and handlers together: items of a batch in order, one at a
  time, at most `MaxRetries` tries each between two restarts, never again after
  success; statuses
  that agree with the items; nothing stuck; every batch settles.
* Drain: a wait that returns means that nothing runs; shutdown does not close
  the store under a run.
* Repositories: one that has work is not deleted, and one that is deleted does
  not come back.
* Worker: every run ends with one final status, at most `MaxRetries` attempts
  per call, success only after a verification.
* Event bus: a subscriber receives what was published, in order and once; a
  closed or slow one neither panics nor blocks the run for good.
* Live stream and UI: after a reconnection no event is lost and the page asks for
  nothing it has.
* Session: events arrive in order and complete, the end of the agent ends the
  run, stop ends the agent, and nobody sends on a closed channel.

`PROJECT.json` lists the hazards line by line, each with the properties that
cover it, or the reason why none does.

## 2. Modules

| Module | Models | State and actions |
|---|---|---|
| `Scheduler` | `scheduler.go`, the batch writes of the worker, the batch and agent handlers, crash and restart of the process | below |
| `ItemLifecycle` | the abstract specification: what may happen to an item | the items alone; `Start`, `Withdraw`, `Succeed`, `Retry`, `GiveUp`, `Restart` |
| `MCScheduler` | nothing new: the symmetry set for TLC | |
| `Tries` | nothing new: `Scheduler` with a history count of the tries made | `tries`; `TryBegins`, `BatchRestarted`, `CountTries` |
| `SchedulerProofs` | theorems about `Scheduler` and their proofs | |
| `WorkerContract` | the abstract specification: what the scheduler may assume of one call of `Process` | the batch's status and the result; `Mark`, `Succeed`, `WriteOutcome`, `Fail`, `FailMarked`, `Cancel` |
| `Worker` | `worker.go` and `task_helpers.go`: one call of `Process` | below |
| `WorkerProofs` | theorems about `Worker` and their proofs | |
| `Drain` | `App.Run`, `runScheduler`, `restartHandler`, `WaitForIdle`, and of `Tick` what takes and gives back an item | below |
| `DrainProofs` | theorems about `Drain` and their proofs | |
| `Repositories` | extends `Scheduler` with `repository_handlers.go`, `mongo/repositories.go` and the look-ups of a repository by batch requests and the worker | below |
| `RepositoryProofs` | theorems about `Repositories` and their proofs | |
| `LifecycleProofs` | theorems about `Scheduler` that need fewer requests, its refinement of `ItemLifecycle` among them | |
| `FailureProofs` | theorems about `Scheduler` that count what failures leave behind | |
| `AgentStream` | the abstract specification: what a run may assume of the events of its agent | what was said and stored; `Say`, `Finish`, `Receive`, `ReceiveIdle`, `Leave` |
| `Session` | `codex.go`, `github.go` and the loop of `executeTask` that reads their channel | below |
| `SessionProofs` | theorems about `Session` and their proofs | |
| `MemoryBus` | `memory_bus.go` as one session sees it | below |
| `LiveStream` | extends `MemoryBus` with its publisher (the event loop of `executeTask`), its subscribers (`run_events_live_handler.go`) and the page behind them (`live_merge.js`, `live_reconnect.js`, the stream part of `app.js`) | below |
| `MCLiveStream` | nothing new: the configurations of the bus for TLC | |
| `LiveStreamProofs` | theorems about `LiveStream` and `MemoryBus`, and their proofs | |

`Scheduler` sees a call of `Process` as a fetch, a mark and one outcome;
`WorkerContract` says that this is all a caller can see of the batch's copy, and
`Worker` is shown to implement it.  `Drain` looks at the same `Tick` from the
other side: which batch is chosen and why an item is retried is `Scheduler`'s,
when a run counts, and what the end of the service finds, is `Drain`'s.
`LiveStream` looks at the event loop of `executeTask` from the side of those who
watch it: `Worker` takes an event in one step, `LiveStream` stores it and then
publishes it, subscriber by subscriber.  `Session` looks at the same loop from the
side of the agent: `AgentSends` and `AgentEnds` of `Worker` are there a process, a
pipe, a goroutine and a channel.

### Scheduler

`batches` and `agents` are the store's documents; names, inputs, times and
repositories are left out because no decision modelled here depends on them.
`pc` is the call that Tick makes next.  `claim` is Tick's copy of the batch with
the index of its item (`batch`, `pendingItem`), `runner` its copy of the agent
(`claimedAgent`), `copy` the worker's own copy (`GetBatch` in `Process`), and
`breq[r]`, `areq[r]` the copy that HTTP request `r` will write.

One action is one call of the store, because that is where others interleave:

| Code | Actions |
|---|---|
| `ListBatches`, eligibility | `TickListBatches`, `TickFindsNothing` |
| `ListAgents`, `firstIdleAgent` | `TickListAgents`, `TickNoAgent` |
| claim of the batch, of the agent, rollback | `ClaimBatch`, `ClaimAgent`, their `...Fails`, `Rollback` |
| `Worker.Process` | `WorkerFetch`, `WorkerMarks`, then one of `WorkerSucceeds`, `WorkerFails`, `WorkerStops` |
| completion, agent back to idle | `CompleteBatch`, `ReleaseAgent` |
| add, pause, resume, restart of a batch | `AddBatch`; `PauseRead`, `ResumeRead`, `RestartRead`, then `WriteBatch` |
| create, update, delete of an agent | `CreateAgent`; `UpdateAgentRead`, `DeleteAgentRead`, then `WriteAgent` |
| drain, cancellation, death of the process | `SetDraining`, `CancelRun`, `ProcessRestart` |

The batch to run is chosen from the listed batches alone, so the choice is made
in `TickListBatches` and only used if `ListAgents` returns an idle agent.  A
listing that fails changes nothing and is a stuttering step.  The whole run of
the agent is one step, `run`: it may take any time and others act meanwhile.

`CallFails` is a call that returns an error: at most `MaxFaults` of them under a
live context, any number under a cancelled one.  A failed write is applied or
not.  `detached` is the choice of `completionCtx`, made once: a cancellation
between that choice and the two last writes makes them fail.

`succeeded` is a history variable: the items for which the worker has returned
success.  `Tries` adds another: `tries` counts the calls of `Process` that have begun
for an item since a restart request last put an item of its batch back.  The
`attempts` of the document are not that number: `Tick` counts after the run, in its
own copy, and a failed completion, a crash or another writer can keep the count from
the store.  `StatusMatchesItems` is about the stored attempts, `TriesAreCapped` about
the tries made.

### Worker

`attempt` and `phase` say which session of the call is meant; `cancelled`,
`runErr` and `phaseErr` are the errors of the three nested contexts (the call's,
`withRunTimeout`'s, the phase's in `executeAndVerify`), a child starting with
its parent's error.  `session`, `chan` and `said` are the agent's session, the
events not read yet and the last assistant message stored; `runs` are the run
documents; `status` is the worker's copy of the batch's status, which
`setBatchStatus` compares and sets whatever becomes of the write.

| Code | Actions |
|---|---|
| `Process` up to the client | `FetchFails`, `Mark`, `UnknownRuntime` |
| `handleSingleTask`, `shouldRetry` | `BeginFirstAttempt`, `AcceptVerdict`, `Retry`, `RejectVerdict` |
| `Execute` of both tasks | `NoPrompt` |
| `executeTask` up to the loop | `StartFails`, `StartSession`, `CreateRun`, `CreateRunFails` |
| the event loop | `TakeEvent`, `StoreEventFails`, `ChannelClosed`, `ContextDone` |
| after the loop | `FinishRun`, `RunFailed` |
| the next phase, the verdict | `Verify`, `ReadVerdict` |
| shutdown, deadlines, the agent | `Cancel`, `RunDeadline`, `PhaseDeadline`, `AgentSends`, `AgentEnds` |

`select` takes any case that is ready, so an ended context and a waiting event
are both possible steps.  Store calls under an ended context fail; the final
write of a run is under `context.WithoutCancel` and fails only by a fault.  An
assistant message is a verdict, success or failure, or anything else.
`MaxRetries` is at least 1 because a smaller limit acts as 1 (`attempts >=
retries` after the first attempt); a limit that cannot be read is
`hasRetries = FALSE`.  Writes of the batch by `setBatchStatus`, and who else
writes it, are `Scheduler`'s matter.

### Drain

`main` is the place in `App.Run`, `loop` the place in `runScheduler` or in the
`Tick` it calls, `answer[w]` how far the restart request `w` is.  `draining`,
`active` (both `activeRuns` and the counter inside `activeWG`, always changed
together), `cancelled` (the run context) and `storeOpen` are what the goroutines
share; `queue`, `item` and `agent` are the store as far as it matters here.
`cause`, `early` and `expired` are history: who ended the service first, whether
a wait ended while `Tick` was about to claim, whether `server.Shutdown` gave up.

| Code | Actions |
|---|---|
| head of the loop, `select` | `LoopEnds`, `LoopWaits`, `LoopCancelled`, `LoopTicks` |
| draining check, listings | `TickSkips`, `TickStarts`, `TickFinds`, `TickFindsNothing` |
| claims | `ClaimItem`, `ClaimAgent`, their `...Fails`, `Rollback` |
| counting, the run, its end | `StartRun`, `RunEnds`, `CompleteItem`, `ReleaseAgent`, `FinishRun` |
| restart handler | `Restart`, `RestartWaits`, `WaitReturns`, `WaitTimesOut`, `Drained`, `Answer` |
| `App.Run` | `Signal`, `ServerFails`, `MainWakes`, `MainStops`, `MainShutsDown`, `ShutdownExpires`, `MainCloses`, `MainExits` |

One agent is enough: a single `Tick` runs at a time and holds one.  The whole
run of the agent is the stay at `run`.  Calls under a cancelled context or to a
closed store fail; a call that fails may have been applied.  Outside `src/` and
taken from how it is used: `server.Shutdown` stops accepting at once, returns
when every request is answered, and gives up after its ten seconds.  A caller
that hangs up ends its wait like the timeout does.

### Repositories

`repositories[p]` is absent, present or deleted, `owner[b]` the batch's
`RepositoryID`, chosen once at the start also for the batches yet to be added.
`rreq[r]` is the repository that request `r` has found and the call it makes next.
Requests share their slots with those of `Scheduler`, whose actions are used as
they are and restricted by what the look-up found.

| Code | Actions |
|---|---|
| `GetRepository` of any request | `LooksUp`; an error or a refusal anywhere: `Refused` |
| add; pause, resume and restart of a batch | `AddsBatch`; `ReadsBatch`, then `WritesBatch` |
| create | `CreatesRepository` |
| delete: look up, count, delete | `LooksUp`, `CountsBatches`, `DeletesRepository` |
| update: look up, write | `LooksUp`, `EditsRepository`, `UpdatesRepository` |
| `GetRepository` in `Process` | `FetchesBoth`, `FetchesNothing` |

`alone` and `sealed` are history.  A deletion is alone if, when it counts, no tick
holds a batch of the repository and no other request holds the repository, and if
none comes before it deletes; `sealed` are the repositories deleted so.  That the
tick matters too is a point of its own: while the worker runs, it writes the
batch's status as failed at the end of every try (`task_helpers.go:220`), before
`Tick` puts it back to pending, and the count misses a batch in that window.  A
`$set` that matches no document is no write (`UpdatesRepository`).  A request that
dies with the process leaves nothing.

### Session

`runtime` is chosen once.  `agent` is the wrapper process of Codex, or the SDK's
session; `said` counts its events, which are numbered; `pipe` holds what nobody
has read; `pump` is the place of Codex's goroutine, or of GitHub's handler, `hand`
the event it is about to send; `chan` and `closed` are the channel; `run` is the
place of `executeTask` from the prompt to the end of its deferred `stop`; `got` is
what it has stored; `ctxDone` is the context of the phase, `detached` GitHub's
`handlerCtx`.  `deadline` says whether a timeout is set for the phase or for the run
above it, and is chosen once.  `dropped`, `late` and `outcome` are history.

| Code | Actions |
|---|---|
| scanner, malformed line, end of output or line too long | `PumpReads`, `PumpSkips`, `PumpStopsReading` |
| first `select` of the pump | `PumpSends`, `PumpIsCancelled`, then `PumpDrains` |
| `cmd.Wait`, the synthetic idle event, `closeEvents` | `PumpWaits`, `PumpSendsIdle`, `PumpOmitsIdle`, `PumpCloses` |
| GitHub's handler | `HandlerIsCalled`, `HandlerChecks`, `HandlerSends`, `HandlerGivesUp`, `HandlerDrops` |
| last call of GitHub's `StartSession` | `PromptSent`, `PromptFails` |
| `executeTask` | `CreateRunFails`, `TakesEvent`, `StoreFails`, `ChannelClosed`, `ContextDone` |
| `stop` of Codex; of GitHub | `StopKills`; `StopDetaches`, `StopJoins`, `StopCloses` |
| contexts | `DeadlinePasses` (or a shutdown), `CallerReturns` where a timeout is set, and `ContextKills` of `exec.CommandContext` |
| outside `src/` | `AgentSays`, `AgentIsDone`, `AgentCrashes` |

Taken from how the SDK is used: it calls the handler for one event at a time, from
the reader of its connection, and `client.Stop` returns only when that reader is
over.  `NeverSendsOnClosed` depends on it, since `stop` closes the channel right
after: a handler that has passed its first check and is still to send would panic.
An agent's output ends when the agent does (a child of the wrapper that keeps the
pipe open is not modelled).  `cmd.Wait` may answer with the context's error
although the process ended well, so both results are possible once the context is
done.  Events in `Session` carry no content but the idle event's.

Two facts that no property is about.  When the pump is cancelled in a send it
returns without `cmd.Wait` (`codex.go:141-146`), so the killed wrapper stays a
zombie until the service ends; `reaped` is then false.  A line longer than the
scanner's buffer ends the reading for good, yet an idle event follows
(`codex.go:162`): the run succeeds with the record cut there, which is why
`RecordIsComplete` and `IdleIsEarned` have an exception for it.

### MemoryBus and LiveStream

`config` is what the bus was built with; the service builds it with the blocking
policy, no limit and no idle timeout.  `state[s]` is a subscription: open (in the
session's bucket), cleaned (out of it, channel closed), done (`Close` is over);
between the last two a publisher still passes the check of `done` and its send
panics.  `buffer[s]` is its channel.  `pub`, `event`, `snapshot`, `todo` and
`current` are the places of `Publish` and of the handler of its policy.

| Code | Actions |
|---|---|
| `Subscribe`, its limit | `Subscribes`, `SubscribeFails` (`AtLimit`) |
| `Close`, by the handler, the context or the timer | `Unsubscribes`, `IdleCloses`, `FinishesClose` |
| `Publish`, `publishToSubscriber` | `PublishBegins`, `SkipClosed`, `TrySubscriber`, `PublishEnds` |
| the three policies | `Send`, `SendRecovers`, `SendCancelled`, `DropLatest`, `FindsFull`, `DropOldest` |
| event loop of `executeTask` | `StoreEvent`, `Publish`, `Publishing`, `Published`, `RunCancelled` |
| handler: listing, backfill | `Lists`, `ListFails`, `Backfills`, `BackfillEnds` |
| handler: loop, errors, return | `Skips`, `Forwards`, `WriteFails`, `ReadFails`, `SubscriptionEnds`, `HandlerEnds` |
| page | `PageLoads`, `Connects`, `PageIsClosed`, `PageStalls`, `PageLeaves`; the network: `LinkBreaks` |

Events are numbered as they are stored.  `IngestedAt` is the time that `now()`
gave, `StoredAt` what MongoDB keeps of it, which is milliseconds: `Clock` is any clock
that is not set back, `Resolution` how many of its units make one of the store.  The
page's cursor is the time of its last envelope, and the handler's `position` starts there.  A write and its
delivery are one step: a write to a connection that is gone may succeed, and is
lost, which is also how envelopes are lost on the way.  A page that stalls holds
its connection and reads no more, so writes reach their deadline and pongs stay
away.

Left out because they decide nothing: the handler's set of keys seen (no key in
it is later than the cursor, which is compared first), heartbeats (they repeat the
cursor), and requests refused before the upgrade.  Left out although the code has
them: `MaxSessions`, for there is one session; the limit of 10000 events in the
page's first listing; the end of reconnection after five attempts in a row, for
which `MaxSubscriptions` stands.  `IdleCloses` assumes that an idle timeout is
longer than a handler takes from subscribing to its loop.

## 3. Runs

| Run | Instance | Shows |
|---|---|---|
| `http` | 1 batch of 2 items, 1 agent, 2 retries, 2 concurrent requests of pause, resume, restart, 1 fault, 1 restart of the process | the safety invariants of the store under stale copies |
| `crash` | 2 batches, 2 agents, restarts of batches, 1 fault, 1 restart of the process | `Scheduler` implements `ItemLifecycle`; no item is tried too often, or again after success; a failure strands at most one item and one agent |
| `solo` | 2 batches, 2 agents, one concurrent agent request, no faults | every batch settles, whatever the administrator does to the agents |
| `pause_lost` | as `http`, one pause request, no faults | violated: a pause written after the claim is undone by the completion write |
| `worker` | 2 attempts, 2 events per session, 1 fault, fair | `Worker` implements `WorkerContract`; what is returned is recorded, no session is left, only verdicts are retried, every step is one of finitely many, the call returns |
| `verdict_lost` | 1 attempt, 2 events, no faults | violated: the verifier's failure becomes success |
| `drain` | 2 waiting restarts, 2 items, 1 fault, fair | a drain is not taken back, starts no other round and ends the service; who waits is answered; idle stays idle and nothing is lost, the window before the count apart |
| `cleanup_lost` | 1 waiting restart, 1 item, no faults | violated: the store is closed before the last writes of a cancelled run |
| `live` | 2 events, buffers of 1, 2 connections; the bus as the service builds it, and two others with limits | the cursor never goes back, nothing is lost behind it, the newest event survives, no subscriber blocks the run for good, the page catches up |
| `session` | both runtimes, 4 events, a pipe and a channel of 2, fair | each runtime implements `AgentStream`; the record is complete, nobody sends on a closed channel, the end of the agent ends the run, and the end of the run releases agent, goroutine and channel |
| `timeout_lost` | Codex, 1 event, a pipe and a channel of 1 | violated: the deadline kills the process and the run succeeds |
| `repositories` | 1 repository, 1 batch of 1 item, 1 agent, 2 retries, 2 concurrent requests of every kind, 1 fault, 1 restart of the process, a fair tick | a deletion that nobody disturbed leaves nothing active; deleted stays deleted; a batch without repository settles |

Why the bounds are enough.  Two items are the least with a "before" and an
"after"; two retries the least with a try that is not the last.  Two requests
let one stale copy meet another, and one is always free while the other is held
back as long as it likes.  One batch is enough for `http` because every property
there is about one batch and batches share only the agent; `crash` and `solo`
have two batches and two agents, so a tick can turn to the other one.  One fault
and one restart reach every error path and a crash between any two steps; the
theorems have no bound at all.  For `worker`, two attempts are one with a
successor and the last; two events are a verdict with the idle event behind it,
or with another message that replaces it; one fault reaches every error path.
For `drain`, two items are a run with another one behind it that must not start,
two waiting requests let one end the service under the other, and restarts that
do not wait are unbounded.
For `live`, two events and a buffer of one are a full channel with a publisher
behind it; the store keeps less than the whole time of the first, so the live copy
of an event and the stored one differ; two connections overlap, so one `Publish` finds two subscribers, and the
second is the reconnection of the first.  The three configurations of `AllPolicies`
have each policy once, with and without a limit and an idle timeout; the blocking
one is the service's own.
For `session`, four events are two in the channel, one in the hand and one in the
pipe, so every place is full at once and someone waits behind it; which lines are
malformed and which is too long is chosen freely.
For `repositories`, one repository and one batch are enough because requests and
tick meet only in a repository; two requests are a deletion with one that comes
between its calls.  A second repository, or a second batch there, multiplies the
states and adds no new meeting; the theorems have any number of both.

`crash` leaves out pause and resume, and has one restart request at a time:
otherwise a request writes back items read before a completion, and a finished
item returns to `in_progress` or to `pending`, which the lifecycle does not
allow.  A pause does it: `pauseBatchHandler` reads the batch while an item runs and
writes it after the completion (`batch_pause_handlers.go:48`); the item is
`in_progress` again, nothing executes it, the scheduler skips the batch for ever
and restart refuses it.  The same write, of a copy read before the item was
claimed, makes the finished item pending again, and after a resume the agent does
the work a second time.  Two overlapping restarts have the second behaviour too.
And the late pause brings back the attempts that it read: read before the first try
and written after it has failed and been counted, it has the item tried three times
with a limit of two, with no restart of the batch in between.  The second of two
overlapping restarts forgets a try in the same way.  With those requests added to
its configuration, TLC refutes `OneItemPerFailure`, `NoRerunAfterSuccess` and
`TriesAreCapped`; what `crash` shows is exactly this: apart from late writes of
requests, nothing in the code takes an item off its lifecycle.  The promise of the
repository's `README.md:48` that retries are capped is therefore kept only as long as
no pause, resume or second restart is that late.

The code has no recovery: after a failed completion, rollback or release, or a
crash, an item stays `in_progress` or an agent `busy` for ever.  `OneItemPerFailure` and
`OneAgentPerFailure` say what that costs: `StuckItems`, which no tick holds, and
`LostAgents`, which no tick uses, are each at most as many as the calls that failed,
the restarts of the process, and one more while the context is cancelled.  With no
failure there are none.  `crash` has one failure of each kind, two agents and four items, so one failure
that cost two, or a cost without a failure, would show; the proofs have any number.
`solo` has no faults because batches could not settle with them.

**Fairness.**  Weak fairness of `TickStep` only: `runScheduler` fires Tick for
as long as the process lives, the store answers, and
`YARALPHO_TASK_RUN_TIMEOUT` ends every worker call.  Requests have none.
`EveryBatchSettles` allows for a batch whose agents have all been deleted.
In `Worker`, weak fairness of `WorkerStep`, a sequential call that waits for
nothing but the loop's `select`, and of `RunDeadline`: the run context has a
deadline unless its setting is zero or unreadable, and the default is not.  The
agent has no fairness, nor have the phases' deadlines: `ProcessReturns` says that
a hung agent ends with the run's deadline alone.
In `Drain`, weak fairness of `LoopStep` (the ticker fires, store calls have
timeouts, and `Process` returns, which `worker` shows) and of `MainStep`
(`App.Run` waits only for the context, for `Shutdown`'s ten seconds and for the
loop).  Requests have none, so `DrainEnds` holds although no wait ever ends.
In `LiveStream`, weak fairness of `RunStep` (a `Publish` that is begun goes on
unless it is blocked in a send), of each handler's `HandlerStep` (store calls and
writes have deadlines, `Client.withTimeout` and `wsWriteTimeout`, and the loop selects
what is ready) and of `PageStep` (the page loads, and reconnects by a timer).  The
run stores no event it does not want to, links break and pages stall or leave at
will.  `PageCatchesUp` exempts a cancelled run, whose last event may never be
published, and a page without another connection.
In `Session`, weak fairness of the goroutines (`PumpStep`, `HandlerStep`, `RunStep`,
`StopStep`: each goes on unless a channel, a pipe or a process blocks it), of
`ContextKills`, which is a goroutine of `os/exec`, and of `CallerReturns`, which is
enabled only where a timeout is set.  There the callers cancel the context when they
return, or its timer ends it at the latest.  Without one there is nothing to be fair
to: the cancel of `executeAndVerify` is `func() {}` when the phase's timeout is zero or
cannot be read (`worker.go:175-185`, `:204-214`), and so is `withRunTimeout`'s
(`worker.go:303-323`).  Hence the exception of `SessionIsReleased`: the pump of Codex,
blocked in a send to a full channel that nobody reads any more (`codex.go:139`,
`:164`), then stays, with the channel open, until the service is shut down; TLC
refutes the property without the exception.  A context that has ended, by whatever
cause, frees everything.  The agent has no fairness, nor has `DeadlinePasses`: a hung
agent makes no run end, and the exceptions of `EndReachesTheRun` are the cases in which
only a deadline would.
In `Repositories`, weak fairness of the tick only, as in `Scheduler`.

**What the violations show.**  `pause_lost`: the completion write of `Tick` is the
batch it listed before the claim (`scheduler.go:245`), so it undoes a pause that has
been written since, although `models.go:13-14`, the design
document and `README.md:140` say that a paused batch starts no new item while
the one in flight finishes.  The trace is the shortest run there is: the worker cannot
get the repository and returns an error at once, the pause is in the store, and the
completion write makes the batch pending for its next try.  When the worker does run,
its own write of `pending` at the end of a success (`worker.go:164`) undoes a pause
before `Tick` does.  Another window is before the run, and outside `PauseOutlastsRun`: a
pause written between `ListBatches` and the claim (`scheduler.go:188`) is overwritten
by the claim, and the item starts although its batch was paused first.
`verdict_lost`: the verifier says
"failure" and its session ends well; then the service is shut down, or a deadline
passes, before `executeTaskWithStructuredOutput` reads the messages back
(`task_helpers.go:253-267`).  Its errors leave the output empty, an output that
does not parse leaves `agentResp.Status` empty (`worker.go:229-234`), and only
`"failure"` is not success (`worker.go:155`): `Process` returns nil and the
scheduler marks the item done.  `cleanup_lost`: a signal cancels the run; `Tick` takes a detached
context for its last two writes, but `App.Run` disconnects the store
(`app.go:253`) before it waits for the loop (`app.go:259`), and the writes fail.
The item stays `in_progress` and the agent `busy` after an orderly stop.
`timeout_lost`: the deadline passes, `exec.CommandContext` kills the wrapper, the
pump reaches the end of the output and closes the channel without an idle event;
`executeTask` finds two cases of its `select` ready and takes the closed channel
(`task_helpers.go:163-166`), so the run is recorded as succeeded although
`README.md:81` promises "timed out".  When this was the verifier, its output has no
verdict and the item is done.

**What no run is about, but the models have.**  A restart that waits can be told
"drained" while a run is about to start: `Tick` has passed its draining check and
is listing or claiming, the counter is still zero (`scheduler.go:210`), so
`WaitForIdle` returns, the service is ended, and then the run starts under a
cancelled context.  `early` records it, and `IdleIsStable` and `DrainLosesNothing` say
that this window is the only one.  A store whose times are
coarser than the bus's, as MongoDB's are and as `live` has them, makes an event appear
twice: the backfill has it with the time the store kept, the bus brings it with its
full time, which is after the cursor (`run_events_live_handler.go:243`) and gives
another key there and in the page (`live_merge.js:71`).  And of two events of one
millisecond the second may never be shown: it is not after the cursor that the first
has left.  `NothingBehindCursor` and `PageCatchesUp` are therefore about the times
that the store knows; an event that has its time for itself is never missed.

## 4. Proofs

`SchedulerProofs` proves, for every number of batches, items, agents, retries,
requests, faults and restarts, from `SchedulerAssumption` alone:

| Theorem | Property |
|---|---|
| `TypeCorrect` | `TypeOK` |
| `CopiesSound` | the inductive invariant `IInv` |
| `ItemsRunInOrder` | `ItemsInOrder` |
| `StatusIsHonest` | `StatusMatchesItems` |
| `DoneIsEarned` | `DoneMeansSucceeded` |
| `PausesLast` | how long a pause lasts: below, *Causes* |

The properties speak of the store, and the store alone is not inductive: what a
copy holds today the store may hold tomorrow.  `IInv` says the same (`Sound`) of
the store, of Tick's copy, of the worker's and of every request's.  One more
thing is needed.  The worker and the pause and resume handlers change only the
status, so their copies must be *live*: no item failed and not all items done,
for else the new status would contradict the items.  Tick's copy during a run is
live because it holds an item in progress, the worker's because the store is
live for as long as Tick executes (`CopySound`), and a request's because of the
status it checked (`LiveByStatus`) or because it has just put an item back to
pending (`RestartedSound`).  The lemmas say first what an edit returns field by
field (`Moved`), then that it keeps a document sound (`MoveSound` for rollback,
success, retry and failure alike), and the step lemmas `TypeStep` and
`SoundStep` have one step per action.

`WorkerProofs` proves, for every number of retries, events and faults, from
`WorkerAssumption` alone:

| Theorem | Property |
|---|---|
| `WorkerTypeCorrect` | `TypeOK` |
| `WInvHolds` | the inductive invariant `WInv` |
| `WorkerSuccessIsRecorded` | `SuccessIsRecorded` |
| `WorkerRetriesVerdictsOnly` | `OnlyVerdictsAreRetried` |
| `WorkerStopsSessions` | `SessionsAreStopped` |
| `WorkerImplementsContract` | `FollowsContract` |
| `CallsAreBounded` | `EveryStepCounts` |
| `VerdictsAreHeeded` | `FailureIsHeeded` and its exceptions: below, *Causes* |

What is returned at the end depends on what was written attempts before, so
`WInv` has a part for each thing that must be remembered until then.
`StatusInv`: the copy says `in_progress` wherever the call can still succeed,
which is what makes the success step of the contract possible.  `CancelInv`: a
context or a run that says cancelled has a cancelled call above it, which is
what lets a stopped run write `pending`.  `SessionInv`: a session is open only
between `StartSession` and the end of `executeTask`.  `RunsInv`: every run that
has been followed by another step `EndedWell`, that is succeeded, or left running
by a lost write.  Each has a step lemma of its own; the refinement then maps
every action to one step of `WorkerContract` or to a stutter.

`CallsAreBounded` is what can be proved of the end of a call without fairness:
no behaviour goes on for ever.  `StepsLeft` weighs the phases still to begin
(`PhasesLeft`, two per attempt) with more than a phase can use up (`InPhase`: the
way to its end, its session, the events its agent may send and those not read yet,
its context), and adds the two contexts above.  A step within a phase lowers one
part and raises none (`WithinPhase`); the next phase costs one of `PhasesLeft`,
which outweighs all that it starts with (`NextPhase`, `PhaseOutweighs`).  It needs
of `SessionInv` that no attempt was counted before the first.  That the call also
gets to its end, because the deadline wakes it when the agent is silent, is
`ProcessReturns`, which the run checks under fairness.

`DrainProofs` proves, for every number of requests, items and faults, from
`DrainAssumption` alone:

| Theorem | Property |
|---|---|
| `DrainTypeCorrect` | `TypeOK` |
| `DInvHolds` | the inductive invariant `DInv` |
| `IdleStaysIdle` | `IdleIsStable` |
| `DrainsAreClean` | `DrainLosesNothing` |
| `NobodyIsLeftWaiting` | `WaitersAreAnswered` |
| `DrainsGoStraight` | `DrainIsStraight` |
| `CleanupNeedsTheStore` | `CleanupIsStored` and its exception: below, *Causes* |

`IdleIsStable` is inductive only together with `CountInv`: the counter is 1
exactly where `Tick` counts, and whoever waits has set `draining`, so a wait that
ends finds `Tick` before its check, which it then fails, or in the window that
`early` records.  `DrainLosesNothing` needs `ClaimInv`, the state of item and
agent at each step of `Tick`, which holds as long as only a drain can have ended
the service; `Undisturbed` is the reason: a drain ends it only when `Tick` holds
nothing, so no claim or completion meets a cancelled context or a closed store.
`WaitersAreAnswered` needs `AnswerInv`: `server.Shutdown` waits for open requests, so
once it has returned in time nobody is unanswered, and nobody comes after it.
`DrainIsStraight` is the part of `DrainEnds` that needs no fairness: while the
service drains, the loop only goes forward (`StepsFrom`), past the item it may have
at hand and never to another.  It rests on `CountInv`: back at the top of the loop
nothing is counted, so `LoopWaits`, the one step that could begin another round, is
not enabled.

`RepositoryProofs` proves, for every number of repositories, batches, requests and
all other constants, from `RepositoryAssumption` and `SchedulerAssumption`:

| Theorem | Property |
|---|---|
| `StillTheScheduler` | `RepositorySpec => Spec`, so all of `SchedulerProofs` holds of the composition |
| `RepositoriesTypeCorrect` | `RepositoryTypeOK` |
| `InvariantHolds` | the inductive invariant `RInv` |
| `DeletedInPeace` | `SealedIsQuiet` |
| `NothingBringsItBack` | `DeletedForGood` |

`SealedIsQuiet` is about the time after a deletion, so `RInv` must know the time
before: a deletion that is still alone finds the repository quiet but for itself
(`QuietBut`).  It stays quiet because every way to work in a repository starts with
a look-up, which ends the solitude, and because a tick takes no batch that is not
pending, and no batch there is.

`SessionProofs` proves, for every number of events and every size of pipe and
channel, from `SessionAssumption` alone:

| Theorem | Property |
|---|---|
| `TypeCorrect` | `TypeOK` |
| `PlacesHold` | `PInv`, the places of pump, handler, run and stop that go together |
| `NoSendOnClosed` | `NeverSendsOnClosed` |
| `OrderHolds` | the inductive invariant `OInv` |
| `SessionIsStream` | `FollowsStream` |
| `IdleEarned` | `IdleIsEarned` |
| `RecordComplete` | `RecordIsComplete` |
| `TimeoutsAreLostToTheClose` | `TimeoutIsRecorded` and its exception: below, *Causes* |

The argument is one of layers.  `PInv` says who can be where.  On it stands `OInv`:
what is stored, in the channel, in the hand and in the pipe is, in this order, one
strictly increasing sequence of what the agent has said, the idle event last and
only from an agent at rest; it is what makes every step of the reader a step of
`AgentStream`, and the refinement follows action by action.  `EarnedHolds` and
`RecordHolds` add what must be remembered about an idle event on its way, and about
each event of the agent: stored, or still at one of the places, or skipped or
dropped.

`LifecycleProofs` goes on from the theorems of `SchedulerProofs`.  Those hold
whatever requests are late; these do not, and each names what it needs:

| Theorem | Property | Assumes |
|---|---|---|
| `RunsOnce` | `NoRerunAfterSuccess` | `OneRestarter` |
| `ImplementsLifecycle` | `ItemsFollowLifecycle` | `OneRestarter` |
| `NoTryTooMany` | `TriesAreCapped` | `OneRestarter` |

`OneRestarter` says that there is one slot for batch requests and that it only
restarts; agent requests, faults and crashes have no limit.  It cannot be weaker:
section 3 has the behaviours of a pause, and of two restarts.  Under it every copy
is up to date when it is written: Tick's and the worker's copies have the items of
the store (`InStep`), and a batch that a request holds is failed, so the tick cannot
take it, and a batch that the tick holds is live, so no request can read it as
failed (`Held`).  `StoredItemsMove` draws the conclusion once for both theorems:
each step keeps the stored items or makes one of the moves of `ItemLifecycle`, and
never one that takes back a success (`Final`).  `NoTryTooMany` adds `Counted` to it: the
stored attempts account for all tries of an item but the one under way or cut off,
which has left the item in progress (`Accounted`).  So an item that may be tried again
has every try counted; the one that could break it is the rollback, which makes an
item pending again and is safe because its try has not begun.

`FailureProofs` counts what failures leave behind:

| Theorem | Property | Assumes |
|---|---|---|
| `FailuresLoseOneAgent` | `OneAgentPerFailure` | |
| `NoAgentLeftBusy` | no lost agent while nothing has failed | |
| `FailuresStickOneItem` | `OneItemPerFailure` | batches are only restarted, by any number of requests |
| `NothingLeftInProgress` | no stuck item while nothing has failed | the same |

A step adds at most one element to either set, the one that Tick holds, and only when
a call fails or the process ends (`AgentsLost`, `ItemsStuck`, one case per action).
The bound alone is not inductive: a cancelled context counts once but makes every
later call of the tick fail.  `Charged` is the budget that is: until the tick has
given up its agent, or written or given up its completion, the cancellation is still
unspent, and after that the tick writes nothing more that could fail to be undone.
A process that was cancelled starts no other tick, and its restart turns the
cancellation into a restart.  For items one must also know that nobody brings an old
`in_progress` back (`PInv`): the batch that Tick picked, the worker's copy of it and the
copies that requests hold have none but Tick's.  That is where a pause breaks it.

`LiveStreamProofs` proves, for every number of events and connections, every size of
the channels and every configuration of the bus, from `BusAssumption` and
`StreamAssumption`:

| Theorem | Property |
|---|---|
| `StreamTypeCorrect` | `TypeOK`, with every channel within its size |
| `CursorsAgree` | the inductive invariant `SInv` |
| `CursorNeverMovesBack` | `CursorAdvances` |
| `TheLatestSurvives` | `LatestSurvives` |
| `CompleteHolds` | the inductive invariant `Complete` |
| `NothingIsMissed` | `NothingBehindCursor` |
| `OwnTimesAreShown` | `OwnTimesShown`: an event with a time of its own is itself shown |

`SInv` is what holds of handlers, subscriptions, publisher and page whatever the
policy: where each may be while the others are where they are, that all that is on
its way is in the store, and that the page's cursor is the one of the handler it is
connected to.  The last part is why a cursor cannot go back although old handlers go
on writing: they write to a connection that is gone.  `TheLatestSurvives` adds
`Delivered`: those of the snapshot that the publisher is done with have the event, or
are past it; only a drop could take it from them, and a drop is of the oldest in the
channel of the one it sends to next.  `NothingIsMissed` adds `Complete`, under the
blocking policy: in every channel the events are consecutive, all before the first
are listed or behind the handler's cursor (`Covers`), and the next one to come
follows the last one there, whether the publisher still owes the last stored event
(`Due`) or the next is not yet stored.  This is the argument for subscribing before
listing.  Times and numbers have to be kept apart in it: a cursor that lies between
an event's time in the store and its time on the bus is stored as the former
(`SameTruncated`), so an event that is skipped as not after a cursor has the stored
time of one that was sent, or an earlier one, and `Covers` speaks of times where the
store has lost the order of events.

**Causes.**  A run that expects a violation shows one way in which a promise breaks.
Four theorems say in which cases it can break, for every value of the constants:

| Theorem | The promise breaks only if |
|---|---|
| `PausesLast` | (`pause_lost`) the batch was under way before the pause: a tick had listed it, and so may undo the pause with its claim, the worker's writes or its completion, or a restart request had read it; or a resume request writes it.  Nothing comes under way while the batch is paused |
| `VerdictsAreHeeded` | (`verdict_lost`) the context of the phase has ended, or a store call failed |
| `CleanupNeedsTheStore` | (`cleanup_lost`) the store is already closed: its own detached context is enough otherwise |
| `TimeoutsAreLostToTheClose` | (`timeout_lost`) the loop took the closed channel for the end after the deadline; an idle event never does it |

So to close the four windows it is enough to change these places.  `PausesLast` is an
action property: a batch is changed only by a tick that holds it, by a request, or
when it is added (`WhoWrites`); a tick takes only a pending batch and a restart only a
failed one (`NothingComesUnderWay`, `RestartsComeAfterFailure`), and what a pause
request writes says `paused` (`PausesPause`).  The other three are invariants, each
with one formula beside the module's own inductive invariant: `VerdictInv` follows the
agent's last word to where it is judged, `CleanInv` the writes of a detached context,
and `KilledInv` says that what ended before a deadline is not killed after it.

Only model-checked: liveness (`EveryBatchSettles`, `ProcessReturns`, `DrainEnds`,
`PublishReturns`, `PageCatchesUp`, `EndReachesTheRun`, `SessionIsReleased`,
`OrphansSettle`), which is beyond the prover, as is whatever speaks of ENABLED.
Of two of them the part that needs no fairness is proved: `EveryStepCounts` for
`ProcessReturns`, `DrainIsStraight` for `DrainEnds`.

## 5. Not modelled, and why

* The product of both retry loops: `Worker` composed with `Scheduler`, to count the
  runs of one item over all tries.  `WorkerContract` is the joint between them; the
  composition itself has not been built: the two state spaces multiply.
* A page that shows several runs in turn, where the close event of an old socket
  can restart the new stream (`app.js:2688`), the end of reconnection after five
  attempts, the list limit, and rendering.
* Starting a session: the search for wrapper, token and CLI (`codex.go`,
  `github.go`), which fails before there is anything concurrent; `Worker` has the
  failure as `StartFails`.
* `MaxSessions` of the bus, which the service does not set.
* Names, paths and unique indexes of repositories: they refuse a request and decide
  nothing else.
* Read-only handlers, tracker, notifier, configuration and scripts hold no state;
  the Codex bridge is a sequential adapter at the far end of a pipe.
