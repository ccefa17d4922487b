------------------------------ MODULE Scheduler ------------------------------
(***************************************************************************)
(* The scheduler of the runner, the worker call it makes, and the HTTP     *)
(* handlers that write the same documents.                                 *)
(*                                                                         *)
(* Batches and agents are Mongo documents.  Every writer reads a document, *)
(* edits its own copy and writes the whole copy back: the last writer wins *)
(* and nothing compares versions.  A single goroutine runs Tick, one call  *)
(* of the store per step; each HTTP request is an actor of its own that    *)
(* reads in one step and writes in another.  A store call may fail, with   *)
(* or without its write having been applied, the run's context may be      *)
(* cancelled between any two calls, and the process may die and start      *)
(* again with nothing but the store.                                       *)
(***************************************************************************)
EXTENDS Integers, FiniteSets

CONSTANTS
  MaxBatches,     \* bound: batches ever added; 1..MaxBatches is creation order
  NumItems,       \* items in each batch
  MaxAgents,      \* bound: agents ever created; 1..MaxAgents is creation order
  MaxRetries,     \* YARALPHO_MAX_RETRIES, Scheduler.maxRetries
  BatchRequests,  \* slots for concurrent pause, resume and restart requests
  BatchOps,       \* which of "pause", "resume", "restart" are called
  AgentRequests,  \* slots for concurrent agent update and delete requests
  MaxFaults,      \* bound: store calls that fail although their context is live
  MaxRestarts,    \* bound: process restarts, orderly or by a crash
  None            \* no request in a slot, no claim held

\* Scheduler.New replaces a non-positive MaxRetries by a positive default and
\* the add handler refuses a batch without items.
ASSUME SchedulerAssumption ==
  /\ MaxBatches \in Nat \ {0}
  /\ NumItems \in Nat \ {0}
  /\ MaxAgents \in Nat \ {0}
  /\ MaxRetries \in Nat \ {0}
  /\ BatchOps \subseteq {"pause", "resume", "restart"}
  /\ MaxFaults \in Nat
  /\ MaxRestarts \in Nat

VARIABLES
  batches,    \* the batch documents of the store
  agents,     \* the status of the agent documents of the store
  draining,   \* Scheduler.draining
  ctxDone,    \* the context given to Tick is cancelled
  pc,         \* the call of the store or worker that Tick makes next
  claim,      \* Tick's batch copy, its id and the index of the pending item
  runner,     \* the agent of which Tick holds a copy (claimedAgent)
  copy,       \* the worker's own batch copy
  workerErr,  \* Worker.Process returned an error
  detached,   \* completionCtx ignores the cancellation of ctx
  breq,       \* what each batch request is about to write
  areq,       \* what each agent request is about to write
  faults,     \* store calls that have failed so far
  restarts,   \* process restarts so far
  succeeded   \* history: items for which the worker has returned success

tickVars == <<pc, claim, runner, copy, workerErr, detached>>
procVars == <<draining, ctxDone, restarts>>
reqVars == <<breq, areq>>
vars == <<batches, agents, tickVars, procVars, reqVars, faults, succeeded>>
-----------------------------------------------------------------------------
(* The documents *)

BatchIds == 1..MaxBatches
Items == 1..NumItems
AgentIds == 1..MaxAgents

BatchStatus == {"pending", "in_progress", "paused", "done", "failed"}
ItemStatus == {"pending", "in_progress", "done", "failed"}
AgentStatus == {"absent", "idle", "busy", "deleted"}

\* storage.BatchItem and storage.Batch; an id not yet given out is "absent".
Item == [status : ItemStatus, attempts : Nat]
Batch == [status : BatchStatus \cup {"absent"}, items : [Items -> Item]]

NewItems == [i \in Items |-> [status |-> "pending", attempts |-> 0]]

\* batch.Status = s ; batch.Items[i].Status = s
WithStatus(d, s) == [d EXCEPT !.status = s]
WithItem(d, i, s) == [d EXCEPT !.items[i].status = s]

HasItem(d, s) == \E i \in Items : d.items[i].status = s

\* i is the first item of d with status s.
FirstItem(d, i, s) ==
  /\ d.items[i].status = s
  /\ \A j \in Items : j < i => d.items[j].status # s

EligibleWithoutFailedTest(d) ==
  /\ d.status \notin {"absent", "paused", "done"}
  /\ ~HasItem(d, "in_progress")
  /\ HasItem(d, "pending")

\* Tick's filter over the listed batches, with nextPendingIndex.
Eligible(d) ==
  /\ d.status \notin {"absent", "paused", "failed", "done"}
  /\ ~HasItem(d, "in_progress")
  /\ HasItem(d, "pending")

\* ListBatches sorts by created_at, newest first, and Tick takes the first fit.
NextBatch(b) ==
  /\ Eligible(batches[b])
  /\ \A c \in BatchIds : c > b => ~Eligible(batches[c])

\* ListAgents sorts the same way: firstIdleAgent is the newest idle agent.
FirstIdleAgent(a) ==
  /\ agents[a] = "idle"
  /\ \A c \in AgentIds : c > a => agents[c] # "idle"

AllItemsDone(d) == \A i \in Items : d.items[i].status = "done"
-----------------------------------------------------------------------------
(* Calls of the store *)

\* A call under a live context succeeds, or fails within the bound MaxFaults;
\* under a cancelled one the driver returns an error.  A failed write may have
\* reached the server, so "applied" is left open.
CallSucceeds(cancelled) == ~cancelled /\ UNCHANGED faults

CallFails(cancelled) ==
  /\ cancelled \/ faults < MaxFaults
  /\ faults' = IF cancelled THEN faults ELSE faults + 1

\* UpdateBatch is a $set of the whole document; no batch is ever deleted.
UpdateBatch(b, d) == batches' = [batches EXCEPT ![b] = d]

\* UpdateAgent is a $set of the whole document; name and runtime are left out.
UpdateAgent(a, s) == agents' = [agents EXCEPT ![a] = s]

BatchMayBeWritten(b, d) == UpdateBatch(b, d) \/ UNCHANGED batches

\* UpdateAgent that returns an error: a fault, or ErrNoDocuments for an agent
\* that was deleted meanwhile.
UpdateAgentFails(a, s, cancelled) ==
  \/ /\ agents[a] = "deleted"
     /\ UNCHANGED <<agents, faults>>
  \/ /\ agents[a] # "deleted"
     /\ CallFails(cancelled)
     /\ UpdateAgent(a, s) \/ UNCHANGED agents

UpdateAgentSucceeds(a, s, cancelled) ==
  /\ agents[a] # "deleted"
  /\ CallSucceeds(cancelled)
  /\ UpdateAgent(a, s)
-----------------------------------------------------------------------------
(* Scheduler.Tick *)

NoTick ==
  /\ pc' = "idle"
  /\ claim' = None
  /\ runner' = None
  /\ copy' = None
  /\ workerErr' = FALSE
  /\ detached' = FALSE

\* ListBatches returned a batch with work.  The pick depends on this snapshot
\* alone, so it is made here; the listed agents only decide whether it is used.
TickListBatches ==
  /\ pc = "idle"
  /\ ~draining
  /\ ~ctxDone
  /\ \E b \in BatchIds, i \in Items :
       /\ NextBatch(b)
       /\ FirstItem(batches[b], i, "pending")
       /\ claim' = [batch |-> b, item |-> i, doc |-> batches[b]]
  /\ pc' = "agents"
  /\ UNCHANGED <<batches, agents, runner, copy, workerErr, detached,
                 procVars, reqVars, faults, succeeded>>

\* A tick that draining or cancellation stops, or that finds no eligible batch.
TickFindsNothing ==
  /\ pc = "idle"
  /\ draining \/ ctxDone \/ \A b \in BatchIds : ~Eligible(batches[b])
  /\ UNCHANGED vars

\* ListAgents found an idle agent: its copy is the one Tick will write.
TickListAgents ==
  /\ pc = "agents"
  /\ CallSucceeds(ctxDone)
  /\ \E a \in AgentIds : FirstIdleAgent(a) /\ runner' = a
  /\ pc' = "claim"
  /\ UNCHANGED <<batches, agents, claim, copy, workerErr,
                 detached, procVars, reqVars, succeeded>>

\* No agent is idle, or ListAgents failed: Tick returns having written nothing.
TickNoAgent ==
  /\ pc = "agents"
  /\ \/ CallFails(ctxDone)
     \/ /\ \A a \in AgentIds : agents[a] # "idle"
        /\ UNCHANGED faults
  /\ NoTick
  /\ UNCHANGED <<batches, agents, procVars, reqVars, succeeded>>

ClaimedAsRunning(d, i) == WithItem(WithStatus(d, "running"), i, "in_progress")

\* What Tick writes to claim the item.
Claimed(d, i) == WithItem(WithStatus(d, "in_progress"), i, "in_progress")

ClaimBatch ==
  /\ pc = "claim"
  /\ CallSucceeds(ctxDone)
  /\ claim' = [claim EXCEPT !.doc = Claimed(@, claim.item)]
  /\ UpdateBatch(claim.batch, claim'.doc)
  /\ pc' = "claim_agent"
  /\ UNCHANGED <<agents, runner, copy, workerErr, detached,
                 procVars, reqVars, succeeded>>

\* The claim returned an error and Tick returns without a rollback.
ClaimBatchFails ==
  /\ pc = "claim"
  /\ CallFails(ctxDone)
  /\ BatchMayBeWritten(claim.batch, Claimed(claim.doc, claim.item))
  /\ NoTick
  /\ UNCHANGED <<agents, procVars, reqVars, succeeded>>

ClaimAgent ==
  /\ pc = "claim_agent"
  /\ UpdateAgentSucceeds(runner, "busy", ctxDone)
  /\ pc' = "fetch"
  /\ UNCHANGED <<batches, claim, runner, copy, workerErr,
                 detached, procVars, reqVars, succeeded>>

ClaimAgentFails ==
  /\ pc = "claim_agent"
  /\ UpdateAgentFails(runner, "busy", ctxDone)
  /\ pc' = "rollback"
  /\ UNCHANGED <<batches, claim, runner, copy, workerErr,
                 detached, procVars, reqVars, succeeded>>

Unclaimed(d, i) == WithItem(WithStatus(d, "pending"), i, "pending")

\* The best-effort rollback: its error is ignored.
Rollback ==
  /\ pc = "rollback"
  /\ LET d == Unclaimed(claim.doc, claim.item)
     IN  \/ CallSucceeds(ctxDone) /\ UpdateBatch(claim.batch, d)
         \/ CallFails(ctxDone) /\ BatchMayBeWritten(claim.batch, d)
  /\ NoTick
  /\ UNCHANGED <<agents, procVars, reqVars, succeeded>>
-----------------------------------------------------------------------------
(* Worker.Process, as far as it writes the batch document *)

\* Process returned: completionCtx is chosen by looking at ctx once, here.
ProcessReturns(err) ==
  /\ pc' = "complete"
  /\ copy' = None
  /\ workerErr' = err
  /\ detached' = ctxDone
  /\ UNCHANGED <<agents, claim, runner, procVars, reqVars>>

\* GetBatch: the worker starts from whatever the store holds now.
WorkerFetch ==
  /\ pc = "fetch"
  /\ CallSucceeds(ctxDone)
  /\ copy' = batches[claim.batch]
  /\ pc' = "mark"
  /\ UNCHANGED <<batches, agents, claim, runner, workerErr,
                 detached, procVars, reqVars, succeeded>>

\* GetBatch failed, or the repository is gone by now or has no path.
WorkerFetchFails ==
  /\ pc = "fetch"
  /\ CallFails(ctxDone) \/ UNCHANGED faults
  /\ ProcessReturns(TRUE)
  /\ UNCHANGED <<batches, succeeded>>

\* setBatchStatus(s) from the worker's copy: nothing when the copy already says
\* s, else a write whose error is only logged.
SetBatchStatus(s, cancelled) ==
  \/ copy.status = s /\ UNCHANGED <<batches, faults>>
  \/ /\ copy.status # s
     /\ LET d == WithStatus(copy, s)
        IN  \/ CallSucceeds(cancelled) /\ UpdateBatch(claim.batch, d)
            \/ CallFails(cancelled) /\ BatchMayBeWritten(claim.batch, d)

WorkerMarks ==
  /\ pc = "mark"
  /\ SetBatchStatus("in_progress", ctxDone)
  /\ copy' = WithStatus(copy, "in_progress")
  /\ pc' = "run"
  /\ UNCHANGED <<agents, claim, runner, workerErr, detached,
                 procVars, reqVars, succeeded>>

\* Execution and verification succeeded.
WorkerSucceeds ==
  /\ pc = "run"
  /\ SetBatchStatus("pending", ctxDone)
  /\ succeeded' = succeeded \cup {<<claim.batch, claim.item>>}
  /\ ProcessReturns(FALSE)

\* An attempt failed or timed out: most failures mark the batch failed first,
\* under the run's context or a detached one; others (no client for the
\* runtime, no prompt, tracker error) write nothing.
WorkerFails ==
  /\ pc = "run"
  /\ \/ \E cancelled \in {ctxDone, FALSE} : SetBatchStatus("failed", cancelled)
     \/ UNCHANGED <<batches, faults>>
  /\ ProcessReturns(TRUE)
  /\ UNCHANGED succeeded

\* The run was cancelled: executeTask writes "pending" under a detached context.
WorkerStops ==
  /\ pc = "run"
  /\ ctxDone
  /\ SetBatchStatus("pending", FALSE)
  /\ ProcessReturns(TRUE)
  /\ UNCHANGED succeeded
-----------------------------------------------------------------------------
(* The end of Tick *)

\* pendingItem.Attempts++
Attempted(d, i) == [d EXCEPT !.items[i].attempts = @ + 1]

\* The worker succeeded: the item is done, and the batch with its last item.
SettledSuccess(d, i) ==
  LET e == WithItem(Attempted(d, i), i, "done")
  IN  WithStatus(e, IF AllItemsDone(e) THEN "done" ELSE "pending")

SettledFailureOffByOne(d, i) ==
  LET e == Attempted(d, i)
      s == IF e.items[i].attempts > MaxRetries THEN "failed" ELSE "pending"
  IN  WithItem(WithStatus(e, s), i, s)

SettledFailureUncounted(d, i) ==
  LET s == IF d.items[i].attempts + 1 >= MaxRetries THEN "failed" ELSE "pending"
  IN  WithItem(WithStatus(d, s), i, s)

\* The worker failed: item and batch are retried until MaxRetries attempts.
SettledFailure(d, i) ==
  LET e == Attempted(d, i)
      s == IF e.items[i].attempts >= MaxRetries THEN "failed" ELSE "pending"
  IN  WithItem(WithStatus(e, s), i, s)

SettledIgnoringError(d, i, err) == SettledSuccess(d, i)

SettledDoneEarly(d, i, err) ==
  IF err THEN SettledFailure(d, i)
         ELSE WithItem(WithStatus(Attempted(d, i), "done"), i, "done")

\* Tick's copy once the worker has returned.
Settled(d, i, err) ==
  IF err THEN SettledFailure(d, i) ELSE SettledSuccess(d, i)

CompleteOnSuccessOnly ==
  /\ pc = "complete"
  /\ IF workerErr
       THEN UNCHANGED <<batches, faults>>
       ELSE /\ UNCHANGED faults
            /\ UpdateBatch(claim.batch, SettledSuccess(claim.doc, claim.item))
  /\ pc' = "release"
  /\ UNCHANGED <<agents, claim, runner, copy, workerErr,
                 detached, procVars, reqVars, succeeded>>

\* The completion write: of the copy Tick listed before the run, whatever the
\* store holds by now.  Its error does not keep Tick from freeing the agent.
CompleteBatch ==
  /\ pc = "complete"
  /\ LET d == Settled(claim.doc, claim.item, workerErr)
         cancelled == ctxDone /\ ~detached
     IN  \/ CallSucceeds(cancelled) /\ UpdateBatch(claim.batch, d)
         \/ CallFails(cancelled) /\ BatchMayBeWritten(claim.batch, d)
  /\ pc' = "release"
  /\ UNCHANGED <<agents, claim, runner, copy, workerErr,
                 detached, procVars, reqVars, succeeded>>

ReleaseOnSuccessOnly ==
  /\ pc = "release"
  /\ IF workerErr THEN UNCHANGED <<agents, faults>>
     ELSE UpdateAgentSucceeds(runner, "idle", ctxDone /\ ~detached)
  /\ NoTick
  /\ UNCHANGED <<batches, procVars, reqVars, succeeded>>

\* The agent goes back to idle, from Tick's copy; then Tick returns and its
\* deferred call lowers activeRuns.
ReleaseAgent ==
  /\ pc = "release"
  /\ LET cancelled == ctxDone /\ ~detached
     IN  \/ UpdateAgentSucceeds(runner, "idle", cancelled)
         \/ UpdateAgentFails(runner, "idle", cancelled)
  /\ NoTick
  /\ UNCHANGED <<batches, procVars, reqVars, succeeded>>
-----------------------------------------------------------------------------
(* HTTP handlers of batches *)

\* addBatchHandler inserts a pending batch of pending items.
AddBatch ==
  /\ \E b \in BatchIds :
       /\ batches[b].status = "absent"
       /\ \A c \in BatchIds : c < b => batches[c].status # "absent"
       /\ UpdateBatch(b, [status |-> "pending", items |-> NewItems])
  /\ UNCHANGED <<agents, tickVars, procVars, reqVars, faults, succeeded>>

\* Request r has read batch b and accepted it; d is the copy it will write.
HoldBatch(r, op, b, d) ==
  /\ breq[r] = None
  /\ op \in BatchOps
  /\ breq' = [breq EXCEPT ![r] = [op |-> op, batch |-> b, doc |-> d]]
  /\ UNCHANGED <<batches, agents, tickVars, procVars, areq, faults, succeeded>>

PauseRead(r, b) ==
  /\ batches[b].status \in {"pending", "in_progress"}
  /\ HoldBatch(r, "pause", b, WithStatus(batches[b], "paused"))

ResumeRead(r, b) ==
  /\ batches[b].status = "paused"
  /\ HoldBatch(r, "resume", b, WithStatus(batches[b], "pending"))

RestartedWhole(d, i) == WithStatus([d EXCEPT !.items = NewItems], "pending")

Restarted(d, i) ==
  WithStatus([d EXCEPT !.items[i] = [status |-> "pending", attempts |-> 0]],
             "pending")

RestartRead(r, b) ==
  /\ batches[b].status = "failed"
  /\ \E i \in Items :
       /\ FirstItem(batches[b], i, "failed")
       /\ HoldBatch(r, "restart", b, Restarted(batches[b], i))

\* The handler's UpdateBatch; a failed one also ends the request.
WriteBatch(r) ==
  /\ breq[r] # None
  /\ \/ CallSucceeds(FALSE) /\ UpdateBatch(breq[r].batch, breq[r].doc)
     \/ CallFails(FALSE) /\ BatchMayBeWritten(breq[r].batch, breq[r].doc)
  /\ breq' = [breq EXCEPT ![r] = None]
  /\ UNCHANGED <<agents, tickVars, procVars, areq, succeeded>>
-----------------------------------------------------------------------------
(* HTTP handlers of agents *)

CreateAgent ==
  /\ \E a \in AgentIds :
       /\ agents[a] = "absent"
       /\ \A c \in AgentIds : c < a => agents[c] # "absent"
       /\ UpdateAgent(a, "idle")
  /\ UNCHANGED <<batches, tickVars, procVars, reqVars, faults, succeeded>>

\* Request r has read agent a, found it idle and is about to give it status s.
HoldAgent(r, a, s) ==
  /\ areq[r] = None
  /\ agents[a] = "idle"
  /\ areq' = [areq EXCEPT ![r] = [agent |-> a, status |-> s]]
  /\ UNCHANGED <<batches, agents, tickVars, procVars, breq, faults, succeeded>>

\* An edit of name and runtime writes back the status it read.
UpdateAgentRead(r, a) == HoldAgent(r, a, "idle")

DeleteAgentRead(r, a) == HoldAgent(r, a, "deleted")

\* UpdateAgent or DeleteAgent of an agent read as idle; when it is deleted by
\* now both answer an error and change nothing.
WriteAgent(r) ==
  /\ areq[r] # None
  /\ \/ UpdateAgentSucceeds(areq[r].agent, areq[r].status, FALSE)
     \/ UpdateAgentFails(areq[r].agent, areq[r].status, FALSE)
  /\ areq' = [areq EXCEPT ![r] = None]
  /\ UNCHANGED <<batches, tickVars, procVars, breq, succeeded>>
-----------------------------------------------------------------------------
(* The process *)

\* POST /restart: no later tick starts work.
SetDraining ==
  /\ ~draining
  /\ restarts < MaxRestarts
  /\ draining' = TRUE
  /\ UNCHANGED <<batches, agents, tickVars, ctxDone, restarts,
                 reqVars, faults, succeeded>>

\* A signal, a fatal server error or requestShutdown cancels the context.
CancelRun ==
  /\ ~ctxDone
  /\ restarts < MaxRestarts
  /\ ctxDone' = TRUE
  /\ UNCHANGED <<batches, agents, tickVars, draining, restarts,
                 reqVars, faults, succeeded>>

\* The process ends, at any point, and a new one starts: only the store is left.
ProcessRestart ==
  /\ restarts < MaxRestarts
  /\ restarts' = restarts + 1
  /\ draining' = FALSE
  /\ ctxDone' = FALSE
  /\ NoTick
  /\ breq' = [r \in BatchRequests |-> None]
  /\ areq' = [r \in AgentRequests |-> None]
  /\ UNCHANGED <<batches, agents, faults, succeeded>>
-----------------------------------------------------------------------------
Init ==
  /\ batches = [b \in BatchIds |-> [status |-> "absent", items |-> NewItems]]
  /\ agents = [a \in AgentIds |-> "absent"]
  /\ draining = FALSE
  /\ ctxDone = FALSE
  /\ pc = "idle"
  /\ claim = None
  /\ runner = None
  /\ copy = None
  /\ workerErr = FALSE
  /\ detached = FALSE
  /\ breq = [r \in BatchRequests |-> None]
  /\ areq = [r \in AgentRequests |-> None]
  /\ faults = 0
  /\ restarts = 0
  /\ succeeded = {}

\* What the goroutine inside Tick does next.
TickStep ==
  \/ TickListBatches \/ TickListAgents \/ TickNoAgent
  \/ ClaimBatch \/ ClaimBatchFails
  \/ ClaimAgent \/ ClaimAgentFails \/ Rollback
  \/ WorkerFetch \/ WorkerFetchFails \/ WorkerMarks
  \/ WorkerSucceeds \/ WorkerFails \/ WorkerStops
  \/ CompleteBatch \/ ReleaseAgent

BatchRequestStep ==
  \/ AddBatch
  \/ \E r \in BatchRequests :
       \/ WriteBatch(r)
       \/ \E b \in BatchIds : PauseRead(r, b) \/ ResumeRead(r, b) \/ RestartRead(r, b)

AgentRequestStep ==
  \/ CreateAgent
  \/ \E r \in AgentRequests :
       \/ WriteAgent(r)
       \/ \E a \in AgentIds : UpdateAgentRead(r, a) \/ DeleteAgentRead(r, a)

Next ==
  \/ TickStep
  \/ TickFindsNothing
  \/ BatchRequestStep
  \/ AgentRequestStep
  \/ SetDraining \/ CancelRun \/ ProcessRestart

Spec == Init /\ [][Next]_vars

\* The ticker keeps firing while the process runs, the store answers, and
\* YARALPHO_TASK_RUN_TIMEOUT ends every worker call: Tick always goes on.
FairSpec == Spec /\ WF_vars(TickStep)
-----------------------------------------------------------------------------
(* Properties *)

\* Tick is between the claim of its batch and the write that ends it.
Executing == {"claim_agent", "rollback", "fetch", "mark", "run", "complete"}

\* Types of every variable; Tick holds a claim and an agent where it uses them.
TypeOK ==
  /\ batches \in [BatchIds -> Batch]
  /\ agents \in [AgentIds -> AgentStatus]
  /\ draining \in BOOLEAN
  /\ ctxDone \in BOOLEAN
  /\ pc \in {"idle", "agents", "claim", "claim_agent", "rollback", "fetch",
            "mark", "run", "complete", "release"}
  /\ pc # "idle" => claim \in [batch : BatchIds, item : Items, doc : Batch]
  /\ pc \notin {"idle", "agents"} => runner \in AgentIds
  /\ pc \in {"mark", "run"} => copy \in Batch
  /\ workerErr \in BOOLEAN
  /\ detached \in BOOLEAN
  /\ DOMAIN breq = BatchRequests
  /\ \A r \in BatchRequests :
       breq[r] # None => breq[r] \in [op : BatchOps, batch : BatchIds, doc : Batch]
  /\ DOMAIN areq = AgentRequests
  /\ \A r \in AgentRequests :
       areq[r] # None =>
         areq[r] \in [agent : AgentIds, status : {"idle", "deleted"}]
  /\ faults \in 0..MaxFaults
  /\ restarts \in 0..MaxRestarts
  /\ succeeded \subseteq BatchIds \X Items

\* The items of a document run strictly in order, one at a time: an item that
\* has left "pending" has only done items before it.
InOrder(d) ==
  \A i, j \in Items :
    j < i /\ d.items[i].status # "pending" => d.items[j].status = "done"

\* The attempts that a document counts agree with its statuses: below the limit
\* while the item may run, at the limit once it has failed.  How often it was
\* really tried is TriesAreCapped of module Tries.
WithinRetries(d) ==
  \A i \in Items :
    LET s == d.items[i].status
        n == d.items[i].attempts
    IN  /\ s \in {"pending", "in_progress"} => n < MaxRetries
        /\ s = "done" => n \in 1..MaxRetries
        /\ s = "failed" => n = MaxRetries

\* A failed item shows in the batch's status, and "done" means all items done.
StatusAgrees(d) ==
  /\ HasItem(d, "failed") => d.status = "failed"
  /\ d.status = "done" <=> AllItemsDone(d)

\* README "Items run strictly sequentially within a batch", in the store and
\* whatever stale copies the handlers and the worker write back.
ItemsInOrder == \A b \in BatchIds : InOrder(batches[b])

\* No interleaving of whole-document writes leaves a batch that says done with
\* items to run, or that hides a failed item and so can be neither run nor
\* restarted, or an item whose status its stored attempts contradict.
StatusMatchesItems ==
  \A b \in BatchIds : StatusAgrees(batches[b]) /\ WithinRetries(batches[b])

\* An item is done in the store only if the worker succeeded on it once.
DoneMeansSucceeded ==
  \A b \in BatchIds, i \in Items :
    batches[b].items[i].status = "done" => <<b, i>> \in succeeded

\* Once the worker has succeeded on an item, no later tick runs it again: not
\* after a crash, a failed completion write or a restart of the batch.  Late
\* writes of pause and resume break this.
NoRerunAfterSuccess ==
  pc \in {"fetch", "mark", "run"} => <<claim.batch, claim.item>> \notin succeeded

\* What can keep Tick from undoing a write: store calls that failed, processes
\* that ended, and the cancellation of the context it runs under now.
Failures == faults + restarts + (IF ctxDone THEN 1 ELSE 0)

\* storage.ItemStatusInProgress "indicates the item is currently being
\* executed": the in_progress items of the store that Tick does not hold.
StuckItems ==
  {e \in BatchIds \X Items :
     /\ batches[e[1]].items[e[2]].status = "in_progress"
     /\ ~(pc \in Executing /\ claim.batch = e[1] /\ claim.item = e[2])}

\* The busy agents that no tick is using.
LostAgents ==
  {a \in AgentIds :
     /\ agents[a] = "busy"
     /\ ~(pc \in {"fetch", "mark", "run", "complete", "release"} /\ runner = a)}

\* Nothing in the code puts a stuck item back, so the damage must be bounded: a
\* failure strands at most one item, for a claim that gets no agent is taken
\* back, a completion written, and no later claim or restart of a batch brings
\* an old in_progress item back.
OneItemPerFailure == Cardinality(StuckItems) <= Failures

\* Nothing frees a lost agent either: a failure loses at most one, whatever
\* requests edit, delete or create agents meanwhile.
OneAgentPerFailure == Cardinality(LostAgents) <= Failures

\* storage.BatchStatusPaused "prevents new items from starting while allowing
\* in-flight work to finish": a pause that is in the store while an item of the
\* batch runs, or when its run is over, is not undone by the end of that run.  A
\* resume request may undo it.
PauseOutlastsRun ==
  [][\A b \in BatchIds :
       /\ pc \in {"run", "complete"} /\ claim.batch = b
       /\ batches[b].status = "paused" /\ batches'[b].status \in {"pending", "in_progress"}
       => \E r \in BatchRequests :
            breq[r] # None /\ breq[r].op = "resume" /\ breq'[r] = None]_vars

Lifecycle == INSTANCE ItemLifecycle WITH
  items <- [b \in BatchIds |-> batches[b].items]

\* Without pause and resume, which write back copies read before a claim or a
\* completion, the stored items move only as ItemLifecycle allows: through
\* crashes, failed calls, rollbacks and restarts of the batch.
ItemsFollowLifecycle == Lifecycle!Spec

\* With workers that return and a store that answers, an added batch is in the
\* end done or failed, unless there is no agent left to run it: retries end,
\* agents come back to idle, and a claim that lost its agent is taken back.
EveryBatchSettles ==
  \A b \in BatchIds :
    batches[b].status # "absent" ~>
      \/ batches[b].status \in {"done", "failed"}
      \/ \A a \in AgentIds : agents[a] \in {"absent", "deleted"}
=============================================================================
