--------------------------- MODULE LifecycleProofs ---------------------------
(***************************************************************************)
(* What becomes true of Scheduler when late writes of requests are out of  *)
(* the way.  SchedulerProofs has no such assumption; here at most one      *)
(* request at a time restarts a batch and none pauses or resumes it, and   *)
(* then the stored items implement ItemLifecycle and no item runs again    *)
(* after it succeeded, whatever fails or crashes.                          *)
(***************************************************************************)
EXTENDS SchedulerProofs, Tries

\* Two requests at once, or one that pauses, can write a batch as it was before
\* a run.
OneRestarter ==
  /\ BatchOps \subseteq {"restart"}
  /\ \A r, s \in BatchRequests : r = s

\* A document that is not there yet has the items it will be added with.
Fresh == \A b \in BatchIds : batches[b].status = "absent" => batches[b].items = NewItems

\* The copies of Tick and the worker have the items of the store.
InStep ==
  /\ pc \in {"agents", "claim"} => batches[claim.batch] = claim.doc
  /\ pc \in Executing => batches[claim.batch].items = claim.doc.items
  /\ pc \in {"mark", "run"} => copy.items = claim.doc.items

\* A batch that a request is about to restart is still as the request read it.
Held ==
  \A r \in BatchRequests :
    breq[r] # None =>
      /\ batches[breq[r].batch].status = "failed"
      /\ \E i \in Items :
           /\ FirstItem(batches[breq[r].batch], i, "failed")
           /\ breq[r].doc = Restarted(batches[breq[r].batch], i)

\* A success is in the store, or its item is still in progress there; the item
\* that Tick works on has not succeeded before.
Final ==
  /\ \A b \in BatchIds, i \in Items :
       <<b, i>> \in succeeded => batches[b].items[i].status \in {"done", "in_progress"}
  /\ pc \in Executing /\ (pc = "complete" => workerErr) =>
       <<claim.batch, claim.item>> \notin succeeded

\* The inductive invariant, on top of that of SchedulerProofs.
LInv == IInv /\ Fresh /\ InStep /\ Held /\ Final
-----------------------------------------------------------------------------
(* Writes *)

\* Batch b, and no other, is now d.
LEMMA Written ==
  ASSUME TypeOK, NEW b \in BatchIds, NEW d, UpdateBatch(b, d)
  PROVE  \A c \in BatchIds : batches'[c] = IF c = b THEN d ELSE batches[c]
BY DEF TypeOK, UpdateBatch

\* A document in which one item moved, as a function.
LEMMA MovedItems ==
  ASSUME NEW d \in Batch, NEW e \in Batch, NEW i \in Items, NEW s, NEW t, NEW n,
         Moved(d, e, i, s, t, n)
  PROVE  e.items = [d.items EXCEPT ![i] = [status |-> t, attempts |-> n]]
<1>1. d.items \in [Items -> Item] /\ e.items \in [Items -> Item]
  BY DEF Batch
<1>2. \A j \in Items :
        e.items[j] = [status |-> e.items[j].status, attempts |-> e.items[j].attempts]
  BY <1>1 DEF Item
<1>3. \A j \in Items :
        d.items[j] = [status |-> d.items[j].status, attempts |-> d.items[j].attempts]
  BY <1>1 DEF Item
<1>4. \A j \in Items :
        e.items[j] = IF j = i THEN [status |-> t, attempts |-> n] ELSE d.items[j]
  BY <1>2, <1>3 DEF Moved
<1> QED  BY <1>1, <1>4

\* Nobody but Tick writes the batch it holds.
LEMMA HeldElsewhere ==
  ASSUME LInv, pc \notin {"idle", "release"}, NEW r \in BatchRequests, breq[r] # None
  PROVE  breq[r].batch # claim.batch
<1>1. /\ batches[breq[r].batch].status = "failed"
      /\ HasItem(batches[breq[r].batch], "failed")
  BY DEF LInv, Held, FirstItem, HasItem
<1>2. pc \in {"agents", "claim"} \/ pc \in Executing
  BY DEF LInv, IInv, TypeOK, Executing
<1> QED
  BY <1>1, <1>2 DEF LInv, IInv, InStep, ClaimSound, CopySound, Eligible, Live

LEMMA ClaimedIsThere ==
  ASSUME LInv, pc \notin {"idle", "release"}
  PROVE  batches[claim.batch].status # "absent"
<1>1. CASE pc \in {"agents", "claim"}
  BY <1>1 DEF LInv, IInv, InStep, ClaimSound, Eligible
<1>2. CASE pc \in Executing
  BY <1>2 DEF LInv, IInv, TypeOK, InStep, ClaimSound, Fresh, NewItems, Executing
<1> QED  BY <1>1, <1>2 DEF LInv, IInv, TypeOK, Executing

\* Every way in which a step writes the store.
WorkerWrites ==
  /\ pc \in {"mark", "run"}
  /\ \E s \in {"pending", "in_progress", "failed"} :
       UpdateBatch(claim.batch, WithStatus(copy, s))

TickWrites ==
  \/ pc = "claim" /\ UpdateBatch(claim.batch, Claimed(claim.doc, claim.item))
  \/ pc = "rollback" /\ UpdateBatch(claim.batch, Unclaimed(claim.doc, claim.item))
  \/ pc = "complete" /\ UpdateBatch(claim.batch, Settled(claim.doc, claim.item, workerErr))

RequestWrites ==
  \E r \in BatchRequests :
    /\ breq[r] # None
    /\ breq' = [breq EXCEPT ![r] = None]
    /\ UpdateBatch(breq[r].batch, breq[r].doc)

LEMMA Writers ==
  ASSUME TypeOK, [Next]_vars
  PROVE  UNCHANGED batches \/ TickWrites \/ WorkerWrites \/ RequestWrites \/ AddBatch
<1>1. CASE ClaimBatch
  <2>1. claim \in [batch : BatchIds, item : Items, doc : Batch]
    BY <1>1 DEF ClaimBatch, TypeOK
  <2> QED  BY <1>1, <2>1 DEF ClaimBatch, TickWrites
<1>2. CASE ClaimBatchFails
  BY <1>2 DEF ClaimBatchFails, TickWrites, BatchMayBeWritten
<1>3. CASE Rollback
  BY <1>3 DEF Rollback, TickWrites, BatchMayBeWritten
<1>4. CASE CompleteBatch
  BY <1>4 DEF CompleteBatch, TickWrites, BatchMayBeWritten
<1>5. CASE WorkerMarks \/ WorkerSucceeds \/ WorkerFails \/ WorkerStops
  BY <1>5 DEF WorkerMarks, WorkerSucceeds, WorkerFails, WorkerStops, SetBatchStatus,
              BatchMayBeWritten, WorkerWrites
<1>6. ASSUME NEW r \in BatchRequests, WriteBatch(r)
      PROVE  UNCHANGED batches \/ RequestWrites
  BY <1>6 DEF WriteBatch, BatchMayBeWritten, RequestWrites
<1>7. CASE TickListBatches \/ TickFindsNothing \/ TickListAgents \/ TickNoAgent
           \/ ClaimAgent \/ ClaimAgentFails \/ WorkerFetch \/ WorkerFetchFails \/ ReleaseAgent
  BY <1>7 DEF TickListBatches, TickFindsNothing, TickListAgents, TickNoAgent, ClaimAgent,
              ClaimAgentFails, WorkerFetch, WorkerFetchFails, ReleaseAgent, vars
<1>8. CASE AgentRequestStep \/ SetDraining \/ CancelRun \/ ProcessRestart \/ UNCHANGED vars
  BY <1>8 DEF AgentRequestStep, CreateAgent, WriteAgent, UpdateAgentRead, DeleteAgentRead,
              HoldAgent, SetDraining, CancelRun, ProcessRestart, vars
<1>9. ASSUME NEW r \in BatchRequests, NEW b \in BatchIds,
             PauseRead(r, b) \/ ResumeRead(r, b) \/ RestartRead(r, b)
      PROVE  UNCHANGED batches
  BY <1>9 DEF PauseRead, ResumeRead, RestartRead, HoldBatch
<1> QED
  BY <1>1, <1>2, <1>3, <1>4, <1>5, <1>6, <1>7, <1>8, <1>9
     DEF Next, TickStep, BatchRequestStep
-----------------------------------------------------------------------------
(* Steps *)

\* Claim, batch and item of Tick, and what it writes, are of their types.
LEMMA ClaimTypes ==
  ASSUME IInv, pc # "idle"
  PROVE  /\ claim.batch \in BatchIds /\ claim.item \in Items /\ claim.doc \in Batch
         /\ Claimed(claim.doc, claim.item) \in Batch
         /\ Unclaimed(claim.doc, claim.item) \in Batch
         /\ Settled(claim.doc, claim.item, workerErr) \in Batch
<1>1. claim.batch \in BatchIds /\ claim.item \in Items /\ claim.doc \in Batch
  BY DEF IInv, TypeOK
<1> QED  BY <1>1, TickEditTypes DEF IInv, TypeOK

LEMMA FreshStep == LInv /\ OneRestarter /\ [Next]_vars => Fresh'
<1> SUFFICES ASSUME LInv, OneRestarter, [Next]_vars PROVE Fresh'
  OBVIOUS
<1> USE DEF LInv, IInv
<1>1. ASSUME NEW b \in BatchIds, NEW d, d.status # "absent", UpdateBatch(b, d)
      PROVE  Fresh'
  BY <1>1, Written DEF Fresh
<1>2. CASE TickWrites
  <2>1. pc # "idle"
    BY <1>2 DEF TickWrites
  <2>2. /\ Claimed(claim.doc, claim.item).status # "absent"
        /\ Unclaimed(claim.doc, claim.item).status # "absent"
        /\ Settled(claim.doc, claim.item, workerErr).status # "absent"
    BY <2>1, ClaimTypes, ClaimedMoves, UnclaimedMoves, SettledFailureMoves,
       SettledSuccessMoves DEF Moved, Settled
  <2> QED  BY <1>1, <1>2, <2>1, <2>2, ClaimTypes DEF TickWrites
<1>3. CASE WorkerWrites
  <2>1. PICK s \in {"pending", "in_progress", "failed"} :
          UpdateBatch(claim.batch, WithStatus(copy, s))
    BY <1>3 DEF WorkerWrites
  <2>2. WithStatus(copy, s).status = s /\ claim.batch \in BatchIds
    BY <1>3, StatusEdit DEF WorkerWrites, TypeOK, BatchStatus
  <2> QED  BY <1>1, <2>1, <2>2
<1>4. CASE RequestWrites
  <2>1. PICK r \in BatchRequests : breq[r] # None /\ UpdateBatch(breq[r].batch, breq[r].doc)
    BY <1>4 DEF RequestWrites
  <2>2. breq[r].batch \in BatchIds
    BY <2>1 DEF TypeOK
  <2>3. breq[r].doc.status # "absent"
    <3>1. PICK i \in Items : breq[r].doc = Restarted(batches[breq[r].batch], i)
      BY <2>1 DEF Held
    <3> QED  BY <3>1, <2>2 DEF Restarted, WithStatus, TypeOK, Batch
  <2> QED  BY <1>1, <2>1, <2>2, <2>3
<1>5. CASE AddBatch
  BY <1>1, <1>5 DEF AddBatch
<1>6. CASE UNCHANGED batches
  BY <1>6 DEF Fresh
<1> QED  BY <1>2, <1>3, <1>4, <1>5, <1>6, Writers

LEMMA HeldStep == LInv /\ OneRestarter /\ [Next]_vars => Held'
<1> SUFFICES ASSUME LInv, OneRestarter, [Next]_vars PROVE Held'
  OBVIOUS
<1> USE DEF LInv, IInv
<1>1. ASSUME NEW b \in BatchIds, NEW d, UpdateBatch(b, d),
             \A r \in BatchRequests : breq[r] # None => breq[r].batch # b,
             UNCHANGED breq
      PROVE  Held'
  <2>1. \A r \in BatchRequests :
          breq[r] # None => batches'[breq[r].batch] = batches[breq[r].batch]
    BY <1>1, Written DEF TypeOK
  <2> QED  BY <1>1, <2>1 DEF Held
<1>2. CASE UNCHANGED breq /\ (TickWrites \/ WorkerWrites)
  <2>1. pc \notin {"idle", "release"} /\ claim.batch \in BatchIds
    BY <1>2, ClaimTypes DEF TickWrites, WorkerWrites
  <2>2. \A r \in BatchRequests : breq[r] # None => breq[r].batch # claim.batch
    BY <2>1, HeldElsewhere
  <2> QED  BY <1>1, <1>2, <2>1, <2>2 DEF TickWrites, WorkerWrites
<1>3. CASE AddBatch
  <2> DEFINE d == [status |-> "pending", items |-> NewItems]
  <2>1. PICK b \in BatchIds :
          batches[b].status = "absent" /\ UpdateBatch(b, d) /\ UNCHANGED breq
    BY <1>3 DEF AddBatch, reqVars
  <2>2. \A r \in BatchRequests : breq[r] # None => breq[r].batch # b
    BY <2>1 DEF Held
  <2> QED  BY <1>1, <2>1, <2>2
<1>4. CASE RequestWrites
  <2>1. \A r \in BatchRequests : breq'[r] = None
    BY <1>4 DEF RequestWrites, OneRestarter, TypeOK
  <2> QED  BY <2>1 DEF Held
<1>5. CASE UNCHANGED <<batches, breq>>
  BY <1>5 DEF Held
<1>6. ASSUME NEW r \in BatchRequests, WriteBatch(r), UNCHANGED batches PROVE Held'
  <2>1. \A q \in BatchRequests : breq'[q] = breq[q] \/ breq'[q] = None
    BY <1>6 DEF WriteBatch, TypeOK
  <2> QED  BY <1>6, <2>1 DEF Held
<1>7. ASSUME NEW r \in BatchRequests, NEW b \in BatchIds,
             PauseRead(r, b) \/ ResumeRead(r, b) \/ RestartRead(r, b)
      PROVE  Held'
  <2>1. PICK i \in Items :
          /\ batches[b].status = "failed"
          /\ FirstItem(batches[b], i, "failed")
          /\ HoldBatch(r, "restart", b, Restarted(batches[b], i))
    BY <1>7 DEF PauseRead, ResumeRead, RestartRead, HoldBatch, OneRestarter
  <2>2. /\ UNCHANGED batches
        /\ \A q \in BatchRequests :
             breq'[q] = [op |-> "restart", batch |-> b, doc |-> Restarted(batches[b], i)]
    BY <2>1 DEF HoldBatch, OneRestarter, TypeOK
  <2> QED  BY <2>1, <2>2 DEF Held
<1>8. CASE ProcessRestart
  BY <1>8 DEF ProcessRestart, Held
<1>9. CASE TickStep \/ TickFindsNothing \/ AgentRequestStep \/ SetDraining \/ CancelRun
           \/ UNCHANGED vars
  <2>1. UNCHANGED breq
    BY <1>9 DEF TickStep, TickListBatches, TickFindsNothing, TickListAgents, TickNoAgent,
         ClaimBatch, ClaimBatchFails, ClaimAgent, ClaimAgentFails, Rollback, WorkerFetch,
         WorkerFetchFails, WorkerMarks, WorkerSucceeds, WorkerFails, WorkerStops,
         ProcessReturns, CompleteBatch, ReleaseAgent, AgentRequestStep, CreateAgent,
         WriteAgent, UpdateAgentRead, DeleteAgentRead, HoldAgent, SetDraining, CancelRun,
         vars, reqVars
  <2> QED  BY <1>2, <1>3, <1>4, <1>5, <2>1, Writers
<1>10. ASSUME NEW r \in BatchRequests, WriteBatch(r) PROVE Held'
  <2>1. RequestWrites \/ UNCHANGED batches
    BY <1>10 DEF WriteBatch, BatchMayBeWritten, RequestWrites
  <2> QED  BY <1>4, <1>6, <1>10, <2>1
<1> QED  BY <1>3, <1>7, <1>8, <1>9, <1>10 DEF Next, BatchRequestStep

LEMMA InStepStep == LInv /\ OneRestarter /\ [Next]_vars => InStep'
<1> SUFFICES ASSUME LInv, OneRestarter, [Next]_vars PROVE InStep'
  OBVIOUS
<1> USE DEF LInv, IInv
<1>1. CASE TickListBatches
  BY <1>1 DEF TickListBatches, InStep, Executing
<1>2. CASE TickListAgents \/ ClaimAgent \/ ClaimAgentFails
  BY <1>2 DEF TickListAgents, ClaimAgent, ClaimAgentFails, InStep, Executing
<1>3. CASE ClaimBatch
  <2>1. /\ claim'.batch = claim.batch
        /\ UpdateBatch(claim.batch, claim'.doc)
        /\ pc' = "claim_agent" /\ claim.batch \in BatchIds
    BY <1>3 DEF ClaimBatch, TypeOK
  <2>2. batches'[claim'.batch] = claim'.doc
    BY <2>1, Written
  <2> QED  BY <2>1, <2>2 DEF InStep
<1>4. CASE TickNoAgent \/ ClaimBatchFails \/ Rollback \/ ReleaseAgent \/ CompleteBatch
           \/ ProcessRestart
  BY <1>4 DEF TickNoAgent, ClaimBatchFails, Rollback, ReleaseAgent, CompleteBatch,
              ProcessRestart, NoTick, InStep, Executing
<1>5. CASE WorkerFetch \/ WorkerFetchFails
  BY <1>5 DEF WorkerFetch, WorkerFetchFails, ProcessReturns, InStep, Executing
<1>6. CASE WorkerMarks \/ WorkerSucceeds \/ WorkerFails \/ WorkerStops
  <2>1. /\ pc \in {"mark", "run"} /\ claim.batch \in BatchIds /\ copy \in Batch
        /\ pc' \in {"run", "complete"} /\ claim' = claim
    BY <1>6 DEF WorkerMarks, WorkerSucceeds, WorkerFails, WorkerStops, ProcessReturns, TypeOK
  <2>2. pc' = "run" => copy' = WithStatus(copy, "in_progress")
    BY <1>6 DEF WorkerMarks, WorkerSucceeds, WorkerFails, WorkerStops, ProcessReturns
  <2>3. UNCHANGED batches \/ WorkerWrites
    BY <1>6 DEF WorkerMarks, WorkerSucceeds, WorkerFails, WorkerStops, SetBatchStatus,
                BatchMayBeWritten, WorkerWrites
  <2>4. \A s \in {"pending", "in_progress", "failed"} : WithStatus(copy, s).items = copy.items
    BY <2>1, StatusEdit DEF BatchStatus
  <2>5. batches'[claim.batch].items = claim.doc.items
    BY <2>1, <2>3, <2>4, Written DEF WorkerWrites, InStep, Executing
  <2> QED  BY <2>1, <2>2, <2>4, <2>5 DEF InStep, Executing
<1>7. ASSUME UNCHANGED <<pc, claim, copy>>,
             pc \notin {"idle", "release"} => batches'[claim.batch] = batches[claim.batch]
      PROVE  InStep'
  BY <1>7 DEF InStep, Executing
<1>8. CASE AddBatch
  <2> DEFINE d == [status |-> "pending", items |-> NewItems]
  <2>1. PICK b \in BatchIds : batches[b].status = "absent" /\ UpdateBatch(b, d)
    BY <1>8 DEF AddBatch
  <2>2. pc \notin {"idle", "release"} => batches'[claim.batch] = batches[claim.batch]
    BY <2>1, ClaimedIsThere, ClaimTypes, Written
  <2> QED  BY <1>7, <1>8, <2>2 DEF AddBatch, tickVars
<1>9. ASSUME NEW r \in BatchRequests, WriteBatch(r) PROVE InStep'
  <2>1. breq[r] # None /\ breq[r].batch \in BatchIds
    BY <1>9 DEF WriteBatch, TypeOK
  <2>2. UNCHANGED batches \/ UpdateBatch(breq[r].batch, breq[r].doc)
    BY <1>9 DEF WriteBatch, BatchMayBeWritten
  <2>3. pc \notin {"idle", "release"} => batches'[claim.batch] = batches[claim.batch]
    BY <2>1, <2>2, HeldElsewhere, ClaimTypes, Written
  <2> QED  BY <1>7, <1>9, <2>3 DEF WriteBatch, tickVars
<1>10. ASSUME NEW r \in BatchRequests, NEW b \in BatchIds,
              PauseRead(r, b) \/ ResumeRead(r, b) \/ RestartRead(r, b)
       PROVE  InStep'
  BY <1>7, <1>10 DEF PauseRead, ResumeRead, RestartRead, HoldBatch, tickVars
<1>11. CASE AgentRequestStep \/ SetDraining \/ CancelRun \/ TickFindsNothing \/ UNCHANGED vars
  BY <1>7, <1>11 DEF AgentRequestStep, CreateAgent, WriteAgent, UpdateAgentRead,
     DeleteAgentRead, HoldAgent, SetDraining, CancelRun, TickFindsNothing, vars, tickVars
<1> QED
  BY <1>1, <1>2, <1>3, <1>4, <1>5, <1>6, <1>8, <1>9, <1>10, <1>11
     DEF Next, TickStep, BatchRequestStep
-----------------------------------------------------------------------------
(* How the stored items move *)

\* Item i of batch b, and nothing else, leaves status s for t, after n attempts.
StoredMove(b, i, s, t, n) ==
  /\ batches[b].items[i].status = s
  /\ \A c \in BatchIds :
       batches'[c].items =
         IF c = b THEN [batches[b].items EXCEPT ![i] = [status |-> t, attempts |-> n]]
                  ELSE batches[c].items

StoredItemsKept == \A c \in BatchIds : batches'[c].items = batches[c].items

\* The moves of ItemLifecycle, with what each means for the successes so far, and
\* whose step takes an item back.
AllowedMove(b, i) ==
  LET n == batches[b].items[i].attempts
      won == <<b, i>> \in succeeded
  IN  \/ /\ \A j \in Items : j < i => batches[b].items[j].status = "done"
         /\ ~HasItem(batches[b], "in_progress")
         /\ StoredMove(b, i, "pending", "in_progress", n)
      \/ /\ pc = "rollback" /\ claim.batch = b /\ claim.item = i
         /\ ~won /\ StoredMove(b, i, "in_progress", "pending", n)
      \/ StoredMove(b, i, "in_progress", "done", n + 1)
      \/ ~won /\ n + 1 < MaxRetries /\ StoredMove(b, i, "in_progress", "pending", n + 1)
      \/ ~won /\ n + 1 = MaxRetries /\ StoredMove(b, i, "in_progress", "failed", MaxRetries)
      \/ BatchRestarted(b) /\ StoredMove(b, i, "failed", "pending", 0)

\* Writing a document in which one item of a copy moved, when the copy has the
\* items of the store, moves that item in the store.
LEMMA MoveIsStored ==
  ASSUME TypeOK, NEW b \in BatchIds, NEW i \in Items, NEW d \in Batch, NEW e \in Batch,
         batches[b].items = d.items, NEW s, NEW t, NEW n,
         Moved(d, e, i, s, t, n), UpdateBatch(b, e)
  PROVE  StoredMove(b, i, d.items[i].status, t, n)
<1>1. e.items = [d.items EXCEPT ![i] = [status |-> t, attempts |-> n]]
  BY MovedItems
<1> QED  BY <1>1, Written DEF StoredMove

LEMMA TickMoves ==
  ASSUME LInv, TickWrites
  PROVE  AllowedMove(claim.batch, claim.item)
<1> USE DEF LInv, IInv
<1> DEFINE b == claim.batch
           i == claim.item
           d == claim.doc
           n == batches[b].items[i].attempts
<1>1. /\ pc # "idle" /\ b \in BatchIds /\ i \in Items /\ d \in Batch
      /\ Claimed(d, i) \in Batch /\ Unclaimed(d, i) \in Batch
      /\ Settled(d, i, workerErr) \in Batch
  BY ClaimTypes DEF TickWrites
<1>2. batches[b].items = d.items
  BY DEF TickWrites, InStep, Executing
<1>3. CASE pc = "claim" /\ UpdateBatch(b, Claimed(d, i))
  <2>1. Sound(b, d, succeeded) /\ Eligible(d) /\ FirstItem(d, i, "pending")
    BY <1>3 DEF ClaimSound
  <2>2. ~HasItem(batches[b], "in_progress")
    BY <1>2, <2>1 DEF Eligible, HasItem
  <2>3. ASSUME NEW j \in Items, j < i PROVE batches[b].items[j].status = "done"
    <3>1. d.items[j].status \in ItemStatus \ {"pending", "in_progress", "failed"}
      BY <1>1, <2>1, <2>3
         DEF FirstItem, Eligible, HasItem, Sound, StatusAgrees, Batch, Item
    <3> QED  BY <1>2, <3>1 DEF ItemStatus
  <2>4. StoredMove(b, i, "pending", "in_progress", n)
    BY <1>1, <1>2, <1>3, <2>1, ClaimedMoves, MoveIsStored DEF FirstItem
  <2> QED  BY <2>2, <2>3, <2>4 DEF AllowedMove
<1>4. CASE pc = "rollback" /\ UpdateBatch(b, Unclaimed(d, i))
  <2>1. d.items[i].status = "in_progress" /\ <<b, i>> \notin succeeded
    BY <1>4 DEF ClaimSound, Final, Executing
  <2>2. StoredMove(b, i, "in_progress", "pending", n)
    BY <1>1, <1>2, <1>4, <2>1, UnclaimedMoves, MoveIsStored
  <2> QED  BY <1>4, <2>1, <2>2 DEF AllowedMove
<1>5. CASE pc = "complete" /\ UpdateBatch(b, Settled(d, i, workerErr))
  <2>1. /\ d.items[i].status = "in_progress"
        /\ Sound(b, d, succeeded)
        /\ workerErr => <<b, i>> \notin succeeded
    BY <1>5 DEF ClaimSound, Final, Executing
  <2>2. CASE ~workerErr
    <3>1. /\ SettledSuccess(d, i) \in Batch
          /\ \E s : Moved(d, SettledSuccess(d, i), i, s, "done", n + 1)
      BY <1>1, <1>2, SettledSuccessMoves
    <3>2. UpdateBatch(b, SettledSuccess(d, i))
      BY <1>5, <2>2 DEF Settled
    <3>3. StoredMove(b, i, "in_progress", "done", n + 1)
      BY <1>1, <1>2, <2>1, <3>1, <3>2, MoveIsStored
    <3> QED  BY <3>3 DEF AllowedMove
  <2>3. CASE workerErr
    <3> DEFINE t == IF n + 1 >= MaxRetries THEN "failed" ELSE "pending"
    <3>1. /\ SettledFailure(d, i) \in Batch
          /\ Moved(d, SettledFailure(d, i), i, t, t, n + 1)
      BY <1>1, <1>2, SettledFailureMoves
    <3>2. UpdateBatch(b, SettledFailure(d, i))
      BY <1>5, <2>3 DEF Settled
    <3>3. StoredMove(b, i, "in_progress", t, n + 1)
      BY <1>1, <1>2, <2>1, <3>1, <3>2, MoveIsStored
    <3>4. n \in Nat /\ n < MaxRetries
      BY <1>1, <1>2, <2>1 DEF Sound, WithinRetries, Batch, Item
    <3>5. CASE n + 1 < MaxRetries
      BY <2>1, <2>3, <3>3, <3>4, <3>5, SchedulerAssumption DEF AllowedMove
    <3>6. CASE n + 1 = MaxRetries
      BY <2>1, <2>3, <3>3, <3>4, <3>6, SchedulerAssumption DEF AllowedMove
    <3> QED  BY <3>4, <3>5, <3>6, SchedulerAssumption
  <2> QED  BY <2>2, <2>3 DEF TypeOK
<1> QED  BY <1>3, <1>4, <1>5 DEF TickWrites

LEMMA RequestMoves ==
  ASSUME LInv, OneRestarter, RequestWrites
  PROVE  \E b \in BatchIds, i \in Items : AllowedMove(b, i)
<1> USE DEF LInv, IInv
<1>1. PICK r \in BatchRequests : /\ breq[r] # None /\ breq' = [breq EXCEPT ![r] = None]
                                 /\ UpdateBatch(breq[r].batch, breq[r].doc)
  BY DEF RequestWrites
<1> DEFINE b == breq[r].batch
<1>2. b \in BatchIds /\ batches[b] \in Batch /\ breq[r].op = "restart" /\ breq'[r] = None
  BY <1>1 DEF TypeOK, OneRestarter
<1>3. PICK i \in Items :
        FirstItem(batches[b], i, "failed") /\ breq[r].doc = Restarted(batches[b], i)
  BY <1>1 DEF Held
<1>4. breq[r].doc.items = [batches[b].items EXCEPT ![i] = [status |-> "pending", attempts |-> 0]]
  BY <1>2, <1>3 DEF Restarted, WithStatus, Batch
<1>5. StoredMove(b, i, "failed", "pending", 0)
  BY <1>1, <1>2, <1>3, <1>4, Written DEF StoredMove, FirstItem
<1>6. BatchRestarted(b)
  <2>1. /\ batches[b].items[i].status = "failed"
        /\ batches'[b].items = [batches[b].items EXCEPT ![i] = [status |-> "pending", attempts |-> 0]]
    BY <1>2, <1>5 DEF StoredMove
  <2>2. batches[b].items \in [Items -> Item]
    BY <1>2 DEF Batch
  <2> QED  BY <1>1, <1>2, <2>1, <2>2 DEF BatchRestarted
<1> QED  BY <1>2, <1>5, <1>6 DEF AllowedMove

\* Every step keeps the stored items or makes one of the allowed moves.
LEMMA StoredItemsMove ==
  ASSUME LInv, OneRestarter, [Next]_vars
  PROVE  StoredItemsKept \/ \E b \in BatchIds, i \in Items : AllowedMove(b, i)
<1> USE DEF LInv, IInv
<1>1. CASE UNCHANGED batches
  BY <1>1 DEF StoredItemsKept
<1>2. CASE TickWrites
  <2>1. claim.batch \in BatchIds /\ claim.item \in Items
    BY <1>2, ClaimTypes DEF TickWrites
  <2> QED  BY <1>2, <2>1, TickMoves
<1>3. CASE WorkerWrites
  <2>1. PICK s \in {"pending", "in_progress", "failed"} :
          UpdateBatch(claim.batch, WithStatus(copy, s))
    BY <1>3 DEF WorkerWrites
  <2>2. /\ claim.batch \in BatchIds
        /\ WithStatus(copy, s).items = batches[claim.batch].items
    BY <1>3, StatusEdit DEF WorkerWrites, TypeOK, InStep, Executing, BatchStatus
  <2> QED  BY <2>1, <2>2, Written DEF StoredItemsKept
<1>4. CASE RequestWrites
  BY <1>4, RequestMoves
<1>5. CASE AddBatch
  <2>1. PICK b \in BatchIds :
          /\ batches[b].items = NewItems
          /\ UpdateBatch(b, [status |-> "pending", items |-> NewItems])
    BY <1>5 DEF AddBatch, Fresh
  <2> QED  BY <2>1, Written DEF StoredItemsKept
<1> QED  BY <1>1, <1>2, <1>3, <1>4, <1>5, Writers

LEMMA FinalStep == LInv /\ OneRestarter /\ [Next]_vars => Final'
<1> SUFFICES ASSUME LInv, OneRestarter, [Next]_vars PROVE Final'
  OBVIOUS
<1> USE DEF LInv, IInv
<1> DEFINE Kept(S) == \A b \in BatchIds, i \in Items :
                        <<b, i>> \in S => batches'[b].items[i].status \in {"done", "in_progress"}
<1>1. Kept(succeeded)
  <2>1. CASE StoredItemsKept
    BY <2>1 DEF StoredItemsKept, Final
  <2>2. ASSUME NEW b \in BatchIds, NEW i \in Items, AllowedMove(b, i) PROVE Kept(succeeded)
    <3>1. PICK s, t, n :
            /\ StoredMove(b, i, s, t, n)
            /\ s \in {"pending", "in_progress", "failed"}
            /\ t \in {"done", "in_progress"} \/ s # "in_progress" \/ <<b, i>> \notin succeeded
      BY <2>2 DEF AllowedMove
    <3>2. t \in {"done", "in_progress"} \/ <<b, i>> \notin succeeded
      BY <3>1 DEF StoredMove, Final
    <3>3. batches[b].items \in [Items -> Item]
      BY DEF TypeOK, Batch
    <3>4. ASSUME NEW c \in BatchIds, NEW j \in Items
          PROVE  batches'[c].items[j].status =
                   IF c = b /\ j = i THEN t ELSE batches[c].items[j].status
      BY <3>1, <3>3 DEF StoredMove
    <3> QED  BY <3>2, <3>4 DEF Final
  <2> QED  BY <2>1, <2>2, StoredItemsMove
<1> HIDE DEF Kept
<1>2. CASE WorkerSucceeds
  <2>1. /\ pc = "run" /\ pc' = "complete" /\ ~workerErr' /\ claim' = claim
        /\ succeeded' = succeeded \cup {<<claim.batch, claim.item>>}
        /\ claim.batch \in BatchIds /\ claim.item \in Items /\ copy \in Batch
    BY <1>2 DEF WorkerSucceeds, ProcessReturns, TypeOK
  <2>2. UNCHANGED batches \/ UpdateBatch(claim.batch, WithStatus(copy, "pending"))
    BY <1>2 DEF WorkerSucceeds, SetBatchStatus, BatchMayBeWritten
  <2>3. WithStatus(copy, "pending").items = copy.items
    BY <2>1, StatusEdit DEF BatchStatus
  <2>4. batches'[claim.batch].items = claim.doc.items
    BY <2>1, <2>2, <2>3, Written DEF InStep, Executing
  <2>5. batches'[claim.batch].items[claim.item].status = "in_progress"
    BY <2>1, <2>4 DEF ClaimSound, Executing
  <2>6. Kept(succeeded')
    BY <1>1, <2>1, <2>5 DEF Kept
  <2> QED  BY <2>1, <2>6 DEF Final, Kept, TypeOK
<1>3. CASE succeeded' = succeeded
  <2>1. ASSUME pc' \in Executing, pc' = "complete" => workerErr'
        PROVE  <<claim'.batch, claim'.item>> \notin succeeded
    <3>1. CASE ClaimBatch
      <4>1. /\ pc = "claim" /\ claim.batch \in BatchIds /\ claim.item \in Items
            /\ claim'.batch = claim.batch /\ claim'.item = claim.item
        BY <3>1 DEF ClaimBatch, TypeOK
      <4>2. batches[claim.batch].items[claim.item].status = "pending"
        BY <4>1 DEF InStep, ClaimSound, FirstItem
      <4> QED  BY <4>1, <4>2 DEF Final
    <3>2. CASE UNCHANGED <<pc, claim, workerErr>>
      BY <2>1, <3>2 DEF Final
    <3>3. CASE pc \in Executing \ {"complete"} /\ UNCHANGED claim
      BY <3>3 DEF Final
    <3>4. CASE pc' \notin Executing
      BY <2>1, <3>4
    <3>5. CASE TickStep
      BY <3>1, <3>3, <3>4, <3>5
         DEF TickStep, TickListBatches, TickListAgents, TickNoAgent, ClaimBatchFails,
             ClaimAgent, ClaimAgentFails, Rollback, WorkerFetch, WorkerFetchFails,
             WorkerMarks, WorkerSucceeds, WorkerFails, WorkerStops, ProcessReturns,
             CompleteBatch, ReleaseAgent, NoTick, Executing
    <3>6. CASE TickFindsNothing \/ BatchRequestStep \/ AgentRequestStep \/ SetDraining
               \/ CancelRun \/ UNCHANGED vars
      BY <3>2, <3>6
         DEF TickFindsNothing, BatchRequestStep, AddBatch, WriteBatch, PauseRead, ResumeRead,
             RestartRead, HoldBatch, AgentRequestStep, CreateAgent, WriteAgent,
             UpdateAgentRead, DeleteAgentRead, HoldAgent, SetDraining, CancelRun, vars, tickVars
    <3>7. CASE ProcessRestart
      BY <3>4, <3>7 DEF ProcessRestart, NoTick, Executing
    <3> QED  BY <3>5, <3>6, <3>7 DEF Next
  <2> QED  BY <1>1, <1>3, <2>1 DEF Kept, Final
<1>4. WorkerSucceeds \/ succeeded' = succeeded
  BY DEF Next, TickStep, TickListBatches, TickFindsNothing, TickListAgents, TickNoAgent,
         ClaimBatch, ClaimBatchFails, ClaimAgent, ClaimAgentFails, Rollback, WorkerFetch,
         WorkerFetchFails, WorkerMarks, WorkerFails, WorkerStops, CompleteBatch, ReleaseAgent,
         BatchRequestStep, AddBatch, WriteBatch, PauseRead, ResumeRead, RestartRead, HoldBatch,
         AgentRequestStep, CreateAgent, WriteAgent, UpdateAgentRead, DeleteAgentRead, HoldAgent,
         SetDraining, CancelRun, ProcessRestart, vars
<1> QED  BY <1>2, <1>3, <1>4
-----------------------------------------------------------------------------
(* The theorems *)

LEMMA LInvInit == Init => LInv
<1> SUFFICES ASSUME Init PROVE LInv
  OBVIOUS
<1>1. IInv
  BY SoundInit
<1>2. Fresh /\ Held
  BY DEF Init, Fresh, Held
<1>3. InStep /\ Final
  BY DEF Init, InStep, Final, Executing
<1> QED  BY <1>1, <1>2, <1>3 DEF LInv

\* The invariant holds of every behaviour with one restarter.
LEMMA LInvHolds == OneRestarter /\ Spec => []LInv
<1>1. LInv /\ OneRestarter /\ [Next]_vars => LInv'
  BY TypeStep, SoundStep, FreshStep, InStepStep, HeldStep, FinalStep DEF LInv, IInv
<1>2. CASE OneRestarter
  <2>1. LInv /\ [Next]_vars => LInv'
    BY <1>1, <1>2
  <2> QED  BY <2>1, LInvInit, PTL DEF Spec
<1>3. CASE ~OneRestarter
  BY <1>3
<1> QED  BY <1>2, <1>3

\* With one restarter, no item runs again once the worker has succeeded on it:
\* not after a crash, a failed completion write or a restart of its batch.
THEOREM RunsOnce == OneRestarter /\ Spec => []NoRerunAfterSuccess
<1>1. LInv => NoRerunAfterSuccess
  BY DEF LInv, Final, NoRerunAfterSuccess, Executing
<1> QED  BY <1>1, LInvHolds, PTL

\* With one restarter, the stored items implement ItemLifecycle: the scheduler,
\* the worker and the handlers move them only as it allows, in every crash and
\* with every call that fails.
THEOREM ImplementsLifecycle == OneRestarter /\ Spec => ItemsFollowLifecycle
<1> DEFINE items == [b \in BatchIds |-> batches[b].items]
<1>1. Init => Lifecycle!Init
  BY DEF Init, Lifecycle!Init, Lifecycle!Items, Items, NewItems
<1>2. ASSUME LInv, OneRestarter, [Next]_vars
      PROVE  Lifecycle!Next \/ UNCHANGED items
  <2>1. CASE StoredItemsKept
    BY <2>1 DEF StoredItemsKept
  <2>2. ASSUME NEW b \in BatchIds, NEW i \in Items, AllowedMove(b, i)
        PROVE  Lifecycle!Next
    <3> DEFINE n == items[b][i].attempts
    <3>1. items[b] = batches[b].items
      OBVIOUS
    <3>2. CASE /\ \A j \in Items : j < i => batches[b].items[j].status = "done"
               /\ ~HasItem(batches[b], "in_progress")
               /\ StoredMove(b, i, "pending", "in_progress", n)
      <4>1. Lifecycle!Start(b, i)
        BY <3>2 DEF StoredMove, HasItem, Items, Lifecycle!Start, Lifecycle!Move,
                    Lifecycle!State, Lifecycle!Items
      <4> QED  BY <4>1 DEF Lifecycle!Next, Lifecycle!Items, Items
    <3>3. CASE StoredMove(b, i, "in_progress", "pending", n)
      <4>1. Lifecycle!Withdraw(b, i)
        BY <3>3 DEF StoredMove, Lifecycle!Withdraw, Lifecycle!Move, Lifecycle!State
      <4> QED  BY <4>1 DEF Lifecycle!Next, Lifecycle!Items, Items
    <3>4. CASE StoredMove(b, i, "in_progress", "done", n + 1)
      <4>1. Lifecycle!Succeed(b, i)
        BY <3>4 DEF StoredMove, Lifecycle!Succeed, Lifecycle!Move, Lifecycle!State
      <4> QED  BY <4>1 DEF Lifecycle!Next, Lifecycle!Items, Items
    <3>5. CASE n + 1 < MaxRetries /\ StoredMove(b, i, "in_progress", "pending", n + 1)
      <4>1. Lifecycle!Retry(b, i)
        BY <3>5 DEF StoredMove, Lifecycle!Retry, Lifecycle!Move, Lifecycle!State
      <4> QED  BY <4>1 DEF Lifecycle!Next, Lifecycle!Items, Items
    <3>6. CASE n + 1 = MaxRetries /\ StoredMove(b, i, "in_progress", "failed", MaxRetries)
      <4>1. Lifecycle!GiveUp(b, i)
        BY <3>6 DEF StoredMove, Lifecycle!GiveUp, Lifecycle!Move, Lifecycle!State
      <4> QED  BY <4>1 DEF Lifecycle!Next, Lifecycle!Items, Items
    <3>7. CASE StoredMove(b, i, "failed", "pending", 0)
      <4>1. Lifecycle!Restart(b, i)
        BY <3>7 DEF StoredMove, Lifecycle!Restart, Lifecycle!Move, Lifecycle!State
      <4> QED  BY <4>1 DEF Lifecycle!Next, Lifecycle!Items, Items
    <3> QED  BY <2>2, <3>1, <3>2, <3>3, <3>4, <3>5, <3>6, <3>7 DEF AllowedMove
  <2> QED  BY <1>2, <2>1, <2>2, StoredItemsMove
<1>3. CASE OneRestarter
  <2>1. LInv /\ [Next]_vars => [Lifecycle!Next]_items
    BY <1>2, <1>3
  <2>2. OneRestarter /\ Spec => []LInv
    BY LInvHolds
  <2> QED  BY <1>1, <1>3, <2>1, <2>2, PTL DEF Spec, ItemsFollowLifecycle, Lifecycle!Spec
<1>4. CASE ~OneRestarter
  BY <1>4
<1> QED  BY <1>3, <1>4
-----------------------------------------------------------------------------
(* The tries *)

\* k tries are accounted for by an item: counted, or the last one under way or
\* cut off.
Accounted(k, item) ==
  k <= IF item.status = "in_progress" THEN item.attempts + 1 ELSE item.attempts

\* Every try is accounted for, and the item that Tick has claimed and may still
\* give back has none that is not counted.
Counted ==
  /\ tries \in [BatchIds -> [Items -> Nat]]
  /\ \A b \in BatchIds, i \in Items : Accounted(tries[b][i], batches[b].items[i])
  /\ pc \in {"claim_agent", "rollback"} =>
       tries[claim.batch][claim.item] <= claim.doc.items[claim.item].attempts

\* Whoever does not begin a try adds none, and a restart forgets them.
LEMMA TriesOnlyBegin ==
  ASSUME tries \in [BatchIds -> [Items -> Nat]], CountTries
  PROVE  /\ tries' \in [BatchIds -> [Items -> Nat]]
         /\ \A b \in BatchIds, i \in Items :
              /\ BatchRestarted(b) => tries'[b][i] = 0
              /\ ~TryBegins(b, i) => tries'[b][i] <= tries[b][i]
              /\ tries'[b][i] <= tries[b][i] + 1
<1> DEFINE T(b, i) == IF BatchRestarted(b) THEN 0
                      ELSE IF TryBegins(b, i) THEN tries[b][i] + 1 ELSE tries[b][i]
<1>1. \A b \in BatchIds, i \in Items :
        /\ T(b, i) \in Nat
        /\ BatchRestarted(b) => T(b, i) = 0
        /\ ~TryBegins(b, i) => T(b, i) <= tries[b][i]
        /\ T(b, i) <= tries[b][i] + 1
  OBVIOUS
<1>2. tries' = [b \in BatchIds |-> [i \in Items |-> T(b, i)]]
  BY DEF CountTries
<1> HIDE DEF T
<1> QED  BY <1>1, <1>2

LEMMA AccountedStep ==
  ASSUME LInv, OneRestarter, Counted, Next, CountTries, NEW b \in BatchIds, NEW i \in Items
  PROVE  Accounted(tries'[b][i], batches'[b].items[i])
<1> USE DEF LInv, IInv
<1> DEFINE n == batches[b].items[i].attempts
           s == batches[b].items[i].status
<1>1. batches[b].items \in [Items -> Item] /\ n \in Nat
  BY DEF TypeOK, Batch, Item
<1>2. /\ tries[b][i] \in Nat /\ tries'[b][i] \in Nat
      /\ BatchRestarted(b) => tries'[b][i] = 0
      /\ ~TryBegins(b, i) => tries'[b][i] <= tries[b][i]
      /\ tries'[b][i] <= tries[b][i] + 1
  BY TriesOnlyBegin DEF Counted
<1>3. tries[b][i] <= IF s = "in_progress" THEN n + 1 ELSE n
  BY DEF Counted, Accounted
<1>4. CASE TryBegins(b, i)
  <2>1. ClaimAgent
    BY <1>4 DEF TryBegins, Next, TickStep, TickListBatches, TickFindsNothing, TickListAgents,
         TickNoAgent, ClaimBatch, ClaimBatchFails, ClaimAgentFails, Rollback, WorkerFetch,
         WorkerFetchFails, WorkerMarks, WorkerSucceeds, WorkerFails, WorkerStops,
         ProcessReturns, CompleteBatch, ReleaseAgent, NoTick, BatchRequestStep, AddBatch,
         WriteBatch, PauseRead, ResumeRead, RestartRead, HoldBatch, AgentRequestStep,
         CreateAgent, WriteAgent, UpdateAgentRead, DeleteAgentRead, HoldAgent, SetDraining,
         CancelRun, ProcessRestart, vars, tickVars
  <2>2. batches' = batches
    BY <2>1 DEF ClaimAgent
  <2>3. batches[b].items[i] = claim.doc.items[i] /\ s = "in_progress"
    BY <1>4 DEF TryBegins, InStep, ClaimSound, Executing
  <2>4. tries[b][i] <= n
    BY <1>4, <2>3 DEF TryBegins, Counted
  <2> QED  BY <1>1, <1>2, <2>2, <2>3, <2>4 DEF Accounted
<1>5. CASE ~TryBegins(b, i) /\ batches'[b].items[i] = batches[b].items[i]
  BY <1>1, <1>2, <1>3, <1>5 DEF Accounted
<1>6. ASSUME ~TryBegins(b, i), AllowedMove(b, i)
      PROVE  Accounted(tries'[b][i], batches'[b].items[i])
  <2>1. ASSUME NEW from, NEW to, NEW k, StoredMove(b, i, from, to, k)
        PROVE  /\ batches'[b].items[i].status = to /\ batches'[b].items[i].attempts = k
               /\ s = from
    BY <1>1, <2>1 DEF StoredMove
  <2>2. CASE StoredMove(b, i, "pending", "in_progress", n)
    BY <1>1, <1>2, <1>3, <1>6, <2>1, <2>2 DEF Accounted
  <2>3. CASE /\ pc = "rollback" /\ claim.batch = b /\ claim.item = i
             /\ StoredMove(b, i, "in_progress", "pending", n)
    <3>1. claim.doc.items[i].attempts = n
      BY <2>3 DEF InStep, Executing
    <3>2. tries[b][i] <= n
      BY <2>3, <3>1 DEF Counted
    <3> QED  BY <1>1, <1>2, <1>6, <2>1, <2>3, <3>2 DEF Accounted
  <2>4. CASE \E to \in {"done", "pending"} : StoredMove(b, i, "in_progress", to, n + 1)
    <3>1. PICK to \in {"done", "pending"} : StoredMove(b, i, "in_progress", to, n + 1)
      BY <2>4
    <3> QED  BY <1>1, <1>2, <1>3, <1>6, <2>1, <3>1 DEF Accounted
  <2>5. CASE n + 1 = MaxRetries /\ StoredMove(b, i, "in_progress", "failed", MaxRetries)
    BY <1>1, <1>2, <1>3, <1>6, <2>1, <2>5 DEF Accounted
  <2>6. CASE BatchRestarted(b) /\ StoredMove(b, i, "failed", "pending", 0)
    BY <1>2, <2>1, <2>6 DEF Accounted
  <2> QED  BY <1>6, <2>2, <2>3, <2>4, <2>5, <2>6 DEF AllowedMove
<1>7. CASE ~TryBegins(b, i) /\ batches'[b].items[i] # batches[b].items[i]
  <2>1. PICK c \in BatchIds, j \in Items : AllowedMove(c, j)
    BY <1>7, StoredItemsMove DEF StoredItemsKept
  <2>2. \E from, to, k : StoredMove(c, j, from, to, k)
    <3> DEFINE n2 == batches[c].items[j].attempts
    <3>1. \/ StoredMove(c, j, "pending", "in_progress", n2)
          \/ StoredMove(c, j, "in_progress", "pending", n2)
          \/ StoredMove(c, j, "in_progress", "done", n2 + 1)
          \/ StoredMove(c, j, "in_progress", "pending", n2 + 1)
          \/ StoredMove(c, j, "in_progress", "failed", MaxRetries)
          \/ StoredMove(c, j, "failed", "pending", 0)
      BY <2>1, Zenon DEF AllowedMove
    <3> QED  BY <3>1, Zenon
  <2>3. c = b /\ j = i
    BY <1>1, <1>7, <2>2 DEF StoredMove
  <2> QED  BY <1>6, <1>7, <2>1, <2>3
<1> QED  BY <1>4, <1>5, <1>7

LEMMA CountedStep ==
  LInv /\ OneRestarter /\ Counted /\ [TriesNext]_<<vars, tries>> => Counted'
<1> SUFFICES ASSUME LInv, OneRestarter, Counted, [TriesNext]_<<vars, tries>> PROVE Counted'
  OBVIOUS
<1> USE DEF LInv, IInv
<1>1. CASE UNCHANGED <<vars, tries>>
  BY <1>1 DEF vars, tickVars, Counted
<1>2. CASE Next /\ CountTries
  <2>1. /\ tries' \in [BatchIds -> [Items -> Nat]]
        /\ \A b \in BatchIds, i \in Items : ~TryBegins(b, i) => tries'[b][i] <= tries[b][i]
    BY <1>2, TriesOnlyBegin DEF Counted
  <2>2. ASSUME pc' \in {"claim_agent", "rollback"}
        PROVE  tries'[claim'.batch][claim'.item] <= claim'.doc.items[claim'.item].attempts
    <3> DEFINE b == claim.batch
               i == claim.item
               d == claim.doc
    <3>1. /\ pc # "idle" /\ claim'.batch = b /\ claim'.item = i
          /\ \/ claim' = claim /\ pc \in {"claim_agent", "rollback"}
             \/ claim'.doc = Claimed(d, i) /\ pc = "claim"
      BY <1>2, <2>2
         DEF Next, TickStep, TickListBatches, TickFindsNothing, TickListAgents,
         TickNoAgent, ClaimBatch, ClaimBatchFails, ClaimAgent, ClaimAgentFails, Rollback,
         WorkerFetch, WorkerFetchFails, WorkerMarks, WorkerSucceeds, WorkerFails, WorkerStops,
         ProcessReturns, CompleteBatch, ReleaseAgent, NoTick, BatchRequestStep, AddBatch,
         WriteBatch, PauseRead, ResumeRead, RestartRead, HoldBatch, AgentRequestStep,
         CreateAgent, WriteAgent, UpdateAgentRead, DeleteAgentRead, HoldAgent, SetDraining,
         CancelRun, ProcessRestart, vars, tickVars, TypeOK
    <3>2. b \in BatchIds /\ i \in Items /\ d \in Batch
      BY <3>1, ClaimTypes
    <3>3. tries[b][i] <= d.items[i].attempts
      <4>1. CASE pc \in {"claim_agent", "rollback"}
        BY <4>1 DEF Counted
      <4>2. CASE pc = "claim"
        <5>1. batches[b] = d /\ d.items[i].status = "pending"
          BY <4>2 DEF InStep, ClaimSound, FirstItem
        <5> QED  BY <3>2, <5>1 DEF Counted, Accounted
      <4> QED  BY <3>1, <4>1, <4>2
    <3>4. claim'.doc.items[i].attempts = d.items[i].attempts
      BY <3>1, <3>2, ClaimedMoves DEF Moved
    <3>5. ~TryBegins(b, i)
      BY <2>2 DEF TryBegins
    <3>6. /\ tries'[b][i] \in Nat /\ tries[b][i] \in Nat
          /\ d.items[i].attempts \in Nat
      BY <2>1, <3>2 DEF Counted, Batch, Item
    <3> QED  BY <2>1, <3>1, <3>2, <3>3, <3>4, <3>5, <3>6
  <2>3. \A b \in BatchIds, i \in Items : Accounted(tries'[b][i], batches'[b].items[i])
    BY <1>2, AccountedStep
  <2>4. \A b \in BatchIds, i \in Items : Accounted(tries[b][i], batches[b].items[i])'
    BY <2>3 DEF Accounted
  <2> QED  BY <2>1, <2>2, <2>4 DEF Counted
<1> QED  BY <1>1, <1>2 DEF TriesNext

\* With one restarter, no item is tried more than MaxRetries times between two
\* restarts of its batch: a try that a crash or a failed write kept from being
\* counted has left its item in progress, and is the item's last.
THEOREM NoTryTooMany == OneRestarter /\ TriesSpec => []TriesAreCapped
<1>1. LInv /\ Counted => TriesAreCapped
  <2> SUFFICES ASSUME LInv, Counted, NEW b \in BatchIds, NEW i \in Items
               PROVE  tries[b][i] <= MaxRetries
    BY DEF TriesAreCapped
  <2>1. batches[b].items[i] \in Item /\ tries[b][i] \in Nat
    BY DEF LInv, IInv, TypeOK, Batch, Counted
  <2>2. /\ batches[b].items[i].attempts <= MaxRetries
        /\ batches[b].items[i].status = "in_progress" =>
             batches[b].items[i].attempts < MaxRetries
    BY <2>1, SchedulerAssumption
       DEF LInv, IInv, StoreSound, Sound, WithinRetries, Item, ItemStatus
  <2> QED  BY <2>1, <2>2, SchedulerAssumption DEF Counted, Accounted, Item
<1>2. TriesInit => Init /\ Counted
  BY DEF TriesInit, Init, Counted, Accounted, NewItems
<1>3. [TriesNext]_<<vars, tries>> => [Next]_vars
  BY DEF TriesNext
<1>4. CASE OneRestarter
  <2>1. LInv /\ Counted /\ [TriesNext]_<<vars, tries>> => Counted'
    BY <1>4, CountedStep
  <2>2. OneRestarter /\ Spec => []LInv
    BY LInvHolds
  <2> QED  BY <1>1, <1>2, <1>3, <1>4, <2>1, <2>2, PTL DEF TriesSpec, Spec
<1>5. CASE ~OneRestarter
  BY <1>5
<1> QED  BY <1>4, <1>5
=============================================================================
