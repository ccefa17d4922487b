--------------------------- MODULE SchedulerProofs ---------------------------
(***************************************************************************)
(* Proofs about Scheduler, for all batches, items, agents, requests,       *)
(* faults and restarts.                                                    *)
(*                                                                         *)
(* The store alone is not inductive: what is wrong in a copy today is      *)
(* wrong in the store tomorrow.  The invariant says the same of every copy *)
(* as the theorems say of the store, and that a copy about to be written   *)
(* by anyone but Tick is "live": neither finished nor failed, so that a    *)
(* writer who changes nothing but the status cannot contradict the items.  *)
(***************************************************************************)
EXTENDS Scheduler, TLAPS

\* A document with neither a failed item nor all its items done.
Live(d) ==
  /\ d.status # "done"
  /\ ~HasItem(d, "failed")
  /\ ~AllItemsDone(d)

\* What the theorems claim of the document d of batch b, wherever it is kept,
\* when S are the items the worker has succeeded on.
Sound(b, d, S) ==
  /\ InOrder(d)
  /\ WithinRetries(d)
  /\ StatusAgrees(d)
  /\ \A i \in Items : d.items[i].status = "done" => <<b, i>> \in S

StoreSound == \A b \in BatchIds : Sound(b, batches[b], succeeded)

\* Tick's copy: of an eligible batch before the claim, of a running one after.
ClaimSound ==
  /\ pc \in {"agents", "claim"} =>
       /\ Sound(claim.batch, claim.doc, succeeded)
       /\ Eligible(claim.doc)
       /\ FirstItem(claim.doc, claim.item, "pending")
  /\ pc \in Executing =>
       /\ Sound(claim.batch, claim.doc, succeeded)
       /\ Live(claim.doc)
       /\ claim.doc.items[claim.item].status = "in_progress"
  /\ pc = "complete" /\ ~workerErr => <<claim.batch, claim.item>> \in succeeded

\* While Tick executes, the store is live too, and so is what the worker reads.
CopySound ==
  /\ pc \in Executing => Live(batches[claim.batch])
  /\ pc \in {"mark", "run"} => Sound(claim.batch, copy, succeeded) /\ Live(copy)

RequestsSound ==
  \A r \in BatchRequests :
    breq[r] # None => Sound(breq[r].batch, breq[r].doc, succeeded) /\ Live(breq[r].doc)

\* The inductive invariant.
IInv == TypeOK /\ StoreSound /\ ClaimSound /\ CopySound /\ RequestsSound
-----------------------------------------------------------------------------
(* The helpers on documents *)

\* What the editing operators return, field by field.
LEMMA StatusEdit ==
  ASSUME NEW d \in Batch, NEW s \in BatchStatus
  PROVE  /\ WithStatus(d, s) \in Batch
         /\ WithStatus(d, s).items = d.items
         /\ WithStatus(d, s).status = s
BY DEF Batch, WithStatus

LEMMA ItemEdit ==
  ASSUME NEW d \in Batch, NEW i \in Items, NEW t \in ItemStatus
  PROVE  /\ WithItem(d, i, t) \in Batch
         /\ WithItem(d, i, t).status = d.status
         /\ \A j \in Items :
              /\ WithItem(d, i, t).items[j].status = IF j = i THEN t ELSE d.items[j].status
              /\ WithItem(d, i, t).items[j].attempts = d.items[j].attempts
<1>1. d.items[i] \in Item
  BY DEF Batch
<1>2. [d.items[i] EXCEPT !.status = t] \in Item
  BY <1>1 DEF Item
<1> QED  BY <1>2 DEF Batch, Item, WithItem

LEMMA AttemptEdit ==
  ASSUME NEW d \in Batch, NEW i \in Items
  PROVE  /\ Attempted(d, i) \in Batch
         /\ Attempted(d, i).status = d.status
         /\ \A j \in Items :
              /\ Attempted(d, i).items[j].status = d.items[j].status
              /\ Attempted(d, i).items[j].attempts =
                   IF j = i THEN d.items[j].attempts + 1 ELSE d.items[j].attempts
<1>1. d.items[i] \in Item
  BY DEF Batch
<1>2. [d.items[i] EXCEPT !.attempts = @ + 1] \in Item
  BY <1>1 DEF Item
<1> QED  BY <1>2 DEF Batch, Item, Attempted

\* e is d with status s, and with item i at status t after n attempts.
Moved(d, e, i, s, t, n) ==
  /\ e.status = s
  /\ \A j \in Items :
       /\ e.items[j].status = IF j = i THEN t ELSE d.items[j].status
       /\ e.items[j].attempts = IF j = i THEN n ELSE d.items[j].attempts

\* Claim, rollback and completion each move one item.
LEMMA MoveEdit ==
  ASSUME NEW d \in Batch, NEW i \in Items,
         NEW s \in BatchStatus, NEW t \in ItemStatus
  PROVE  LET e == WithItem(WithStatus(d, s), i, t)
         IN  e \in Batch /\ Moved(d, e, i, s, t, d.items[i].attempts)
<1> DEFINE f == WithStatus(d, s)
<1>1. f \in Batch /\ f.items = d.items /\ f.status = s
  BY StatusEdit
<1> HIDE DEF f
<1>2. WithItem(f, i, t) \in Batch /\ Moved(d, WithItem(f, i, t), i, s, t, d.items[i].attempts)
  BY <1>1, ItemEdit DEF Moved
<1> QED  BY <1>2 DEF f

LEMMA ClaimedMoves ==
  ASSUME NEW d \in Batch, NEW i \in Items
  PROVE  /\ Claimed(d, i) \in Batch
         /\ Moved(d, Claimed(d, i), i, "in_progress", "in_progress", d.items[i].attempts)
BY MoveEdit DEF Claimed, BatchStatus, ItemStatus

LEMMA UnclaimedMoves ==
  ASSUME NEW d \in Batch, NEW i \in Items
  PROVE  /\ Unclaimed(d, i) \in Batch
         /\ Moved(d, Unclaimed(d, i), i, "pending", "pending", d.items[i].attempts)
BY MoveEdit DEF Unclaimed, BatchStatus, ItemStatus

LEMMA SettledFailureMoves ==
  ASSUME NEW d \in Batch, NEW i \in Items
  PROVE  LET n == d.items[i].attempts + 1
             t == IF n >= MaxRetries THEN "failed" ELSE "pending"
         IN  /\ SettledFailure(d, i) \in Batch
             /\ Moved(d, SettledFailure(d, i), i, t, t, n)
<1> DEFINE n == d.items[i].attempts + 1
           t == IF n >= MaxRetries THEN "failed" ELSE "pending"
           e == Attempted(d, i)
<1>1. /\ e \in Batch
      /\ e.items[i].attempts = n
      /\ \A j \in Items :
           /\ e.items[j].status = d.items[j].status
           /\ e.items[j].attempts = IF j = i THEN n ELSE d.items[j].attempts
  BY AttemptEdit
<1>2. SettledFailure(d, i) = WithItem(WithStatus(e, t), i, t)
  BY <1>1 DEF SettledFailure
<1> HIDE DEF e
<1>3. t \in BatchStatus /\ t \in ItemStatus
  BY DEF BatchStatus, ItemStatus
<1> HIDE DEF t
<1>4. /\ SettledFailure(d, i) \in Batch
      /\ Moved(e, SettledFailure(d, i), i, t, t, n)
  BY <1>1, <1>2, <1>3, MoveEdit
<1>5. Moved(d, SettledFailure(d, i), i, t, t, n)
  BY <1>1, <1>4 DEF Moved
<1> QED  BY <1>4, <1>5 DEF t

LEMMA SettledSuccessMoves ==
  ASSUME NEW d \in Batch, NEW i \in Items
  PROVE  LET e == SettledSuccess(d, i)
         IN  /\ e \in Batch
             /\ Moved(d, e, i, IF AllItemsDone(e) THEN "done" ELSE "pending",
                      "done", d.items[i].attempts + 1)
<1> DEFINE a == Attempted(d, i)
           f == WithItem(a, i, "done")
           s == IF AllItemsDone(f) THEN "done" ELSE "pending"
           e == SettledSuccess(d, i)
<1>1. /\ a \in Batch
      /\ \A j \in Items :
           /\ a.items[j].status = d.items[j].status
           /\ a.items[j].attempts =
                IF j = i THEN d.items[j].attempts + 1 ELSE d.items[j].attempts
  BY AttemptEdit
<1> HIDE DEF a
<1>2. /\ f \in Batch
      /\ \A j \in Items :
           /\ f.items[j].status = IF j = i THEN "done" ELSE a.items[j].status
           /\ f.items[j].attempts = a.items[j].attempts
  BY <1>1, ItemEdit DEF ItemStatus
<1> HIDE DEF f
<1>3. WithStatus(f, s) \in Batch /\ WithStatus(f, s).items = f.items /\ WithStatus(f, s).status = s
  BY <1>2, StatusEdit DEF BatchStatus
<1>4. e = WithStatus(f, s)
  BY DEF SettledSuccess, f, a
<1> HIDE DEF e
<1>5. AllItemsDone(e) <=> AllItemsDone(f)
  BY <1>3, <1>4 DEF AllItemsDone
<1>6. e \in Batch /\ Moved(d, e, i, s, "done", d.items[i].attempts + 1)
  BY <1>1, <1>2, <1>3, <1>4 DEF Moved
<1> QED  BY <1>5, <1>6 DEF e

\* What a claim, its rollback and the completion write are documents.
LEMMA TickEditTypes ==
  ASSUME NEW d \in Batch, NEW i \in Items, NEW err \in BOOLEAN
  PROVE  /\ Claimed(d, i) \in Batch
         /\ Unclaimed(d, i) \in Batch
         /\ Settled(d, i, err) \in Batch
BY ClaimedMoves, UnclaimedMoves, SettledFailureMoves, SettledSuccessMoves DEF Settled

LEMMA RestartedType ==
  ASSUME NEW d \in Batch, NEW i \in Items
  PROVE  Restarted(d, i) \in Batch
BY DEF Restarted, WithStatus, Batch, Item, BatchStatus, ItemStatus

LEMMA NewItemsType == NewItems \in [Items -> Item]
BY DEF NewItems, Item, ItemStatus

\* Writing documents and agent statuses keeps the store's types, and the
\* outcome of any call keeps the fault counter within its bound.
LEMMA BatchWriteType ==
  ASSUME TypeOK, NEW b \in BatchIds, NEW d \in Batch,
         UpdateBatch(b, d) \/ BatchMayBeWritten(b, d)
  PROVE  batches' \in [BatchIds -> Batch]
BY DEF TypeOK, UpdateBatch, BatchMayBeWritten

LEMMA CallType ==
  ASSUME TypeOK, NEW c, CallSucceeds(c) \/ CallFails(c)
  PROVE  faults' \in 0..MaxFaults
BY SchedulerAssumption DEF TypeOK, CallSucceeds, CallFails

LEMMA AgentWriteType ==
  ASSUME TypeOK, NEW a \in AgentIds, NEW s \in AgentStatus, NEW c,
         UpdateAgentFails(a, s, c) \/ UpdateAgentSucceeds(a, s, c)
  PROVE  /\ agents' \in [AgentIds -> AgentStatus]
         /\ faults' \in 0..MaxFaults
BY CallType
   DEF TypeOK, UpdateAgent, UpdateAgentFails, UpdateAgentSucceeds

\* An outcome of a batch write under the context c.
LEMMA BatchCallType ==
  ASSUME TypeOK, NEW b \in BatchIds, NEW d \in Batch, NEW c,
         \/ CallSucceeds(c) /\ UpdateBatch(b, d)
         \/ CallFails(c) /\ BatchMayBeWritten(b, d)
  PROVE  /\ batches' \in [BatchIds -> Batch]
         /\ faults' \in 0..MaxFaults
BY BatchWriteType, CallType

LEMMA SetBatchStatusType ==
  ASSUME TypeOK, copy \in Batch, claim.batch \in BatchIds,
         NEW s \in BatchStatus, NEW c, SetBatchStatus(s, c)
  PROVE  /\ batches' \in [BatchIds -> Batch]
         /\ faults' \in 0..MaxFaults
<1>1. CASE UNCHANGED <<batches, faults>>
  BY <1>1 DEF TypeOK
<1>2. CASE \/ CallSucceeds(c) /\ UpdateBatch(claim.batch, WithStatus(copy, s))
           \/ CallFails(c) /\ BatchMayBeWritten(claim.batch, WithStatus(copy, s))
  BY <1>2, StatusEdit, BatchCallType
<1> QED  BY <1>1, <1>2 DEF SetBatchStatus
-----------------------------------------------------------------------------
(* Types *)

\* Every step keeps the types.
LEMMA TypeStep == TypeOK /\ [Next]_vars => TypeOK'
<1> SUFFICES ASSUME TypeOK, [Next]_vars PROVE TypeOK'
  OBVIOUS
<1>1. CASE TickListBatches
  BY <1>1 DEF TypeOK, procVars, reqVars, TickListBatches
<1>2. CASE TickFindsNothing
  BY <1>2 DEF TypeOK, tickVars, procVars, reqVars, TickFindsNothing, vars
<1>3. CASE TickListAgents
  BY <1>3, CallType DEF TypeOK, procVars, reqVars, TickListAgents
<1>4. CASE TickNoAgent
  BY <1>4, CallType DEF TypeOK, procVars, reqVars, TickNoAgent, NoTick
<1>5. CASE ClaimBatch
  BY <1>5, TickEditTypes, BatchWriteType, CallType
     DEF TypeOK, procVars, reqVars, ClaimBatch
<1>6. CASE ClaimBatchFails
  BY <1>6, TickEditTypes, BatchWriteType, CallType
     DEF TypeOK, procVars, reqVars, ClaimBatchFails, NoTick
<1>7. CASE ClaimAgent
  BY <1>7, AgentWriteType
     DEF TypeOK, procVars, reqVars, ClaimAgent, AgentStatus
<1>8. CASE ClaimAgentFails
  BY <1>8, AgentWriteType
     DEF TypeOK, procVars, reqVars, ClaimAgentFails, AgentStatus
<1>9. CASE Rollback
  BY <1>9, TickEditTypes, BatchCallType
     DEF TypeOK, procVars, reqVars, Rollback, NoTick
<1>10. CASE WorkerFetch
  BY <1>10, CallType DEF TypeOK, procVars, reqVars, WorkerFetch
<1>11. CASE WorkerFetchFails
  BY <1>11, CallType
     DEF TypeOK, procVars, reqVars, WorkerFetchFails, ProcessReturns
<1>12. CASE WorkerMarks
  BY <1>12, SetBatchStatusType, StatusEdit
     DEF TypeOK, procVars, reqVars, WorkerMarks, BatchStatus
<1>13. CASE WorkerSucceeds
  <2>1. <<claim.batch, claim.item>> \in BatchIds \X Items
    BY <1>13 DEF TypeOK, WorkerSucceeds
  <2>2. batches' \in [BatchIds -> Batch] /\ faults' \in 0..MaxFaults
    BY <1>13, SetBatchStatusType DEF TypeOK, WorkerSucceeds, BatchStatus
  <2> QED  BY <1>13, <2>1, <2>2
           DEF TypeOK, procVars, reqVars, WorkerSucceeds, ProcessReturns
<1>14. CASE WorkerFails
  BY <1>14, SetBatchStatusType
     DEF TypeOK, procVars, reqVars, WorkerFails, ProcessReturns, BatchStatus
<1>15. CASE WorkerStops
  BY <1>15, SetBatchStatusType
     DEF TypeOK, procVars, reqVars, WorkerStops, ProcessReturns, BatchStatus
<1>16. CASE CompleteBatch
  BY <1>16, TickEditTypes, BatchCallType
     DEF TypeOK, procVars, reqVars, CompleteBatch
<1>17. CASE ReleaseAgent
  BY <1>17, AgentWriteType
     DEF TypeOK, procVars, reqVars, ReleaseAgent, NoTick, AgentStatus
<1>18. CASE AddBatch
  BY <1>18, NewItemsType, BatchWriteType
     DEF TypeOK, tickVars, procVars, reqVars, AddBatch, Batch, BatchStatus
<1>19. CASE SetDraining
  BY <1>19 DEF TypeOK, tickVars, procVars, reqVars, SetDraining
<1>20. CASE CancelRun
  BY <1>20 DEF TypeOK, tickVars, procVars, reqVars, CancelRun
<1>21. CASE ProcessRestart
  <2>1. restarts' \in 0..MaxRestarts
    BY <1>21, SchedulerAssumption DEF TypeOK, ProcessRestart
  <2> QED  BY <1>21, <2>1 DEF TypeOK, ProcessRestart, NoTick
<1>22. CASE CreateAgent
  BY <1>22
     DEF TypeOK, tickVars, procVars, reqVars, CreateAgent, UpdateAgent, AgentStatus
<1>23. ASSUME NEW r \in BatchRequests, WriteBatch(r) PROVE TypeOK'
  BY <1>23, BatchCallType DEF TypeOK, tickVars, procVars, WriteBatch
<1>24. ASSUME NEW r \in BatchRequests, NEW b \in BatchIds,
             PauseRead(r, b) \/ ResumeRead(r, b) \/ RestartRead(r, b)
      PROVE  TypeOK'
  <2>1. batches[b] \in Batch
    BY DEF TypeOK
  <2>2. ASSUME NEW op, NEW d \in Batch, HoldBatch(r, op, b, d)
        PROVE  TypeOK'
    BY <2>2 DEF TypeOK, tickVars, procVars, HoldBatch
  <2>3. CASE PauseRead(r, b)
    BY <2>1, <2>2, <2>3, StatusEdit DEF PauseRead, BatchStatus
  <2>4. CASE ResumeRead(r, b)
    BY <2>1, <2>2, <2>4, StatusEdit DEF ResumeRead, BatchStatus
  <2>5. CASE RestartRead(r, b)
    BY <2>1, <2>2, <2>5, RestartedType DEF RestartRead
  <2> QED  BY <1>24, <2>3, <2>4, <2>5
<1>25. ASSUME NEW r \in AgentRequests, WriteAgent(r) PROVE TypeOK'
  <2>1. areq[r].agent \in AgentIds /\ areq[r].status \in AgentStatus
    BY <1>25 DEF WriteAgent, TypeOK, AgentStatus
  <2>2. agents' \in [AgentIds -> AgentStatus] /\ faults' \in 0..MaxFaults
    BY <1>25, <2>1, AgentWriteType DEF WriteAgent
  <2> QED  BY <1>25, <2>2 DEF TypeOK, tickVars, procVars, WriteAgent
<1>26. ASSUME NEW r \in AgentRequests, NEW a \in AgentIds,
             UpdateAgentRead(r, a) \/ DeleteAgentRead(r, a)
      PROVE  TypeOK'
  <2>1. PICK s \in {"idle", "deleted"} : HoldAgent(r, a, s)
    BY <1>26 DEF UpdateAgentRead, DeleteAgentRead
  <2> QED  BY <2>1 DEF TypeOK, tickVars, procVars, HoldAgent
<1>27. CASE UNCHANGED vars
  BY <1>27 DEF TypeOK, vars, tickVars, procVars, reqVars
<1> QED
  BY <1>1, <1>2, <1>3, <1>4, <1>5, <1>6, <1>7, <1>8, <1>9, <1>10, <1>11,
     <1>12, <1>13, <1>14, <1>15, <1>16, <1>17, <1>18, <1>19, <1>20, <1>21,
     <1>22, <1>23, <1>24, <1>25, <1>26, <1>27
     DEF Next, TickStep, BatchRequestStep, AgentRequestStep

LEMMA TypeInit == Init => TypeOK
<1> SUFFICES ASSUME Init PROVE TypeOK
  OBVIOUS
<1>1. [status |-> "absent", items |-> NewItems] \in Batch
  BY NewItemsType DEF Batch
<1>2. batches \in [BatchIds -> Batch]
  BY <1>1 DEF Init
<1>3. faults \in 0..MaxFaults /\ restarts \in 0..MaxRestarts
  BY SchedulerAssumption DEF Init
<1>4. agents \in [AgentIds -> AgentStatus]
  BY DEF Init, AgentStatus
<1> QED  BY <1>2, <1>3, <1>4 DEF Init, TypeOK

\* TypeOK holds of every behaviour, for all values of the constants.
THEOREM TypeCorrect == Spec => []TypeOK
BY TypeInit, TypeStep, PTL DEF Spec
-----------------------------------------------------------------------------
(* What each edit does to a sound document *)

LEMMA StatusKeepsSound ==
  ASSUME NEW b, NEW S, NEW d \in Batch, Sound(b, d, S), Live(d),
         NEW s \in {"pending", "in_progress", "paused", "failed"}
  PROVE  /\ WithStatus(d, s) \in Batch
         /\ Sound(b, WithStatus(d, s), S)
         /\ Live(WithStatus(d, s))
BY StatusEdit DEF Sound, Live, InOrder, WithinRetries, StatusAgrees, HasItem,
  AllItemsDone, BatchStatus

\* A claim of the first pending item of an eligible batch: with no item failed
\* or in progress, every item before it is done.
LEMMA ClaimedSound ==
  ASSUME NEW b, NEW S, NEW d \in Batch, NEW i \in Items, Sound(b, d, S),
         Eligible(d), FirstItem(d, i, "pending")
  PROVE  /\ Sound(b, Claimed(d, i), S)
         /\ Live(Claimed(d, i))
         /\ Claimed(d, i).items[i].status = "in_progress"
<1> DEFINE e == Claimed(d, i)
<1> HIDE DEF e
<1>1. /\ e.status = "in_progress"
      /\ \A j \in Items :
           /\ e.items[j].status = IF j = i THEN "in_progress" ELSE d.items[j].status
           /\ e.items[j].attempts = d.items[j].attempts
  BY ClaimedMoves DEF Moved, e
<1>2. \A j \in Items : d.items[j].status \in ItemStatus
  BY DEF Batch, Item
<1>3. \A j \in Items : j < i => d.items[j].status = "done"
  BY <1>2 DEF Sound, StatusAgrees, Eligible, FirstItem, HasItem, ItemStatus
<1>4. \A j \in Items : i < j => d.items[j].status = "pending"
  BY <1>2 DEF Sound, InOrder, FirstItem
<1>5. \A j \in Items : e.items[j].status # "failed"
  BY <1>1 DEF Sound, StatusAgrees, Eligible, HasItem
<1>6. InOrder(e)
  BY <1>1, <1>3, <1>4 DEF InOrder, Items
<1>7. WithinRetries(e)
  BY <1>1 DEF Sound, WithinRetries, FirstItem
<1> QED
  BY <1>1, <1>5, <1>6, <1>7
     DEF Sound, Live, StatusAgrees, HasItem, AllItemsDone, e

\* The items around the one in progress.
LEMMA RunningShape ==
  ASSUME NEW b, NEW S, NEW d \in Batch, NEW i \in Items, Sound(b, d, S),
         Live(d), d.items[i].status = "in_progress"
  PROVE  /\ \A j \in Items : j < i => d.items[j].status = "done"
         /\ \A j \in Items : i < j => d.items[j].status = "pending"
         /\ d.items[i].attempts \in Nat
         /\ d.items[i].attempts < MaxRetries
BY DEF Sound, InOrder, WithinRetries, Batch, Item

\* Item i of a running document moves to status t with n attempts, and the
\* batch to status s: the shape shared by rollback, success, retry and failure.
LEMMA MoveSound ==
  ASSUME NEW b, NEW S, NEW d \in Batch, NEW i \in Items, Sound(b, d, S),
         Live(d), d.items[i].status = "in_progress",
         NEW e, NEW s, NEW t, NEW n \in Nat, Moved(d, e, i, s, t, n),
         \/ t = "pending" /\ n < MaxRetries /\ s = "pending"
         \/ t = "failed" /\ n = MaxRetries /\ s = "failed"
         \/ t = "done" /\ n \in 1..MaxRetries /\ <<b, i>> \in S
            /\ s = IF AllItemsDone(e) THEN "done" ELSE "pending"
  PROVE  Sound(b, e, S)
<1>1. InOrder(e)
  BY RunningShape DEF InOrder, Items, Moved
<1>2. WithinRetries(e)
  BY DEF Sound, WithinRetries, Moved
<1>3. StatusAgrees(e)
  BY DEF Sound, Live, StatusAgrees, HasItem, AllItemsDone, Moved
<1>4. \A j \in Items : e.items[j].status = "done" => <<b, j>> \in S
  BY DEF Sound, Moved
<1> QED  BY <1>1, <1>2, <1>3, <1>4 DEF Sound

LEMMA UnclaimedSound ==
  ASSUME NEW b, NEW S, NEW d \in Batch, NEW i \in Items, Sound(b, d, S),
         Live(d), d.items[i].status = "in_progress"
  PROVE  Sound(b, Unclaimed(d, i), S)
BY UnclaimedMoves, RunningShape, MoveSound

\* The completion write, after a failure and after a success.
LEMMA SettledSound ==
  ASSUME NEW b, NEW S, NEW d \in Batch, NEW i \in Items, NEW err \in BOOLEAN,
         Sound(b, d, S), Live(d), d.items[i].status = "in_progress",
         ~err => <<b, i>> \in S
  PROVE  Sound(b, Settled(d, i, err), S)
<1> DEFINE n == d.items[i].attempts + 1
<1>1. n \in Nat /\ n \in 1..MaxRetries
  BY RunningShape, SchedulerAssumption
<1>2. CASE err
  <2>1. CASE n >= MaxRetries
    <3>1. Moved(d, SettledFailure(d, i), i, "failed", "failed", n) /\ n = MaxRetries
      BY <1>1, <2>1, SettledFailureMoves, SchedulerAssumption
    <3> QED  BY <1>1, <1>2, <3>1, MoveSound DEF Settled
  <2>2. CASE ~(n >= MaxRetries)
    <3>1. Moved(d, SettledFailure(d, i), i, "pending", "pending", n) /\ n < MaxRetries
      BY <1>1, <2>2, SettledFailureMoves, SchedulerAssumption
    <3> QED  BY <1>1, <1>2, <3>1, MoveSound DEF Settled
  <2> QED  BY <2>1, <2>2
<1>3. CASE ~err
  BY <1>1, <1>3, SettledSuccessMoves, MoveSound DEF Settled
<1> QED  BY <1>2, <1>3

\* A restart: only one item can be failed, the ones before it are done.
LEMMA RestartedSound ==
  ASSUME NEW b, NEW S, NEW d \in Batch, NEW i \in Items, Sound(b, d, S),
         FirstItem(d, i, "failed")
  PROVE  Sound(b, Restarted(d, i), S) /\ Live(Restarted(d, i))
<1> DEFINE e == Restarted(d, i)
<1>1. /\ e.status = "pending"
      /\ e.items[i] = [status |-> "pending", attempts |-> 0]
      /\ \A j \in Items : j # i => e.items[j] = d.items[j]
  BY DEF Restarted, WithStatus, Batch
<1>2. \A j \in Items : i < j => d.items[j].status = "pending"
  BY DEF Sound, InOrder, FirstItem
<1>3. \A j \in Items : j < i => d.items[j].status = "done"
  BY DEF Sound, InOrder, FirstItem
<1>4. InOrder(e)
  BY <1>1, <1>2, <1>3 DEF InOrder, Items
<1>5. WithinRetries(e)
  BY <1>1, SchedulerAssumption DEF Sound, WithinRetries
<1>6. ~HasItem(e, "failed") /\ ~AllItemsDone(e)
  BY <1>1, <1>2, <1>3 DEF HasItem, AllItemsDone, Items
<1>7. \A j \in Items : e.items[j].status = "done" => <<b, j>> \in S
  BY <1>1 DEF Sound
<1> QED  BY <1>1, <1>4, <1>5, <1>6, <1>7 DEF Sound, Live, StatusAgrees
-----------------------------------------------------------------------------
(* The inductive invariant *)

\* More successes take nothing from a document.
LEMMA SoundGrows ==
  ASSUME NEW b, NEW d, NEW S, NEW T, S \subseteq T, Sound(b, d, S)
  PROVE  Sound(b, d, T)
BY DEF Sound

\* The status of a sound document tells that it is live.
LEMMA LiveByStatus ==
  ASSUME NEW b, NEW d, NEW S, Sound(b, d, S), d.status \notin {"done", "failed"}
  PROVE  Live(d)
BY DEF Sound, StatusAgrees, Live

\* Writing a sound document, or failing to, leaves a sound store, and a live
\* document keeps its batch live.
LEMMA WriteKeepsStore ==
  ASSUME TypeOK, StoreSound, NEW b \in BatchIds, NEW d \in Batch,
         Sound(b, d, succeeded),
         UpdateBatch(b, d) \/ BatchMayBeWritten(b, d) \/ UNCHANGED batches
  PROVE  \A c \in BatchIds :
           /\ Sound(c, batches'[c], succeeded)
           /\ Live(d) /\ Live(batches[c]) => Live(batches'[c])
<1> SUFFICES ASSUME NEW c \in BatchIds
             PROVE  /\ Sound(c, batches'[c], succeeded)
                    /\ Live(d) /\ Live(batches[c]) => Live(batches'[c])
  OBVIOUS
<1>1. batches'[c] = batches[c] \/ (c = b /\ batches'[c] = d)
  BY DEF TypeOK, UpdateBatch, BatchMayBeWritten
<1> QED  BY <1>1 DEF StoreSound

\* The worker's status writes, from a live copy.
LEMMA SetBatchStatusKeepsStore ==
  ASSUME TypeOK, StoreSound, copy \in Batch, claim.batch \in BatchIds,
         Sound(claim.batch, copy, succeeded), Live(copy),
         NEW s \in {"pending", "in_progress", "failed"}, NEW c, SetBatchStatus(s, c)
  PROVE  \A e \in BatchIds :
           /\ Sound(e, batches'[e], succeeded)
           /\ Live(batches[e]) => Live(batches'[e])
<1>1. /\ WithStatus(copy, s) \in Batch
      /\ Sound(claim.batch, WithStatus(copy, s), succeeded)
      /\ Live(WithStatus(copy, s))
  BY StatusKeepsSound
<1>2. \/ UNCHANGED batches
      \/ UpdateBatch(claim.batch, WithStatus(copy, s))
      \/ BatchMayBeWritten(claim.batch, WithStatus(copy, s))
  BY DEF SetBatchStatus
<1> QED  BY <1>1, <1>2, WriteKeepsStore

\* Every step of the scheduler, the worker and the handlers keeps the store and
\* all copies sound.
LEMMA SoundStep ==
  IInv /\ [Next]_vars => StoreSound' /\ ClaimSound' /\ CopySound' /\ RequestsSound'
<1> SUFFICES ASSUME IInv, [Next]_vars
             PROVE  StoreSound' /\ ClaimSound' /\ CopySound' /\ RequestsSound'
  OBVIOUS
<1> USE DEF IInv
<1>1. CASE TickListBatches
  <2>1. StoreSound' /\ RequestsSound' /\ CopySound'
    BY <1>1 DEF TickListBatches, reqVars, StoreSound, RequestsSound, CopySound, Executing
  <2>2. ClaimSound'
    BY <1>1 DEF TickListBatches, ClaimSound, StoreSound, NextBatch, Executing
  <2> QED  BY <2>1, <2>2
<1>2. CASE UNCHANGED vars \/ TickFindsNothing
  BY <1>2 DEF TickFindsNothing, vars, tickVars, procVars, reqVars,
              StoreSound, ClaimSound, CopySound, RequestsSound
<1>3. CASE TickListAgents
  BY <1>3 DEF TickListAgents, procVars, reqVars,
              StoreSound, ClaimSound, CopySound, RequestsSound, Executing
<1>4. CASE TickNoAgent \/ ReleaseAgent
  BY <1>4 DEF TickNoAgent, ReleaseAgent, NoTick, procVars, reqVars,
              StoreSound, ClaimSound, CopySound, RequestsSound, Executing
<1>5. CASE ClaimBatch
  <2> DEFINE d == Claimed(claim.doc, claim.item)
  <2>1. /\ claim \in [batch : BatchIds, item : Items, doc : Batch]
        /\ d \in Batch
        /\ Sound(claim.batch, d, succeeded)
        /\ Live(d)
        /\ d.items[claim.item].status = "in_progress"
    BY <1>5, ClaimedSound, ClaimedMoves DEF ClaimBatch, TypeOK, ClaimSound
  <2> HIDE DEF d
  <2>2. /\ claim'.batch = claim.batch
        /\ claim'.item = claim.item
        /\ claim'.doc = d
        /\ UpdateBatch(claim.batch, d)
    BY <1>5, <2>1 DEF ClaimBatch, d
  <2>3. batches' = [batches EXCEPT ![claim.batch] = d]
    BY <2>2 DEF UpdateBatch
  <2>4. StoreSound'
    BY <1>5, <2>1, <2>2, WriteKeepsStore DEF ClaimBatch, StoreSound
  <2>5. ClaimSound'
    BY <1>5, <2>1, <2>2 DEF ClaimBatch, ClaimSound, Executing
  <2>6. CopySound'
    BY <1>5, <2>1, <2>2, <2>3 DEF ClaimBatch, CopySound, TypeOK
  <2>7. RequestsSound'
    BY <1>5 DEF ClaimBatch, RequestsSound, reqVars
  <2> QED  BY <2>4, <2>5, <2>6, <2>7
<1>6. CASE ClaimBatchFails
  <2> DEFINE d == Claimed(claim.doc, claim.item)
  <2>1. /\ claim.batch \in BatchIds
        /\ d \in Batch
        /\ Sound(claim.batch, d, succeeded)
    BY <1>6, ClaimedSound, ClaimedMoves DEF ClaimBatchFails, TypeOK, ClaimSound
  <2>2. StoreSound'
    BY <1>6, <2>1, WriteKeepsStore DEF ClaimBatchFails, StoreSound
  <2> QED
    BY <1>6, <2>2 DEF ClaimBatchFails, NoTick, reqVars,
                      ClaimSound, CopySound, RequestsSound, Executing
<1>7. CASE ClaimAgent \/ ClaimAgentFails
  BY <1>7 DEF ClaimAgent, ClaimAgentFails, procVars, reqVars,
              StoreSound, ClaimSound, CopySound, RequestsSound, Executing
<1>8. CASE Rollback
  <2> DEFINE d == Unclaimed(claim.doc, claim.item)
  <2>1. /\ claim.batch \in BatchIds
        /\ d \in Batch
        /\ Sound(claim.batch, d, succeeded)
    BY <1>8, UnclaimedSound, UnclaimedMoves
       DEF Rollback, TypeOK, ClaimSound, Executing
  <2>2. StoreSound'
    BY <1>8, <2>1, WriteKeepsStore DEF Rollback, StoreSound
  <2> QED
    BY <1>8, <2>2 DEF Rollback, NoTick, reqVars,
                      ClaimSound, CopySound, RequestsSound, Executing
<1>9. CASE WorkerFetch
  BY <1>9 DEF WorkerFetch, procVars, reqVars, TypeOK,
              StoreSound, ClaimSound, CopySound, RequestsSound, Executing
<1>10. CASE WorkerFetchFails
  BY <1>10 DEF WorkerFetchFails, ProcessReturns, procVars, reqVars,
               StoreSound, ClaimSound, CopySound, RequestsSound, Executing
<1>11. CASE WorkerMarks
  <2>1. /\ claim.batch \in BatchIds
        /\ copy \in Batch
        /\ Sound(claim.batch, copy, succeeded)
        /\ Live(copy)
    BY <1>11 DEF WorkerMarks, TypeOK, CopySound
  <2>2. \A e \in BatchIds :
          /\ Sound(e, batches'[e], succeeded)
          /\ Live(batches[e]) => Live(batches'[e])
    BY <1>11, <2>1, SetBatchStatusKeepsStore DEF WorkerMarks
  <2>3. /\ Sound(claim.batch, copy', succeeded)
        /\ Live(copy')
    BY <1>11, <2>1, StatusKeepsSound DEF WorkerMarks
  <2>4. StoreSound' /\ ClaimSound' /\ RequestsSound'
    BY <1>11, <2>2 DEF WorkerMarks, StoreSound, ClaimSound, RequestsSound,
                       reqVars, Executing
  <2>5. CopySound'
    BY <1>11, <2>1, <2>2, <2>3 DEF WorkerMarks, CopySound, Executing
  <2> QED  BY <2>4, <2>5
<1>12. CASE WorkerSucceeds \/ WorkerFails \/ WorkerStops
  <2>1. /\ claim.batch \in BatchIds
        /\ copy \in Batch
        /\ Sound(claim.batch, copy, succeeded)
        /\ Live(copy)
    BY <1>12 DEF WorkerSucceeds, WorkerFails, WorkerStops, TypeOK, CopySound
  <2>2. \A e \in BatchIds :
          /\ Sound(e, batches'[e], succeeded)
          /\ Live(batches[e]) => Live(batches'[e])
    <3>1. CASE UNCHANGED batches
      BY <3>1 DEF StoreSound
    <3>2. CASE \E s \in {"pending", "failed"}, c \in BOOLEAN : SetBatchStatus(s, c)
      BY <2>1, <3>2, SetBatchStatusKeepsStore
    <3> QED  BY <1>12, <3>1, <3>2 DEF WorkerSucceeds, WorkerFails, WorkerStops, TypeOK
  <2>3. succeeded \subseteq succeeded'
    BY <1>12 DEF WorkerSucceeds, WorkerFails, WorkerStops
  <2>4. /\ pc = "run" /\ pc' = "complete" /\ claim' = claim /\ breq' = breq
        /\ ~workerErr' => <<claim.batch, claim.item>> \in succeeded'
    BY <1>12 DEF WorkerSucceeds, WorkerFails, WorkerStops, ProcessReturns, reqVars
  <2>5. StoreSound'
    BY <2>2, <2>3, SoundGrows DEF StoreSound
  <2>6. ClaimSound'
    BY <2>3, <2>4, SoundGrows DEF ClaimSound, Executing
  <2>7. CopySound'
    BY <2>1, <2>2, <2>4 DEF CopySound, Executing
  <2>8. RequestsSound'
    BY <2>3, <2>4, SoundGrows DEF RequestsSound
  <2> QED  BY <2>5, <2>6, <2>7, <2>8
<1>13. CASE CompleteBatch
  <2> DEFINE d == Settled(claim.doc, claim.item, workerErr)
  <2>1. /\ claim.batch \in BatchIds
        /\ d \in Batch
        /\ Sound(claim.batch, d, succeeded)
    BY <1>13, SettledSound, TickEditTypes
       DEF CompleteBatch, TypeOK, ClaimSound, Executing
  <2>2. StoreSound'
    BY <1>13, <2>1, WriteKeepsStore DEF CompleteBatch, StoreSound
  <2> QED
    BY <1>13, <2>2 DEF CompleteBatch, reqVars,
                       ClaimSound, CopySound, RequestsSound, Executing
<1>14. CASE AddBatch
  <2> DEFINE d == [status |-> "pending", items |-> NewItems]
  <2>1. PICK b \in BatchIds : UpdateBatch(b, d)
    BY <1>14 DEF AddBatch
  <2>2. d \in Batch
    BY NewItemsType DEF Batch, BatchStatus
  <2>3. Sound(b, d, succeeded) /\ Live(d)
    BY SchedulerAssumption
       DEF Sound, Live, InOrder, WithinRetries, StatusAgrees, HasItem,
           AllItemsDone, NewItems, Items
  <2> HIDE DEF d
  <2>4. \A e \in BatchIds :
          /\ Sound(e, batches'[e], succeeded)
          /\ Live(batches[e]) => Live(batches'[e])
    BY <2>1, <2>2, <2>3, WriteKeepsStore
  <2>5. StoreSound' /\ ClaimSound' /\ RequestsSound'
    BY <1>14, <2>4 DEF AddBatch, tickVars, reqVars,
                       StoreSound, ClaimSound, RequestsSound
  <2>6. pc' = pc /\ claim' = claim /\ copy' = copy /\ succeeded' = succeeded
    BY <1>14 DEF AddBatch, tickVars
  <2>7. pc \in Executing => claim.batch \in BatchIds
    BY DEF TypeOK, Executing
  <2>8. CopySound'
    BY <2>4, <2>6, <2>7 DEF CopySound
  <2> QED  BY <2>5, <2>8
<1>15. CASE SetDraining \/ CancelRun \/ CreateAgent
  BY <1>15 DEF SetDraining, CancelRun, CreateAgent, tickVars, reqVars,
               StoreSound, ClaimSound, CopySound, RequestsSound
<1>16. CASE ProcessRestart
  BY <1>16 DEF ProcessRestart, NoTick,
               StoreSound, ClaimSound, CopySound, RequestsSound, Executing
<1>17. ASSUME NEW r \in BatchRequests, WriteBatch(r)
       PROVE  StoreSound' /\ ClaimSound' /\ CopySound' /\ RequestsSound'
  <2> DEFINE b == breq[r].batch
             d == breq[r].doc
  <2>1. b \in BatchIds /\ d \in Batch /\ Sound(b, d, succeeded) /\ Live(d)
    BY <1>17 DEF WriteBatch, TypeOK, RequestsSound
  <2>2. UpdateBatch(b, d) \/ BatchMayBeWritten(b, d)
    BY <1>17 DEF WriteBatch
  <2> HIDE DEF b, d
  <2>3. \A e \in BatchIds :
          /\ Sound(e, batches'[e], succeeded)
          /\ Live(batches[e]) => Live(batches'[e])
    BY <2>1, <2>2, WriteKeepsStore
  <2>4. /\ pc' = pc /\ claim' = claim /\ copy' = copy /\ workerErr' = workerErr
        /\ succeeded' = succeeded
    BY <1>17 DEF WriteBatch, tickVars
  <2>5. pc \in Executing => claim.batch \in BatchIds
    BY DEF TypeOK, Executing
  <2>6. StoreSound' /\ ClaimSound' /\ CopySound'
    BY <2>3, <2>4, <2>5 DEF StoreSound, ClaimSound, CopySound
  <2>7. \A q \in BatchRequests : breq'[q] = breq[q] \/ breq'[q] = None
    BY <1>17 DEF WriteBatch, TypeOK
  <2>8. RequestsSound'
    BY <2>4, <2>7 DEF RequestsSound
  <2> QED  BY <2>6, <2>8
<1>18. ASSUME NEW r \in BatchRequests, NEW b \in BatchIds,
              PauseRead(r, b) \/ ResumeRead(r, b) \/ RestartRead(r, b)
       PROVE  StoreSound' /\ ClaimSound' /\ CopySound' /\ RequestsSound'
  <2>1. batches[b] \in Batch /\ Sound(b, batches[b], succeeded)
    BY DEF TypeOK, StoreSound
  <2>2. ASSUME NEW op, NEW d, HoldBatch(r, op, b, d), Sound(b, d, succeeded), Live(d)
        PROVE  StoreSound' /\ ClaimSound' /\ CopySound' /\ RequestsSound'
    <3>1. StoreSound' /\ ClaimSound' /\ CopySound'
      BY <2>2 DEF HoldBatch, tickVars, StoreSound, ClaimSound, CopySound
    <3>2. /\ succeeded' = succeeded
          /\ \A q \in BatchRequests :
               IF q = r THEN breq'[q].batch = b /\ breq'[q].doc = d
                        ELSE breq'[q] = breq[q]
      BY <2>2 DEF HoldBatch, TypeOK
    <3>3. RequestsSound'
      BY <2>2, <3>2 DEF RequestsSound
    <3> QED  BY <3>1, <3>3
  <2>3. CASE PauseRead(r, b)
    BY <2>1, <2>2, <2>3, LiveByStatus, StatusKeepsSound DEF PauseRead
  <2>4. CASE ResumeRead(r, b)
    BY <2>1, <2>2, <2>4, LiveByStatus, StatusKeepsSound DEF ResumeRead
  <2>5. CASE RestartRead(r, b)
    BY <2>1, <2>2, <2>5, RestartedSound DEF RestartRead
  <2> QED  BY <1>18, <2>3, <2>4, <2>5
<1>19. ASSUME NEW r \in AgentRequests,
              WriteAgent(r) \/ \E a \in AgentIds : UpdateAgentRead(r, a) \/ DeleteAgentRead(r, a)
       PROVE  StoreSound' /\ ClaimSound' /\ CopySound' /\ RequestsSound'
  BY <1>19 DEF WriteAgent, UpdateAgentRead, DeleteAgentRead, HoldAgent, tickVars,
               StoreSound, ClaimSound, CopySound, RequestsSound
<1> QED
  BY <1>1, <1>2, <1>3, <1>4, <1>5, <1>6, <1>7, <1>8, <1>9, <1>10, <1>11,
     <1>12, <1>13, <1>14, <1>15, <1>16, <1>17, <1>18, <1>19
     DEF Next, TickStep, BatchRequestStep, AgentRequestStep

LEMMA SoundInit == Init => IInv
<1> SUFFICES ASSUME Init PROVE IInv
  OBVIOUS
<1>1. TypeOK
  BY TypeInit
<1>2. ASSUME NEW b \in BatchIds PROVE Sound(b, batches[b], succeeded)
  BY SchedulerAssumption
     DEF Init, Sound, InOrder, WithinRetries, StatusAgrees, HasItem,
         AllItemsDone, NewItems, Items
<1> QED
  BY <1>1, <1>2 DEF Init, IInv, StoreSound, ClaimSound, CopySound, RequestsSound, Executing

\* The invariant holds of every behaviour.
THEOREM CopiesSound == Spec => []IInv
<1>1. IInv /\ [Next]_vars => IInv'
  BY TypeStep, SoundStep DEF IInv
<1> QED  BY <1>1, SoundInit, PTL DEF Spec

\* Items of a batch run strictly in order, for all values of the constants.
THEOREM ItemsRunInOrder == Spec => []ItemsInOrder
<1>1. IInv => ItemsInOrder
  BY DEF IInv, StoreSound, Sound, ItemsInOrder
<1> QED  BY <1>1, CopiesSound, PTL

\* A batch's status never contradicts its items, nor an item's its attempts.
THEOREM StatusIsHonest == Spec => []StatusMatchesItems
<1>1. IInv => StatusMatchesItems
  BY DEF IInv, StoreSound, Sound, StatusMatchesItems
<1> QED  BY <1>1, CopiesSound, PTL

\* What the store calls done, the worker has succeeded on.
THEOREM DoneIsEarned == Spec => []DoneMeansSucceeded
<1>1. IInv => DoneMeansSucceeded
  BY DEF IInv, StoreSound, Sound, DoneMeansSucceeded
<1> QED  BY <1>1, CopiesSound, PTL
-----------------------------------------------------------------------------
(* How long a pause lasts *)

Waits(r, op, b) == breq[r] # None /\ breq[r].op = op /\ breq[r].batch = b

\* What read batch b before its pause and may still write over it.
UnderWay(b) ==
  \/ pc # "idle" /\ claim.batch = b
  \/ \E r \in BatchRequests : Waits(r, "restart", b)

\* A pause request writes a pause.
PausesPause ==
  \A r \in BatchRequests :
    breq[r] # None /\ breq[r].op = "pause" => breq[r].doc.status = "paused"

\* A batch is written by the tick that holds it, when it is added, or by the
\* request that read it.
LEMMA WhoWrites ==
  ASSUME TypeOK, Next, NEW b \in BatchIds, batches'[b] # batches[b]
  PROVE  \/ pc # "idle" /\ claim.batch = b
         \/ batches[b].status = "absent"
         \/ \E r \in BatchRequests :
              /\ breq[r] # None /\ breq[r].batch = b /\ breq'[r] = None
              /\ batches'[b] = breq[r].doc
<1> USE DEF tickVars, procVars, reqVars, UpdateBatch, BatchMayBeWritten
<1>1. ASSUME NEW c \in BatchIds, NEW d, batches' = [batches EXCEPT ![c] = d]
      PROVE  c = b /\ batches'[b] = d
  BY <1>1 DEF TypeOK
<1>2. pc # "idle" => claim.batch \in BatchIds
  BY DEF TypeOK
<1>3. CASE TickListBatches \/ TickListAgents \/ TickNoAgent \/ ClaimAgent \/ ClaimAgentFails
           \/ WorkerFetch \/ WorkerFetchFails \/ ReleaseAgent
  BY <1>3 DEF TickListBatches, TickListAgents, TickNoAgent, ClaimAgent, ClaimAgentFails,
     WorkerFetch, WorkerFetchFails, ReleaseAgent
<1>4. CASE ClaimBatch \/ ClaimBatchFails
  BY <1>1, <1>2, <1>4 DEF ClaimBatch, ClaimBatchFails
<1>5. CASE Rollback \/ CompleteBatch
  BY <1>1, <1>2, <1>5 DEF Rollback, CompleteBatch
<1>6. CASE WorkerMarks \/ WorkerSucceeds \/ WorkerFails \/ WorkerStops
  BY <1>1, <1>2, <1>6 DEF WorkerMarks, WorkerSucceeds, WorkerFails, WorkerStops, SetBatchStatus
<1>7. CASE AddBatch
  BY <1>1, <1>7 DEF AddBatch
<1>8. ASSUME NEW r \in BatchRequests, WriteBatch(r)
      PROVE  \E q \in BatchRequests :
               /\ breq[q] # None /\ breq[q].batch = b /\ breq'[q] = None
               /\ batches'[b] = breq[q].doc
  <2>1. breq[r] # None /\ breq[r].batch \in BatchIds /\ breq'[r] = None
    BY <1>8 DEF WriteBatch, TypeOK
  <2>2. batches' = [batches EXCEPT ![breq[r].batch] = breq[r].doc]
    BY <1>8 DEF WriteBatch
  <2> QED  BY <1>1, <2>1, <2>2
<1>9. CASE TickFindsNothing \/ AgentRequestStep \/ SetDraining \/ CancelRun \/ ProcessRestart
  BY <1>9 DEF TickFindsNothing, AgentRequestStep, CreateAgent, WriteAgent, UpdateAgentRead,
     DeleteAgentRead, HoldAgent, SetDraining, CancelRun, ProcessRestart, vars
<1>10. ASSUME NEW r \in BatchRequests, NEW c \in BatchIds,
              PauseRead(r, c) \/ ResumeRead(r, c) \/ RestartRead(r, c)
       PROVE  FALSE
  BY <1>10 DEF PauseRead, ResumeRead, RestartRead, HoldBatch
<1> QED
  BY <1>3, <1>4, <1>5, <1>6, <1>7, <1>8, <1>9, <1>10
     DEF Next, TickStep, BatchRequestStep

\* Only their own steps, and the end of the process, move batch requests.
LEMMA OthersKeepRequests ==
  ASSUME TickStep \/ TickFindsNothing \/ AgentRequestStep \/ SetDraining \/ CancelRun
         \/ AddBatch \/ UNCHANGED vars
  PROVE  breq' = breq
BY DEF tickVars, procVars, reqVars, vars, TickStep, TickListBatches, TickListAgents,
   TickNoAgent, ClaimBatch, ClaimBatchFails, ClaimAgent, ClaimAgentFails, Rollback,
   WorkerFetch, WorkerFetchFails, WorkerMarks, WorkerSucceeds, WorkerFails, WorkerStops,
   CompleteBatch, ReleaseAgent, NoTick, ProcessReturns, TickFindsNothing, AddBatch,
   AgentRequestStep, CreateAgent, WriteAgent, UpdateAgentRead, DeleteAgentRead,
   HoldAgent, SetDraining, CancelRun

\* A request to restart a batch has found it failed.
LEMMA RestartsComeAfterFailure ==
  ASSUME TypeOK, [Next]_vars, NEW r \in BatchRequests, NEW b \in BatchIds,
         Waits(r, "restart", b)'
  PROVE  Waits(r, "restart", b) \/ batches[b].status = "failed"
<1>1. CASE TickStep \/ TickFindsNothing \/ AgentRequestStep \/ SetDraining \/ CancelRun
           \/ AddBatch \/ UNCHANGED vars
  <2>1. breq' = breq
    BY <1>1, OthersKeepRequests
  <2> QED  BY <2>1 DEF Waits
<1>2. CASE ProcessRestart
  BY <1>2 DEF ProcessRestart, Waits
<1>3. ASSUME NEW q \in BatchRequests, WriteBatch(q)
      PROVE  Waits(r, "restart", b)
  BY <1>3 DEF WriteBatch, Waits, TypeOK
<1>4. ASSUME NEW q \in BatchRequests, NEW c \in BatchIds,
             PauseRead(q, c) \/ ResumeRead(q, c) \/ RestartRead(q, c)
      PROVE  Waits(r, "restart", b) \/ batches[b].status = "failed"
  <2>1. CASE q = r
    BY <1>4, <2>1 DEF PauseRead, ResumeRead, RestartRead, HoldBatch, Waits, TypeOK
  <2>2. CASE q # r
    BY <1>4, <2>2 DEF PauseRead, ResumeRead, RestartRead, HoldBatch, Waits, TypeOK
  <2> QED  BY <2>1, <2>2
<1> QED
  BY <1>1, <1>2, <1>3, <1>4 DEF Next, BatchRequestStep

\* While a batch is paused, neither a tick nor a restart takes it up.
LEMMA NothingComesUnderWay ==
  ASSUME TypeOK, [Next]_vars, NEW b \in BatchIds, batches[b].status = "paused",
         UnderWay(b)'
  PROVE  UnderWay(b)
<1> USE DEF tickVars, procVars, reqVars
<1>1. CASE pc' # "idle" /\ claim'.batch = b
  <2>1. CASE TickListBatches
    BY <1>1, <2>1 DEF TickListBatches, NextBatch, Eligible
  <2>2. CASE ClaimBatch
    <3>1. claim'.batch = claim.batch /\ pc # "idle"
      BY <2>2 DEF ClaimBatch, TypeOK
    <3> QED  BY <1>1, <3>1 DEF UnderWay
  <2>3. CASE ~TickListBatches /\ ~ClaimBatch
    <3>1. pc # "idle" /\ claim' = claim
      BY <1>1, <2>3
         DEF Next, vars, TickStep, TickListAgents, TickNoAgent, ClaimBatchFails, ClaimAgent,
             ClaimAgentFails, Rollback, WorkerFetch, WorkerFetchFails, WorkerMarks,
             WorkerSucceeds, WorkerFails, WorkerStops, CompleteBatch, ReleaseAgent, NoTick,
             ProcessReturns, TickFindsNothing, BatchRequestStep, AddBatch, WriteBatch,
             PauseRead, ResumeRead, RestartRead, HoldBatch, AgentRequestStep, CreateAgent,
             WriteAgent, UpdateAgentRead, DeleteAgentRead, HoldAgent, SetDraining, CancelRun,
             ProcessRestart
    <3> QED  BY <1>1, <3>1 DEF UnderWay
  <2> QED  BY <2>1, <2>2, <2>3
<1>2. ASSUME NEW r \in BatchRequests, Waits(r, "restart", b)' PROVE UnderWay(b)
  BY <1>2, RestartsComeAfterFailure DEF UnderWay
<1> QED  BY <1>1, <1>2 DEF UnderWay

LEMMA PausesPauseStep ==
  ASSUME TypeOK, PausesPause, [Next]_vars PROVE PausesPause'
<1> USE DEF tickVars, procVars, reqVars
<1>1. CASE TickStep \/ TickFindsNothing \/ AgentRequestStep \/ SetDraining \/ CancelRun
           \/ AddBatch \/ UNCHANGED vars
  <2>1. breq' = breq
    BY <1>1, OthersKeepRequests
  <2> QED  BY <2>1 DEF PausesPause
<1>2. CASE ProcessRestart
  BY <1>2 DEF ProcessRestart, PausesPause
<1>3. ASSUME NEW r \in BatchRequests, WriteBatch(r) PROVE PausesPause'
  BY <1>3 DEF WriteBatch, PausesPause, TypeOK
<1>4. ASSUME NEW r \in BatchRequests, NEW b \in BatchIds,
             PauseRead(r, b) \/ ResumeRead(r, b) \/ RestartRead(r, b)
      PROVE  PausesPause'
  <2>1. batches[b] \in Batch
    BY DEF TypeOK
  <2>2. WithStatus(batches[b], "paused").status = "paused"
    BY <2>1, StatusEdit DEF BatchStatus
  <2>3. ASSUME NEW op, NEW d, HoldBatch(r, op, b, d), op = "pause" => d.status = "paused"
        PROVE  PausesPause'
    BY <2>3 DEF HoldBatch, PausesPause, TypeOK
  <2> QED  BY <1>4, <2>2, <2>3 DEF PauseRead, ResumeRead, RestartRead
<1> QED
  BY <1>1, <1>2, <1>3, <1>4 DEF Next, BatchRequestStep

\* A pause lasts until a resume request writes the batch, unless a tick or a
\* restart has read the batch before; and none that comes later does.
THEOREM PausesLast ==
  Spec => [][\A b \in BatchIds : batches[b].status = "paused" =>
               /\ UnderWay(b)' => UnderWay(b)
               /\ batches'[b].status # "paused" =>
                    \/ UnderWay(b)
                    \/ \E r \in BatchRequests : Waits(r, "resume", b) /\ breq'[r] = None]_vars
<1>1. Init => PausesPause
  BY DEF Init, PausesPause
<1>2. TypeOK /\ PausesPause /\ [Next]_vars =>
        [\A b \in BatchIds : batches[b].status = "paused" =>
           /\ UnderWay(b)' => UnderWay(b)
           /\ batches'[b].status # "paused" =>
                \/ UnderWay(b)
                \/ \E r \in BatchRequests : Waits(r, "resume", b) /\ breq'[r] = None]_vars
  <2> SUFFICES ASSUME TypeOK, PausesPause, [Next]_vars,
                      NEW b \in BatchIds, batches[b].status = "paused"
               PROVE  /\ UnderWay(b)' => UnderWay(b)
                      /\ batches'[b].status # "paused" =>
                           \/ UnderWay(b)
                           \/ \E r \in BatchRequests :
                                Waits(r, "resume", b) /\ breq'[r] = None
    OBVIOUS
  <2>1. UnderWay(b)' => UnderWay(b)
    BY NothingComesUnderWay
  <2>2. ASSUME batches'[b].status # "paused", ~UnderWay(b)
        PROVE  \E r \in BatchRequests : Waits(r, "resume", b) /\ breq'[r] = None
    <3>1. Next /\ batches'[b] # batches[b]
      BY <2>2 DEF vars
    <3>2. PICK r \in BatchRequests : /\ breq[r] # None /\ breq[r].batch = b /\ breq'[r] = None
                                     /\ batches'[b] = breq[r].doc
      BY <2>2, <3>1, WhoWrites DEF UnderWay
    <3>3. breq[r].op # "pause" /\ breq[r].op # "restart"
      BY <2>2, <3>2 DEF PausesPause, UnderWay, Waits
    <3>4. breq[r].op \in {"pause", "resume", "restart"}
      BY <3>2, SchedulerAssumption DEF TypeOK
    <3> QED  BY <3>2, <3>3, <3>4 DEF Waits
  <2> QED  BY <2>1, <2>2
<1>3. TypeOK /\ PausesPause /\ [Next]_vars => PausesPause'
  BY PausesPauseStep
<1> QED  BY <1>1, <1>2, <1>3, TypeCorrect, PTL DEF Spec
=============================================================================
