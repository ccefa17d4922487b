---------------------------- MODULE FailureProofs ----------------------------
(***************************************************************************)
(* What failures cost.  The store keeps what a tick leaves behind when a   *)
(* call fails, the context is cancelled or the process ends: an agent that *)
(* is busy for ever, an item in progress for ever.  Each such event leaves *)
(* at most one of either, and with none of them nothing is left.           *)
(***************************************************************************)
EXTENDS LifecycleProofs, FiniteSetTheorems

\* A budget of one per failure that a cancelled context has spent before the
\* tick is over only where pc is "idle" or p; n is what has been lost so far.
Charged(n, p) ==
  /\ n <= Failures
  /\ ~ctxDone \/ pc \notin {"idle", p} => n <= faults + restarts

\* A step of Tick whose call fails, or the end of the process.
Loses(p) ==
  /\ pc \notin {"idle", p}
  /\ \/ faults' + restarts' = faults + restarts + 1
     \/ ctxDone' /\ pc' \in {"idle", p}

\* Failures are never forgotten: a process that was cancelled has to restart
\* before it starts another tick.
LEMMA FailuresCount ==
  ASSUME TypeOK, [Next]_vars, NEW p \in {"rollback", "release"}
  PROVE  /\ faults' + restarts' >= faults + restarts
         /\ ctxDone /\ ~ctxDone' => faults' + restarts' = faults + restarts + 1
         /\ ctxDone /\ ctxDone' /\ pc \in {"idle", p} => pc' \in {"idle", p}
<1> USE DEF TypeOK
<1>1. CASE ProcessRestart
  BY <1>1 DEF ProcessRestart, NoTick
<1>4. ASSUME NEW c, CallSucceeds(c) \/ CallFails(c) PROVE faults' >= faults
  BY <1>4 DEF CallSucceeds, CallFails
<1>5. faults' = faults => faults' >= faults
  OBVIOUS
<1>6. ASSUME NEW a \in Nat, NEW b \in Nat, NEW c \in Nat, a <= b PROVE a + c <= b + c
  BY <1>6
<1>7. faults' >= faults /\ restarts' = restarts => faults' + restarts' >= faults + restarts
  <2>1. faults \in Nat /\ restarts \in Nat /\ faults' \in Nat
    BY TypeStep, SchedulerAssumption DEF TypeOK
  <2> QED  BY <1>6, <2>1
<1>2. CASE TickStep
  <2>1. restarts' = restarts /\ ctxDone' = ctxDone
    BY <1>2 DEF TickStep, TickListBatches, TickListAgents, TickNoAgent, ClaimBatch,
       ClaimBatchFails, ClaimAgent, ClaimAgentFails, Rollback, WorkerFetch,
       WorkerFetchFails, WorkerMarks, WorkerSucceeds, WorkerFails, WorkerStops,
       ProcessReturns, CompleteBatch, ReleaseAgent, procVars
  <2>2. faults' >= faults
    <3>1. ASSUME NEW e, NEW c, SetBatchStatus(e, c) PROVE faults' >= faults
      BY <1>4, <3>1 DEF SetBatchStatus
    <3>2. ASSUME NEW a, NEW e, NEW c,
                 UpdateAgentFails(a, e, c) \/ UpdateAgentSucceeds(a, e, c)
          PROVE  faults' >= faults
      BY <1>4, <3>2 DEF UpdateAgentFails, UpdateAgentSucceeds
    <3> QED  BY <1>2, <1>4, <1>5, <3>1, <3>2 DEF TickStep, TickListBatches, TickListAgents,
       TickNoAgent, ClaimBatch, ClaimBatchFails, ClaimAgent, ClaimAgentFails, Rollback,
       WorkerFetch, WorkerFetchFails, WorkerMarks, WorkerSucceeds, WorkerFails, WorkerStops,
       CompleteBatch, ReleaseAgent
  <2>3. ctxDone /\ pc \in {"idle", p} => pc' \in {"idle", p}
    BY <1>2 DEF TickStep, TickListBatches, TickListAgents, TickNoAgent, ClaimBatch,
       ClaimBatchFails, ClaimAgent, ClaimAgentFails, Rollback, WorkerFetch,
       WorkerFetchFails, WorkerMarks, WorkerSucceeds, WorkerFails, WorkerStops,
       CompleteBatch, ReleaseAgent, NoTick
  <2> QED  BY <1>7, <2>1, <2>2, <2>3
<1>3. CASE TickFindsNothing \/ BatchRequestStep \/ AgentRequestStep \/ SetDraining
           \/ CancelRun \/ UNCHANGED vars
  <2>1. restarts' = restarts /\ (ctxDone => ctxDone') /\ pc' = pc
    BY <1>3 DEF TickFindsNothing, BatchRequestStep, AddBatch, WriteBatch, PauseRead,
       ResumeRead, RestartRead, HoldBatch, AgentRequestStep, CreateAgent, WriteAgent,
       UpdateAgentRead, DeleteAgentRead, HoldAgent, SetDraining, CancelRun, vars,
       procVars, tickVars
  <2>2. faults' >= faults
    <3>1. ASSUME NEW r \in AgentRequests, WriteAgent(r) PROVE faults' >= faults
      BY <1>4, <1>5, <3>1 DEF WriteAgent, UpdateAgentFails, UpdateAgentSucceeds
    <3>2. ASSUME NEW r \in BatchRequests, WriteBatch(r) PROVE faults' >= faults
      BY <1>4, <3>2 DEF WriteBatch
    <3> QED  BY <1>3, <1>5, <3>1, <3>2 DEF TickFindsNothing, BatchRequestStep, AddBatch,
       PauseRead, ResumeRead, RestartRead, HoldBatch, AgentRequestStep, CreateAgent,
       UpdateAgentRead, DeleteAgentRead, HoldAgent, SetDraining, CancelRun, vars
  <2> QED  BY <1>7, <2>1, <2>2
<1> QED  BY <1>1, <1>2, <1>3 DEF Next

\* The arithmetic of a step: a and b are the failed calls and restarts before and
\* after it, s and t what is lost, c and d whether the context is cancelled, u and
\* v whether the tick is over.
LEMMA BudgetArithmetic ==
  ASSUME NEW a \in Nat, NEW b \in Nat, NEW s \in Nat, NEW t \in Nat,
         NEW c \in BOOLEAN, NEW d \in BOOLEAN, NEW u \in BOOLEAN, NEW v \in BOOLEAN,
         s <= a + (IF c THEN 1 ELSE 0), ~c \/ ~u => s <= a,
         b >= a, c /\ ~d => b = a + 1, c /\ d /\ u => v,
         t <= s \/ (t <= s + 1 /\ ~u /\ (b = a + 1 \/ (d /\ v)))
  PROVE  t <= b + (IF d THEN 1 ELSE 0) /\ (~d \/ ~v => t <= b)
<1>1. CASE c
  <2>1. s <= a + 1
    BY <1>1
  <2>2. CASE t <= s
    BY <1>1, <2>1, <2>2
  <2>3. CASE t <= s + 1 /\ ~u /\ (b = a + 1 \/ (d /\ v))
    BY <1>1, <2>3
  <2> QED  BY <2>2, <2>3
<1>2. CASE ~c
  <2>1. s <= a
    BY <1>2
  <2> QED  BY <2>1
<1> QED  BY <1>1, <1>2

\* A set of which a step adds at most one element where Tick loses one stays
\* within the budget.
LEMMA BudgetKept ==
  ASSUME TypeOK, [Next]_vars, NEW p \in {"rollback", "release"},
         NEW S, IsFiniteSet(S), Charged(Cardinality(S), p),
         NEW T, NEW x, T \subseteq S \/ (T \subseteq S \cup {x} /\ Loses(p))
  PROVE  /\ Cardinality(T) <= faults' + restarts' + (IF ctxDone' THEN 1 ELSE 0)
         /\ ~ctxDone' \/ pc' \notin {"idle", p} => Cardinality(T) <= faults' + restarts'
<1> DEFINE a == faults + restarts
           b == faults' + restarts'
           s == Cardinality(S)
           t == Cardinality(T)
           u == pc \in {"idle", p}
           v == pc' \in {"idle", p}
<1>1. /\ a \in Nat /\ ctxDone \in BOOLEAN /\ u \in BOOLEAN
      /\ b \in Nat /\ ctxDone' \in BOOLEAN /\ v \in BOOLEAN
  BY TypeStep, SchedulerAssumption DEF TypeOK
<1>2. b >= a /\ (ctxDone /\ ~ctxDone' => b = a + 1) /\ (ctxDone /\ ctxDone' /\ u => v)
  BY FailuresCount
<1>3. s \in Nat /\ s <= a + (IF ctxDone THEN 1 ELSE 0) /\ (~ctxDone \/ ~u => s <= a)
  BY FS_CardinalityType DEF Charged, Failures
<1>4. t \in Nat /\ (t <= s \/ (t <= s + 1 /\ Loses(p)))
  <2>1. CASE T \subseteq S
    BY <2>1, FS_Subset, FS_CardinalityType
  <2>2. CASE T \subseteq S \cup {x} /\ Loses(p)
    <3>1. IsFiniteSet(S \cup {x}) /\ Cardinality(S \cup {x}) <= s + 1
      BY <1>3, FS_AddElement
    <3>2. Cardinality(T) <= Cardinality(S \cup {x}) /\ t \in Nat
      BY <2>2, <3>1, FS_Subset, FS_CardinalityType
    <3>3. Cardinality(S \cup {x}) \in Nat
      BY <3>1, FS_CardinalityType
    <3> QED  BY <1>3, <2>2, <3>1, <3>2, <3>3
  <2> QED  BY <2>1, <2>2
<1>5. t <= s \/ (t <= s + 1 /\ ~u /\ (b = a + 1 \/ (ctxDone' /\ v)))
  BY <1>4 DEF Loses
<1> HIDE DEF a, b, s, t, u, v
<1>6. t <= b + (IF ctxDone' THEN 1 ELSE 0) /\ (~ctxDone' \/ ~v => t <= b)
  BY <1>1, <1>2, <1>3, <1>4, <1>5, BudgetArithmetic
<1> QED  BY <1>6 DEF b, t, v
-----------------------------------------------------------------------------
(* Agents *)

\* The inductive invariant: until a cancelled tick has given up its agent, what
\* is lost was paid for by failed calls and restarts alone.
AInv == TypeOK /\ Charged(Cardinality(LostAgents), "rollback")

LEMMA LostAgentsFinite == IsFiniteSet(LostAgents)
<1>1. IsFiniteSet(AgentIds)
  BY FS_Interval, SchedulerAssumption DEF AgentIds
<1> QED  BY <1>1, FS_Subset DEF LostAgents

\* Every step loses no agent, or the one Tick uses and something failed.
LEMMA AgentsLost ==
  TypeOK /\ [Next]_vars =>
    \/ LostAgents' \subseteq LostAgents
    \/ LostAgents' \subseteq LostAgents \cup {runner} /\ Loses("rollback")
<1> DEFINE Using == {"fetch", "mark", "run", "complete", "release"}
           Goal == \/ LostAgents' \subseteq LostAgents
                   \/ LostAgents' \subseteq LostAgents \cup {runner} /\ Loses("rollback")
<1> SUFFICES ASSUME TypeOK, [Next]_vars PROVE Goal
  OBVIOUS
<1> USE DEF TypeOK
<1>1. CASE UNCHANGED <<agents, runner>> /\ (pc' = pc \/ pc' \in Using)
  BY <1>1 DEF LostAgents
<1>2. CASE UNCHANGED agents /\ pc \notin Using
  BY <1>2 DEF LostAgents
<1>3. ASSUME NEW a \in AgentIds, NEW s, UpdateAgent(a, s)
      PROVE  \A e \in AgentIds : agents'[e] = IF e = a THEN s ELSE agents[e]
  BY <1>3 DEF UpdateAgent
<1>4. ASSUME NEW a \in AgentIds, NEW s \in {"idle", "deleted"}, UpdateAgent(a, s),
             (pc' = pc /\ runner' = runner) \/ pc \notin Using \/ runner = a
      PROVE  LostAgents' \subseteq LostAgents
  BY <1>3, <1>4 DEF LostAgents
<1>5. CASE ClaimAgent
  <2>1. /\ pc = "claim_agent" /\ pc' = "fetch" /\ runner' = runner /\ runner \in AgentIds
        /\ UpdateAgent(runner, "busy")
    BY <1>5 DEF ClaimAgent, UpdateAgentSucceeds
  <2> QED  BY <1>3, <2>1 DEF LostAgents
<1>6. CASE ClaimAgentFails
  <2>1. pc = "claim_agent" /\ pc' = "rollback" /\ runner \in AgentIds /\ ctxDone' = ctxDone
        /\ restarts' = restarts
    BY <1>6 DEF ClaimAgentFails, procVars
  <2>2. CASE UpdateAgent(runner, "busy") /\ CallFails(ctxDone)
    <3>1. LostAgents' \subseteq LostAgents \cup {runner}
      BY <1>3, <2>1, <2>2 DEF LostAgents
    <3> QED  BY <2>1, <2>2, <3>1 DEF CallFails, Loses
  <2>3. UNCHANGED agents \/ (UpdateAgent(runner, "busy") /\ CallFails(ctxDone))
    BY <1>6 DEF ClaimAgentFails, UpdateAgentFails
  <2> QED  BY <1>2, <2>1, <2>2, <2>3
<1>7. CASE ReleaseAgent
  <2>1. pc = "release" /\ pc' = "idle" /\ runner \in AgentIds /\ ctxDone' = ctxDone
        /\ restarts' = restarts
    BY <1>7 DEF ReleaseAgent, NoTick, procVars
  <2>2. CASE agents[runner] = "deleted" /\ UNCHANGED agents
    BY <2>1, <2>2 DEF LostAgents
  <2>3. CASE UNCHANGED agents /\ CallFails(ctxDone /\ ~detached)
    <3>1. LostAgents' \subseteq LostAgents \cup {runner}
      BY <2>1, <2>3 DEF LostAgents
    <3> QED  BY <2>1, <2>3, <3>1 DEF CallFails, Loses
  <2>4. \/ UpdateAgent(runner, "idle")
        \/ agents[runner] = "deleted" /\ UNCHANGED agents
        \/ UNCHANGED agents /\ CallFails(ctxDone /\ ~detached)
    BY <1>7 DEF ReleaseAgent, UpdateAgentSucceeds, UpdateAgentFails
  <2> QED  BY <1>4, <2>1, <2>2, <2>3, <2>4
<1>8. ASSUME NEW r \in AgentRequests, WriteAgent(r) PROVE Goal
  <2>1. /\ areq[r].agent \in AgentIds /\ areq[r].status \in {"idle", "deleted"}
        /\ pc' = pc /\ runner' = runner
    BY <1>8 DEF WriteAgent, tickVars
  <2>2. UNCHANGED agents \/ UpdateAgent(areq[r].agent, areq[r].status)
    BY <1>8 DEF WriteAgent, UpdateAgentSucceeds, UpdateAgentFails
  <2> QED  BY <1>1, <1>4, <2>1, <2>2
<1>9. CASE CreateAgent
  BY <1>4, <1>9 DEF CreateAgent, tickVars
<1>10. CASE ProcessRestart
  <2>1. UNCHANGED agents /\ restarts' = restarts + 1 /\ faults' = faults
    BY <1>10 DEF ProcessRestart
  <2>2. LostAgents' \subseteq LostAgents \cup {runner}
    BY <2>1 DEF LostAgents
  <2> QED  BY <1>2, <2>1, <2>2 DEF Loses
<1>11. CASE TickStep
  BY <1>1, <1>2, <1>5, <1>6, <1>7, <1>11
     DEF TickStep, TickListBatches, TickListAgents, TickNoAgent, ClaimBatch,
         ClaimBatchFails, Rollback, WorkerFetch, WorkerFetchFails, WorkerMarks,
         WorkerSucceeds, WorkerFails, WorkerStops, ProcessReturns, CompleteBatch
<1>12. CASE BatchRequestStep \/ TickFindsNothing \/ SetDraining \/ CancelRun \/ UNCHANGED vars
  BY <1>1, <1>12
     DEF BatchRequestStep, AddBatch, WriteBatch, PauseRead, ResumeRead, RestartRead,
         HoldBatch, TickFindsNothing, SetDraining, CancelRun, vars, tickVars
<1>13. ASSUME NEW r \in AgentRequests, NEW a \in AgentIds,
              UpdateAgentRead(r, a) \/ DeleteAgentRead(r, a)
       PROVE  Goal
  BY <1>1, <1>13 DEF UpdateAgentRead, DeleteAgentRead, HoldAgent, tickVars
<1> QED  BY <1>8, <1>9, <1>10, <1>11, <1>12, <1>13 DEF Next, AgentRequestStep

LEMMA AInvHolds == Spec => []AInv
<1>1. Init => AInv
  <2> SUFFICES ASSUME Init PROVE AInv
    OBVIOUS
  <2>1. LostAgents = {}
    BY DEF Init, LostAgents
  <2> QED  BY <2>1, TypeInit, FS_EmptySet DEF Init, AInv, Charged, Failures
<1>2. AInv /\ [Next]_vars => AInv'
  <2> SUFFICES ASSUME AInv, [Next]_vars PROVE AInv'
    OBVIOUS
  <2>1. TypeOK /\ TypeOK'
    BY TypeStep DEF AInv
  <2>2. /\ Cardinality(LostAgents') <= faults' + restarts' + (IF ctxDone' THEN 1 ELSE 0)
        /\ ~ctxDone' \/ pc' \notin {"idle", "rollback"} =>
             Cardinality(LostAgents') <= faults' + restarts'
    BY <2>1, LostAgentsFinite, AgentsLost, BudgetKept DEF AInv
  <2> QED  BY <2>1, <2>2 DEF AInv, Charged, Failures
<1> QED  BY <1>1, <1>2, PTL DEF Spec

\* Each failed call, restart or cancellation leaves at most one agent busy for
\* ever, for any number of agents and of requests that edit, delete, pause,
\* resume and restart meanwhile.
THEOREM FailuresLoseOneAgent == Spec => []OneAgentPerFailure
<1>1. AInv => OneAgentPerFailure
  BY DEF AInv, Charged, OneAgentPerFailure
<1> QED  BY <1>1, AInvHolds, PTL

\* While nothing has failed, a busy agent is the one Tick uses.
THEOREM NoAgentLeftBusy == Spec => [](Failures = 0 => LostAgents = {})
<1>1. OneAgentPerFailure => (Failures = 0 => LostAgents = {})
  <2>1. Cardinality(LostAgents) \in Nat
    BY LostAgentsFinite, FS_CardinalityType
  <2> QED  BY <2>1, LostAgentsFinite, FS_EmptySet DEF OneAgentPerFailure
<1> QED  BY <1>1, FailuresLoseOneAgent, PTL
-----------------------------------------------------------------------------
(* Items *)

\* Only item i of d may be in progress.
OnlyRuns(d, i) == \A j \in Items : d.items[j].status = "in_progress" => j = i

\* Of the batch that Tick has picked, neither the store nor the worker's copy
\* has another item in progress than Tick's, and the copy of a request has none.
PInv ==
  /\ IInv
  /\ pc \notin {"idle", "release"} => OnlyRuns(batches[claim.batch], claim.item)
  /\ pc \in {"mark", "run"} => OnlyRuns(copy, claim.item)
  /\ \A r \in BatchRequests : breq[r] # None => ~HasItem(breq[r].doc, "in_progress")

\* The inductive invariant: until a cancelled tick is over or has written its
\* completion, what is stuck was paid for by failed calls and restarts alone.
BInv == PInv /\ Charged(Cardinality(StuckItems), "release")

\* The items of Tick's copy that are in progress, before and after its writes.
LEMMA ClaimRuns ==
  ASSUME IInv, pc \notin {"idle", "agents", "release"}
  PROVE  /\ pc = "claim" => OnlyRuns(Claimed(claim.doc, claim.item), claim.item)
         /\ pc = "rollback" => ~HasItem(Unclaimed(claim.doc, claim.item), "in_progress")
         /\ pc = "complete" =>
              ~HasItem(Settled(claim.doc, claim.item, workerErr), "in_progress")
<1> USE DEF IInv
<1> DEFINE d == claim.doc
           i == claim.item
<1>1. i \in Items /\ d \in Batch /\ workerErr \in BOOLEAN
  BY ClaimTypes DEF TypeOK
<1>2. ASSUME pc = "claim" PROVE OnlyRuns(Claimed(d, i), i)
  <2>1. ~HasItem(d, "in_progress")
    BY <1>2 DEF ClaimSound, Eligible
  <2> QED  BY <1>1, <2>1, ClaimedMoves DEF Moved, OnlyRuns, HasItem
<1>3. ASSUME pc \in Executing
      PROVE  \A j \in Items : j # i => d.items[j].status # "in_progress"
  BY <1>1, <1>3, RunningShape DEF ClaimSound, Items
<1>4. ASSUME pc = "rollback" PROVE ~HasItem(Unclaimed(d, i), "in_progress")
  BY <1>1, <1>3, <1>4, UnclaimedMoves DEF Moved, HasItem, Executing
<1>5. ASSUME pc = "complete" PROVE ~HasItem(Settled(d, i, workerErr), "in_progress")
  <2>1. \A j \in Items : j # i => d.items[j].status # "in_progress"
    BY <1>3, <1>5 DEF Executing
  <2>2. CASE workerErr
    BY <1>1, <2>1, <2>2, SettledFailureMoves DEF Settled, Moved, HasItem
  <2>3. CASE ~workerErr
    BY <1>1, <2>1, <2>3, SettledSuccessMoves DEF Settled, Moved, HasItem
  <2> QED  BY <1>1, <2>2, <2>3
<1> QED  BY <1>2, <1>4, <1>5

\* What Tick and the worker write.
LEMMA WritesRun ==
  ASSUME PInv, NEW d,
         \/ pc = "claim" /\ d = Claimed(claim.doc, claim.item)
         \/ pc = "rollback" /\ d = Unclaimed(claim.doc, claim.item)
         \/ pc = "complete" /\ d = Settled(claim.doc, claim.item, workerErr)
         \/ /\ pc \in {"mark", "run"}
            /\ \E s \in {"pending", "in_progress", "failed"} : d = WithStatus(copy, s)
  PROVE  OnlyRuns(d, claim.item)
<1>1. IInv
  BY DEF PInv
<1>2. CASE pc \in {"claim", "rollback", "complete"}
  BY <1>1, <1>2, ClaimRuns DEF OnlyRuns, HasItem
<1>3. CASE pc \in {"mark", "run"}
  <2>1. PICK s \in {"pending", "in_progress", "failed"} : d = WithStatus(copy, s)
    BY <1>3
  <2>2. copy \in Batch /\ OnlyRuns(copy, claim.item)
    BY <1>1, <1>3 DEF PInv, IInv, TypeOK
  <2> QED  BY <2>1, <2>2, StatusEdit DEF OnlyRuns, BatchStatus
<1> QED  BY <1>2, <1>3

\* The worker starts from the claimed batch as the store has it.
LEMMA CopyRunsStep ==
  PInv /\ [Next]_vars => (pc \in {"mark", "run"} => OnlyRuns(copy, claim.item))'
<1> SUFFICES ASSUME PInv, [Next]_vars, pc' \in {"mark", "run"}
             PROVE  OnlyRuns(copy', claim'.item)
  BY DEF OnlyRuns
<1> USE DEF PInv, IInv
<1>1. CASE WorkerFetch
  <2>1. /\ pc = "fetch" /\ claim' = claim /\ copy' = batches[claim.batch]
    BY <1>1 DEF WorkerFetch, TypeOK
  <2> QED  BY <2>1 DEF OnlyRuns
<1>2. CASE WorkerMarks
  <2>1. /\ claim' = claim /\ copy' = WithStatus(copy, "in_progress")
        /\ pc = "mark" /\ copy \in Batch
    BY <1>2 DEF WorkerMarks, TypeOK
  <2> QED  BY <2>1, StatusEdit DEF OnlyRuns, BatchStatus
<1>3. CASE UNCHANGED <<pc, claim, copy>>
  BY <1>3
<1>4. WorkerFetch \/ WorkerMarks \/ UNCHANGED <<pc, claim, copy>>
  BY DEF Next, TickStep, TickListBatches, TickFindsNothing, TickListAgents, TickNoAgent,
         ClaimBatch, ClaimBatchFails, ClaimAgent, ClaimAgentFails, Rollback,
         WorkerFetchFails, WorkerSucceeds, WorkerFails, WorkerStops, ProcessReturns, NoTick,
         CompleteBatch, ReleaseAgent, BatchRequestStep, AddBatch, WriteBatch, PauseRead,
         ResumeRead, RestartRead, HoldBatch, AgentRequestStep, CreateAgent, WriteAgent,
         UpdateAgentRead, DeleteAgentRead, HoldAgent, SetDraining, CancelRun,
         ProcessRestart, vars, tickVars
<1> QED  BY <1>1, <1>2, <1>3, <1>4

\* The copy of a request: only a batch with a failed item is restarted, and
\* then none of its items is in progress.
LEMMA RequestsRestStep ==
  PInv /\ BatchOps \subseteq {"restart"} /\ [Next]_vars =>
    (\A r \in BatchRequests : breq[r] # None => ~HasItem(breq[r].doc, "in_progress"))'
<1> SUFFICES ASSUME PInv, BatchOps \subseteq {"restart"}, [Next]_vars
             PROVE  \A q \in BatchRequests :
                      breq'[q] # None => ~HasItem(breq'[q].doc, "in_progress")
  BY DEF HasItem
<1> USE DEF PInv, IInv
<1>1. ASSUME NEW r \in BatchRequests, NEW b \in BatchIds,
             PauseRead(r, b) \/ ResumeRead(r, b) \/ RestartRead(r, b),
             NEW q \in BatchRequests, breq'[q] # None
      PROVE  ~HasItem(breq'[q].doc, "in_progress")
  <2>1. PICK i \in Items :
          /\ FirstItem(batches[b], i, "failed")
          /\ HoldBatch(r, "restart", b, Restarted(batches[b], i))
    BY <1>1 DEF PauseRead, ResumeRead, RestartRead, HoldBatch
  <2>2. /\ batches[b] \in Batch
        /\ \A j \in Items : j # i => batches[b].items[j].status # "in_progress"
    BY <2>1 DEF TypeOK, StoreSound, Sound, InOrder, FirstItem, Items
  <2>3. \A j \in Items :
          Restarted(batches[b], i).items[j] =
            IF j = i THEN [status |-> "pending", attempts |-> 0] ELSE batches[b].items[j]
    BY <2>2 DEF Restarted, WithStatus, Batch
  <2>4. ~HasItem(Restarted(batches[b], i), "in_progress")
    BY <2>2, <2>3 DEF HasItem
  <2>5. breq'[q].doc = Restarted(batches[b], i) \/ breq'[q] = breq[q]
    BY <2>1 DEF HoldBatch, TypeOK
  <2> QED  BY <1>1, <2>4, <2>5
<1>2. CASE \A q \in BatchRequests : breq'[q] = breq[q] \/ breq'[q] = None
  BY <1>2
<1>3. ASSUME NEW r \in BatchRequests, WriteBatch(r) \/ ProcessRestart
      PROVE  \A q \in BatchRequests : breq'[q] = breq[q] \/ breq'[q] = None
  BY <1>3 DEF WriteBatch, ProcessRestart, TypeOK
<1>4. CASE TickStep \/ TickFindsNothing \/ AddBatch \/ AgentRequestStep \/ SetDraining
           \/ CancelRun \/ UNCHANGED vars
  BY <1>2, <1>4 DEF TickStep, TickListBatches, TickFindsNothing, TickListAgents, TickNoAgent,
     ClaimBatch, ClaimBatchFails, ClaimAgent, ClaimAgentFails, Rollback, WorkerFetch,
     WorkerFetchFails, WorkerMarks, WorkerSucceeds, WorkerFails, WorkerStops,
     ProcessReturns, CompleteBatch, ReleaseAgent, AddBatch, AgentRequestStep, CreateAgent,
     WriteAgent, UpdateAgentRead, DeleteAgentRead, HoldAgent, SetDraining, CancelRun,
     vars, reqVars
<1> QED  BY <1>1, <1>2, <1>3, <1>4 DEF Next, BatchRequestStep

\* The batch Tick has picked.
LEMMA ClaimRunsStep ==
  PInv /\ [Next]_vars =>
    (pc \notin {"idle", "release"} => OnlyRuns(batches[claim.batch], claim.item))'
<1> SUFFICES ASSUME PInv, [Next]_vars, pc' \notin {"idle", "release"}
             PROVE  OnlyRuns(batches'[claim'.batch], claim'.item)
  BY DEF OnlyRuns
<1> USE DEF PInv, IInv
<1>1. CASE TickListBatches
  <2>1. PICK b \in BatchIds, i \in Items :
          NextBatch(b) /\ claim' = [batch |-> b, item |-> i, doc |-> batches[b]]
    BY <1>1 DEF TickListBatches
  <2>2. UNCHANGED batches /\ ~HasItem(batches[b], "in_progress")
    BY <1>1, <2>1 DEF TickListBatches, NextBatch, Eligible
  <2> QED  BY <2>1, <2>2 DEF OnlyRuns, HasItem
<1>2. CASE ~TickListBatches
  <2>1. /\ pc \notin {"idle", "release"}
        /\ claim'.batch = claim.batch /\ claim'.item = claim.item
    <3>1. CASE ClaimBatch
      BY <3>1 DEF ClaimBatch, TypeOK
    <3>2. CASE ~ClaimBatch
      BY <1>2, <3>2 DEF Next, TickStep, TickFindsNothing, TickListAgents, TickNoAgent,
         ClaimBatchFails, ClaimAgent, ClaimAgentFails, Rollback, WorkerFetch,
         WorkerFetchFails, WorkerMarks, WorkerSucceeds, WorkerFails, WorkerStops,
         ProcessReturns, NoTick, CompleteBatch, ReleaseAgent, BatchRequestStep, AddBatch,
         WriteBatch, PauseRead, ResumeRead, RestartRead, HoldBatch, AgentRequestStep,
         CreateAgent, WriteAgent, UpdateAgentRead, DeleteAgentRead, HoldAgent, SetDraining,
         CancelRun, ProcessRestart, vars, tickVars
    <3> QED  BY <3>1, <3>2
  <2>2. PICK c \in BatchIds, i \in Items : c = claim.batch /\ i = claim.item
    BY <2>1, ClaimTypes
  <2> SUFFICES OnlyRuns(batches'[c], i)
    BY <2>1, <2>2
  <2>3. OnlyRuns(batches[c], i)
    BY <2>1, <2>2
  <2>4. ASSUME NEW b \in BatchIds, NEW d, UpdateBatch(b, d), OnlyRuns(d, i)
        PROVE  OnlyRuns(batches'[c], i)
    <3>1. batches'[c] = IF c = b THEN d ELSE batches[c]
      BY <2>4, Written
    <3> QED  BY <2>3, <2>4, <3>1 DEF OnlyRuns
  <2>5. CASE TickWrites
    BY <2>2, <2>4, <2>5, WritesRun DEF TickWrites
  <2>6. CASE WorkerWrites
    BY <2>2, <2>4, <2>6, WritesRun DEF WorkerWrites
  <2>7. CASE RequestWrites
    <3>1. PICK r \in BatchRequests : breq[r] # None /\ UpdateBatch(breq[r].batch, breq[r].doc)
      BY <2>7 DEF RequestWrites
    <3>2. breq[r].batch \in BatchIds /\ OnlyRuns(breq[r].doc, i)
      BY <3>1 DEF TypeOK, OnlyRuns, HasItem
    <3> QED  BY <2>4, <3>1, <3>2 DEF OnlyRuns
  <2>8. CASE AddBatch
    <3>1. OnlyRuns([status |-> "pending", items |-> NewItems], i)
      BY DEF NewItems, OnlyRuns
    <3> QED  BY <2>4, <2>8, <3>1 DEF AddBatch, OnlyRuns
  <2>9. CASE UNCHANGED batches
    <3>1. batches'[c] = batches[c]
      BY <2>9
    <3> QED  BY <2>3, <3>1 DEF OnlyRuns
  <2> QED  BY <2>5, <2>6, <2>7, <2>8, <2>9, Writers
<1> QED  BY <1>1, <1>2

LEMMA PInvStep == PInv /\ BatchOps \subseteq {"restart"} /\ [Next]_vars => PInv'
<1>1. PInv /\ [Next]_vars => IInv'
  BY SoundStep, TypeStep DEF PInv, IInv
<1> QED  BY <1>1, ClaimRunsStep, CopyRunsStep, RequestsRestStep DEF PInv

LEMMA StuckItemsFinite == IsFiniteSet(StuckItems)
<1>1. IsFiniteSet(BatchIds) /\ IsFiniteSet(Items)
  BY FS_Interval, SchedulerAssumption DEF BatchIds, Items
<1>2. IsFiniteSet(BatchIds \X Items)
  BY <1>1, FS_Product
<1> QED  BY <1>2, FS_Subset DEF StuckItems

\* Every step leaves no item stuck, or the one Tick runs and something failed.
LEMMA ItemsStuck ==
  PInv /\ [Next]_vars =>
    \/ StuckItems' \subseteq StuckItems
    \/ StuckItems' \subseteq StuckItems \cup {<<claim.batch, claim.item>>} /\ Loses("release")
<1> DEFINE x == <<claim.batch, claim.item>>
           Goal == \/ StuckItems' \subseteq StuckItems
                   \/ StuckItems' \subseteq StuckItems \cup {x} /\ Loses("release")
<1> SUFFICES ASSUME PInv, [Next]_vars PROVE Goal
  OBVIOUS
<1>1. IInv /\ TypeOK /\ faults \in Nat /\ restarts \in Nat
  BY SchedulerAssumption DEF PInv, IInv, TypeOK
<1>2. ASSUME NEW b \in BatchIds, NEW d, UpdateBatch(b, d), ~HasItem(d, "in_progress"),
             UNCHANGED <<pc, claim>> \/ pc \notin Executing \/ claim.batch = b
      PROVE  StuckItems' \subseteq StuckItems
  <2>1. \A c \in BatchIds : batches'[c] = IF c = b THEN d ELSE batches[c]
    BY <1>1, <1>2, Written
  <2> QED  BY <1>2, <2>1 DEF HasItem, StuckItems
<1>3. CASE UNCHANGED <<batches, pc, claim>>
  BY <1>3 DEF StuckItems
<1>4. CASE UNCHANGED batches /\ pc \notin Executing
  BY <1>4 DEF StuckItems
<1>5. CASE UNCHANGED <<batches, claim>> /\ pc' \in Executing
  BY <1>5 DEF StuckItems
<1>6. ASSUME pc # "idle", NEW d, UpdateBatch(claim.batch, d), OnlyRuns(d, claim.item),
             pc' \in Executing, claim'.batch = claim.batch, claim'.item = claim.item
      PROVE  StuckItems' \subseteq StuckItems
  <2>1. claim.batch \in BatchIds
    BY <1>1, <1>6, ClaimTypes
  <2>2. \A c \in BatchIds : batches'[c] = IF c = claim.batch THEN d ELSE batches[c]
    BY <1>1, <1>6, <2>1, Written
  <2> QED  BY <1>6, <2>1, <2>2 DEF OnlyRuns, StuckItems
<1>7. ASSUME pc # "idle", NEW d, BatchMayBeWritten(claim.batch, d), OnlyRuns(d, claim.item)
      PROVE  StuckItems' \subseteq StuckItems \cup {x}
  <2>1. claim.batch \in BatchIds /\ claim.item \in Items
    BY <1>1, <1>7, ClaimTypes
  <2>2. CASE UNCHANGED batches
    BY <2>2 DEF StuckItems
  <2>3. CASE UpdateBatch(claim.batch, d)
    <3>1. \A c \in BatchIds : batches'[c] = IF c = claim.batch THEN d ELSE batches[c]
      BY <1>1, <2>1, <2>3, Written
    <3> QED  BY <1>7, <2>1, <3>1 DEF OnlyRuns, StuckItems
  <2> QED  BY <1>7, <2>2, <2>3 DEF BatchMayBeWritten
<1>8. ASSUME NEW c, CallFails(c), c => ctxDone, UNCHANGED procVars,
             pc \notin {"idle", "release"}, pc' \in {"idle", "release"}
      PROVE  Loses("release")
  BY <1>1, <1>8 DEF CallFails, Loses, procVars
<1>9. CASE ClaimBatch
  <2>1. /\ pc = "claim" /\ pc' = "claim_agent"
        /\ claim'.batch = claim.batch /\ claim'.item = claim.item
        /\ UpdateBatch(claim.batch, Claimed(claim.doc, claim.item))
    BY <1>1, <1>9 DEF ClaimBatch, TypeOK
  <2> QED  BY <1>6, <2>1, WritesRun DEF Executing
<1>10. CASE ClaimBatchFails
  <2> DEFINE d == Claimed(claim.doc, claim.item)
  <2>1. pc = "claim" /\ pc' = "idle" /\ CallFails(ctxDone) /\ BatchMayBeWritten(claim.batch, d)
        /\ UNCHANGED procVars
    BY <1>10 DEF ClaimBatchFails, NoTick
  <2>2. OnlyRuns(d, claim.item)
    BY <2>1, WritesRun
  <2> HIDE DEF d
  <2> QED  BY <1>7, <1>8, <2>1, <2>2
<1>11. CASE Rollback
  <2> DEFINE d == Unclaimed(claim.doc, claim.item)
  <2>1. pc = "rollback" /\ pc' = "idle" /\ UNCHANGED procVars
    BY <1>11 DEF Rollback, NoTick
  <2>2. /\ claim.batch \in BatchIds /\ ~HasItem(d, "in_progress")
        /\ OnlyRuns(d, claim.item)
    BY <1>1, <2>1, ClaimTypes, ClaimRuns, WritesRun
  <2>3. \/ UpdateBatch(claim.batch, d)
        \/ CallFails(ctxDone) /\ BatchMayBeWritten(claim.batch, d)
    BY <1>11 DEF Rollback
  <2> HIDE DEF d
  <2> QED  BY <1>2, <1>7, <1>8, <2>1, <2>2, <2>3
<1>12. CASE CompleteBatch
  <2> DEFINE d == Settled(claim.doc, claim.item, workerErr)
  <2>1. pc = "complete" /\ pc' = "release" /\ UNCHANGED procVars
    BY <1>12 DEF CompleteBatch
  <2>2. /\ claim.batch \in BatchIds /\ ~HasItem(d, "in_progress")
        /\ OnlyRuns(d, claim.item)
    BY <1>1, <2>1, ClaimTypes, ClaimRuns, WritesRun
  <2>3. \/ UpdateBatch(claim.batch, d)
        \/ CallFails(ctxDone /\ ~detached) /\ BatchMayBeWritten(claim.batch, d)
    BY <1>12 DEF CompleteBatch
  <2> HIDE DEF d
  <2> QED  BY <1>2, <1>7, <1>8, <2>1, <2>2, <2>3
<1>13. CASE WorkerMarks \/ WorkerSucceeds \/ WorkerFails \/ WorkerStops
  <2>1. pc \in {"mark", "run"} /\ pc' \in Executing /\ claim' = claim
    BY <1>13 DEF WorkerMarks, WorkerSucceeds, WorkerFails, WorkerStops, ProcessReturns,
                 Executing
  <2>2. UNCHANGED batches
        \/ \E s \in {"pending", "in_progress", "failed"} :
             UpdateBatch(claim.batch, WithStatus(copy, s))
    BY <1>13 DEF WorkerMarks, WorkerSucceeds, WorkerFails, WorkerStops, SetBatchStatus,
                 BatchMayBeWritten
  <2>3. ASSUME NEW s \in {"pending", "in_progress", "failed"},
               UpdateBatch(claim.batch, WithStatus(copy, s))
        PROVE  Goal
    <3>1. OnlyRuns(WithStatus(copy, s), claim.item)
      BY <2>1, WritesRun
    <3> QED  BY <1>6, <2>1, <2>3, <3>1
  <2> QED  BY <1>5, <2>1, <2>2, <2>3
<1>14. CASE TickStep
  BY <1>4, <1>5, <1>9, <1>10, <1>11, <1>12, <1>13, <1>14
     DEF TickStep, TickListBatches, TickListAgents, TickNoAgent, ClaimAgent,
         ClaimAgentFails, WorkerFetch, WorkerFetchFails, ProcessReturns, ReleaseAgent,
         Executing
<1>15. CASE AddBatch
  <2>1. PICK b \in BatchIds : UpdateBatch(b, [status |-> "pending", items |-> NewItems])
    BY <1>15 DEF AddBatch
  <2>2. ~HasItem([status |-> "pending", items |-> NewItems], "in_progress")
    BY DEF HasItem, NewItems
  <2> QED  BY <1>2, <1>15, <2>1, <2>2 DEF AddBatch, tickVars
<1>16. ASSUME NEW r \in BatchRequests, WriteBatch(r) PROVE Goal
  <2>1. /\ UNCHANGED batches \/ UpdateBatch(breq[r].batch, breq[r].doc)
        /\ UNCHANGED <<pc, claim>> /\ breq[r] # None /\ breq[r].batch \in BatchIds
    BY <1>1, <1>16 DEF WriteBatch, BatchMayBeWritten, TypeOK, tickVars
  <2>2. ~HasItem(breq[r].doc, "in_progress")
    BY <2>1 DEF PInv
  <2> QED  BY <1>2, <1>3, <2>1, <2>2
<1>17. CASE ProcessRestart
  <2>1. UNCHANGED batches /\ restarts' = restarts + 1 /\ faults' = faults
    BY <1>17 DEF ProcessRestart
  <2>2. StuckItems' \subseteq StuckItems \cup {x}
    BY <2>1 DEF StuckItems
  <2>3. pc \in Executing => Loses("release")
    BY <1>1, <2>1 DEF Loses, Executing
  <2> QED  BY <1>4, <2>1, <2>2, <2>3
<1>18. ASSUME NEW r \in BatchRequests, NEW b \in BatchIds,
              PauseRead(r, b) \/ ResumeRead(r, b) \/ RestartRead(r, b)
       PROVE  Goal
  BY <1>3, <1>18 DEF PauseRead, ResumeRead, RestartRead, HoldBatch, tickVars
<1>19. CASE AgentRequestStep \/ TickFindsNothing \/ SetDraining \/ CancelRun \/ UNCHANGED vars
  BY <1>3, <1>19
     DEF AgentRequestStep, CreateAgent, WriteAgent, UpdateAgentRead, DeleteAgentRead,
         HoldAgent, TickFindsNothing, SetDraining, CancelRun, vars, tickVars
<1> QED  BY <1>14, <1>15, <1>16, <1>17, <1>18, <1>19 DEF Next, BatchRequestStep

LEMMA BInvHolds == BatchOps \subseteq {"restart"} /\ Spec => []BInv
<1>1. Init => BInv
  <2> SUFFICES ASSUME Init PROVE BInv
    OBVIOUS
  <2>1. StuckItems = {}
    BY DEF Init, StuckItems, NewItems
  <2>2. PInv
    BY SoundInit DEF Init, PInv
  <2> QED  BY <2>1, <2>2, FS_EmptySet DEF Init, BInv, Charged, Failures
<1>2. BInv /\ BatchOps \subseteq {"restart"} /\ [Next]_vars => BInv'
  <2> SUFFICES ASSUME BInv, BatchOps \subseteq {"restart"}, [Next]_vars PROVE BInv'
    OBVIOUS
  <2>1. PInv /\ PInv' /\ TypeOK
    BY PInvStep DEF BInv, PInv, IInv
  <2>2. /\ Cardinality(StuckItems') <= faults' + restarts' + (IF ctxDone' THEN 1 ELSE 0)
        /\ ~ctxDone' \/ pc' \notin {"idle", "release"} =>
             Cardinality(StuckItems') <= faults' + restarts'
    BY <2>1, StuckItemsFinite, ItemsStuck, BudgetKept DEF BInv
  <2> QED  BY <2>1, <2>2 DEF BInv, Charged, Failures
<1>3. CASE BatchOps \subseteq {"restart"}
  <2>1. BInv /\ [Next]_vars => BInv'
    BY <1>2, <1>3
  <2> QED  BY <1>1, <2>1, PTL DEF Spec
<1>4. CASE ~(BatchOps \subseteq {"restart"})
  BY <1>4
<1> QED  BY <1>3, <1>4

\* When batches are only restarted, by any number of requests at a time, each
\* failed call, restart or cancellation leaves at most one item in progress that
\* nothing executes.
THEOREM FailuresStickOneItem == BatchOps \subseteq {"restart"} /\ Spec => []OneItemPerFailure
<1>1. BInv => OneItemPerFailure
  BY DEF BInv, Charged, OneItemPerFailure
<1> QED  BY <1>1, BInvHolds, PTL

\* While nothing has failed, what the store shows as in progress is what Tick
\* executes: a claim that gets no agent is taken back.
THEOREM NothingLeftInProgress ==
  BatchOps \subseteq {"restart"} /\ Spec => [](Failures = 0 => StuckItems = {})
<1>1. OneItemPerFailure => (Failures = 0 => StuckItems = {})
  <2>1. Cardinality(StuckItems) \in Nat
    BY StuckItemsFinite, FS_CardinalityType
  <2> QED  BY <2>1, StuckItemsFinite, FS_EmptySet DEF OneItemPerFailure
<1> QED  BY <1>1, FailuresStickOneItem, PTL
=============================================================================
