-------------------------- MODULE RepositoryProofs --------------------------
(***************************************************************************)
(* Theorems about Repositories.  Its steps are steps of Scheduler, so what *)
(* SchedulerProofs proves holds in the composition; SealedIsQuiet needs an *)
(* invariant of its own.                                                   *)
(***************************************************************************)
EXTENDS Repositories, SchedulerProofs

\* Nobody but r is at work in repository p, and no batch of it is active.
QuietBut(r, p) ==
  /\ ~HasActiveBatches(p)
  /\ ~TickHolds(p)
  /\ \A q \in BatchRequests \ {r} : ~RequestHolds(q, p)

Quiet(p) ==
  /\ ~HasActiveBatches(p)
  /\ ~TickHolds(p)
  /\ \A q \in BatchRequests : ~RequestHolds(q, p)

\* A batch request writes a batch of the repository that it found.
RequestsStayHome ==
  \A r \in BatchRequests : breq[r] # None => owner[breq[r].batch] = rreq[r].repo

\* A deletion that counted alone is still alone.
AloneIsQuiet ==
  \A r \in BatchRequests :
    rreq[r] # None /\ rreq[r].alone => rreq[r].step = "delete" /\ QuietBut(r, rreq[r].repo)

SealedIsGone == \A p \in sealed : repositories[p] = "deleted" /\ Quiet(p)

RInv == RepositoryTypeOK /\ RequestsStayHome /\ AloneIsQuiet /\ SealedIsGone
-----------------------------------------------------------------------------
(* The composition takes no step that Scheduler does not take *)

LEMMA SchedulerStep == RepositoryNext => [Next]_vars
<1> SUFFICES ASSUME RepositoryNext PROVE [Next]_vars
  OBVIOUS
<1>1. CASE RepositoryTickStep
  BY <1>1 DEF RepositoryTickStep, FetchesBoth, FetchesNothing, Next, TickStep
<1>2. ASSUME NEW r \in BatchRequests, RequestStep(r) PROVE [Next]_vars
  <2>1. CASE AddsBatch(r)
    BY <2>1 DEF AddsBatch, Next, BatchRequestStep
  <2>2. CASE WritesBatch(r)
    BY <2>2 DEF WritesBatch, Next, BatchRequestStep
  <2>3. ASSUME NEW b \in BatchIds, ReadsBatch(r, b) PROVE [Next]_vars
    BY <2>3 DEF ReadsBatch, Next, BatchRequestStep
  <2> QED
    BY <1>2, <2>1, <2>2, <2>3
       DEF RequestStep, LooksUp, Refused, CountsBatches, DeletesRepository,
           EditsRepository, UpdatesRepository
<1>3. CASE CreatesRepository
  BY <1>3 DEF CreatesRepository
<1>4. CASE CreateAgent
  BY <1>4 DEF Next, AgentRequestStep
<1>5. CASE ProcessStep
  BY <1>5 DEF ProcessStep, Next
<1> QED  BY <1>1, <1>2, <1>3, <1>4, <1>5 DEF RepositoryNext

\* Every behaviour of the composition is one of Scheduler: the lookups of
\* repositories only take behaviours away.
THEOREM StillTheScheduler == RepositorySpec => Spec
<1>1. RepositoryInit => Init
  BY DEF RepositoryInit
<1>2. [RepositoryNext]_allVars => [Next]_vars
  BY SchedulerStep DEF allVars
<1> QED  BY <1>1, <1>2, PTL DEF RepositorySpec, Spec
-----------------------------------------------------------------------------
(* What a step of the scheduler writes *)

LEMMA TickWrites ==
  ASSUME TypeOK, RepositoryTickStep
  PROVE  /\ \A b \in BatchIds : batches'[b] # batches[b] => pc # "idle" /\ b = claim.batch
         /\ pc' # "idle" =>
              \/ pc # "idle" /\ claim'.batch = claim.batch
              \/ claim'.batch \in BatchIds /\ batches[claim'.batch].status \in ActiveStatus
         /\ breq' = breq
<1>0. batches \in [BatchIds -> Batch] /\ \A b \in BatchIds : batches[b].status \in BatchStatus \cup {"absent"}
  BY DEF TypeOK, Batch
<1>1. ASSUME TickListBatches
      PROVE  /\ batches' = batches /\ breq' = breq
             /\ claim'.batch \in BatchIds /\ batches[claim'.batch].status \in ActiveStatus
  <2>1. PICK b \in BatchIds, i \in Items :
          NextBatch(b) /\ claim' = [batch |-> b, item |-> i, doc |-> batches[b]]
    BY <1>1 DEF TickListBatches
  <2> QED  BY <1>0, <1>1, <2>1
           DEF TickListBatches, reqVars, NextBatch, Eligible, ActiveStatus, BatchStatus
<1>2. ASSUME NEW d, UpdateBatch(claim.batch, d) \/ BatchMayBeWritten(claim.batch, d)
      PROVE  \A b \in BatchIds : batches'[b] # batches[b] => b = claim.batch
  BY <1>0, <1>2 DEF UpdateBatch, BatchMayBeWritten
<1>3. ASSUME NEW s, NEW c, SetBatchStatus(s, c)
      PROVE  \A b \in BatchIds : batches'[b] # batches[b] => b = claim.batch
  BY <1>2, <1>3 DEF SetBatchStatus
<1>4. CASE TickListAgents \/ TickNoAgent \/ ClaimAgent \/ ClaimAgentFails \/ FetchesBoth
           \/ FetchesNothing \/ ReleaseAgent
  BY <1>4 DEF TickListAgents, TickNoAgent, ClaimAgent, ClaimAgentFails, FetchesBoth,
       FetchesNothing, WorkerFetch, WorkerFetchFails, ProcessReturns, ReleaseAgent, NoTick, reqVars
<1>5. CASE ClaimBatch \/ ClaimBatchFails
  <2>1. CASE ClaimBatch
    BY <1>2, <2>1 DEF ClaimBatch, TypeOK, reqVars
  <2>2. CASE ClaimBatchFails
    BY <1>2, <2>2 DEF ClaimBatchFails, NoTick, reqVars
  <2> QED  BY <1>5, <2>1, <2>2
<1>6. CASE Rollback
  BY <1>2, <1>6 DEF Rollback, NoTick, reqVars
<1>7. CASE CompleteBatch
  BY <1>2, <1>7 DEF CompleteBatch, reqVars
<1>8. CASE WorkerMarks \/ WorkerSucceeds \/ WorkerFails \/ WorkerStops
  BY <1>3, <1>8 DEF WorkerMarks, WorkerSucceeds, WorkerFails, WorkerStops, ProcessReturns, reqVars
<1> QED  BY <1>1, <1>4, <1>5, <1>6, <1>7, <1>8 DEF RepositoryTickStep, TickListBatches
-----------------------------------------------------------------------------
(* Types *)

LEMMA RequestTypes ==
  ASSUME RepositoryTypeOK, NEW r \in BatchRequests, rreq[r] # None
  PROVE  rreq[r].repo \in RepositoryIds
BY DEF RepositoryTypeOK, Request

LEMMA RepositoryTypeStep ==
  RepositoryTypeOK /\ [RepositoryNext]_allVars => RepositoryTypeOK'
<1> SUFFICES ASSUME RepositoryTypeOK, [RepositoryNext]_allVars PROVE RepositoryTypeOK'
  OBVIOUS
<1>0. TypeOK'
  BY SchedulerStep, TypeStep DEF RepositoryTypeOK, allVars
<1>1. CASE RepositoryTickStep
  BY <1>0, <1>1, TickWrites DEF RepositoryTickStep, RepositoryTypeOK, repoVars, Found
<1>2. ASSUME NEW r \in BatchRequests, NEW p \in RepositoryIds, LooksUp(r, p) PROVE RepositoryTypeOK'
  <2>1. ASSUME NEW q \in BatchRequests, rreq'[q] # None
        PROVE  rreq'[q] \in Request /\ (q # r => rreq[q] # None /\ rreq'[q].step = rreq[q].step)
    <3>1. CASE q = r
      BY <1>2, <3>1 DEF LooksUp, Disturbed, Request
    <3>2. CASE q # r
      <4>1. rreq'[q] = IF RequestHolds(q, p) THEN [rreq[q] EXCEPT !.alone = FALSE] ELSE rreq[q]
        BY <1>2, <3>2 DEF LooksUp, Disturbed
      <4>2. rreq[q] # None
        BY <2>1, <4>1 DEF RequestHolds
      <4>3. rreq[q] \in Request
        BY <4>2 DEF RepositoryTypeOK
      <4> QED  BY <3>2, <4>1, <4>2, <4>3 DEF Request
    <3> QED  BY <3>1, <3>2
  <2>2. ASSUME NEW q \in BatchRequests, breq'[q] # None PROVE Found(q)'
    <3>1. rreq[q] # None /\ rreq[q].step = "found" /\ q # r
      BY <1>2, <2>2 DEF LooksUp, RepositoryTypeOK, Found, vars, reqVars
    <3>2. rreq'[q] \in Request
      BY <1>2, <3>1 DEF LooksUp, Disturbed, RepositoryTypeOK, Request
    <3>3. rreq'[q] # None
      BY <3>2, RepositoryAssumption
    <3> QED  BY <2>1, <3>1, <3>3 DEF Found
  <2> QED  BY <1>0, <1>2, <2>1, <2>2 DEF LooksUp, Disturbed, RepositoryTypeOK
<1>3. ASSUME NEW r \in BatchRequests, Refused(r) PROVE RepositoryTypeOK'
  BY <1>0, <1>3 DEF Refused, SetRequest, RepositoryTypeOK, Found, vars, reqVars
<1>4. ASSUME NEW r \in BatchRequests, AddsBatch(r) PROVE RepositoryTypeOK'
  BY <1>0, <1>4 DEF AddsBatch, AddBatch, SetRequest, RepositoryTypeOK, Found, reqVars
<1>5. ASSUME NEW r \in BatchRequests, NEW b \in BatchIds, ReadsBatch(r, b) PROVE RepositoryTypeOK'
  <2>1. \A q \in BatchRequests : q # r => breq'[q] = breq[q]
    BY <1>5 DEF ReadsBatch, PauseRead, ResumeRead, RestartRead, HoldBatch, RepositoryTypeOK, TypeOK
  <2> QED  BY <1>0, <1>5, <2>1 DEF ReadsBatch, repoVars, RepositoryTypeOK, Found
<1>6. ASSUME NEW r \in BatchRequests, WritesBatch(r) PROVE RepositoryTypeOK'
  BY <1>0, <1>6 DEF WritesBatch, WriteBatch, SetRequest, RepositoryTypeOK, TypeOK, Found
<1>7. ASSUME NEW r \in BatchRequests, NEW step \in {"delete", "edit"}, NEW alone \in BOOLEAN,
             Found(r), breq[r] = None,
             SetRequest(r, [rreq[r] EXCEPT !.step = step, !.alone = alone]),
             UNCHANGED <<vars, repositories, owner, sealed>>
      PROVE  RepositoryTypeOK'
  <2>1. [rreq[r] EXCEPT !.step = step, !.alone = alone] \in Request
    BY <1>7 DEF RepositoryTypeOK, Found, Request
  <2> QED  BY <1>0, <1>7, <2>1 DEF SetRequest, RepositoryTypeOK, Found, vars, reqVars
<1>8. ASSUME NEW r \in BatchRequests, CountsBatches(r) PROVE RepositoryTypeOK'
  BY <1>7, <1>8 DEF CountsBatches, Alone
<1>9. ASSUME NEW r \in BatchRequests, EditsRepository(r) PROVE RepositoryTypeOK'
  <2>1. [rreq[r] EXCEPT !.step = "edit"] \in Request
    BY <1>9 DEF EditsRepository, RepositoryTypeOK, Found, Request
  <2> QED  BY <1>0, <1>9, <2>1 DEF EditsRepository, SetRequest, RepositoryTypeOK, Found, vars, reqVars
<1>10. ASSUME NEW r \in BatchRequests, DeletesRepository(r) PROVE RepositoryTypeOK'
  <2>1. rreq[r].repo \in RepositoryIds /\ breq[r] = None
    BY <1>10, RequestTypes DEF DeletesRepository, RepositoryTypeOK, Found
  <2> QED
    BY <1>0, <1>10, <2>1 DEF DeletesRepository, SetRequest, RepositoryTypeOK, Found, vars, reqVars
<1>11. ASSUME NEW r \in BatchRequests, UpdatesRepository(r) PROVE RepositoryTypeOK'
  BY <1>0, <1>11 DEF UpdatesRepository, SetRequest, RepositoryTypeOK, Found, vars, reqVars
<1>12. CASE CreatesRepository
  BY <1>0, <1>12 DEF CreatesRepository, RepositoryTypeOK, Found, vars, reqVars
<1>13. CASE CreateAgent /\ UNCHANGED repoVars
  BY <1>0, <1>13 DEF CreateAgent, repoVars, RepositoryTypeOK, Found, reqVars
<1>14. CASE ProcessStep
  <2>1. CASE SetDraining \/ CancelRun
    BY <1>0, <1>14, <2>1
       DEF ProcessStep, SetDraining, CancelRun, ProcessRestart, reqVars, RepositoryTypeOK, Found
  <2>2. CASE ProcessRestart
    BY <1>0, <1>14, <2>2
       DEF ProcessStep, SetDraining, CancelRun, ProcessRestart, RepositoryTypeOK, Found, RequestHolds
  <2> QED  BY <1>14, <2>1, <2>2 DEF ProcessStep
<1>15. CASE UNCHANGED allVars
  BY <1>0, <1>15 DEF allVars, repoVars, RepositoryTypeOK, Found, vars, reqVars
<1> QED
  BY <1>1, <1>2, <1>3, <1>4, <1>5, <1>6, <1>8, <1>9, <1>10, <1>11, <1>12, <1>13, <1>14, <1>15
     DEF RepositoryNext, RequestStep

LEMMA RepositoryTypeInit == RepositoryInit => RepositoryTypeOK
BY TypeInit, RepositoryAssumption DEF RepositoryInit, RepositoryTypeOK, Init, RepositoryIds

\* Every variable of the composition has its type, whatever the constants.
THEOREM RepositoriesTypeCorrect == RepositorySpec => []RepositoryTypeOK
BY RepositoryTypeInit, RepositoryTypeStep, PTL DEF RepositorySpec
-----------------------------------------------------------------------------
(* The invariant *)

\* A step of the scheduler disturbs no quiet: it has nothing of the repository
\* in hand, and none of its batches can be taken.
LEMMA TickKeepsQuiet ==
  ASSUME RepositoryTypeOK, RepositoryTickStep, NEW p \in RepositoryIds,
         ~HasActiveBatches(p), ~TickHolds(p)
  PROVE  ~HasActiveBatches(p)' /\ ~TickHolds(p)'
<1>1. owner' = owner
  BY DEF RepositoryTickStep, repoVars
<1>2. \A b \in BatchIds : owner[b] = p => batches'[b] = batches[b]
  BY TickWrites DEF RepositoryTypeOK, TickHolds
<1>3. ~HasActiveBatches(p)'
  BY <1>1, <1>2 DEF HasActiveBatches
<1>4. pc' # "idle" => owner[claim'.batch] # p
  BY TickWrites DEF RepositoryTypeOK, TickHolds, HasActiveBatches
<1> QED  BY <1>1, <1>3, <1>4 DEF TickHolds

\* So does a step that leaves the batches, the tick and the owners alone.
LEMMA StillQuiet ==
  ASSUME UNCHANGED <<batches, owner, pc, claim>>, NEW p
  PROVE  /\ HasActiveBatches(p)' = HasActiveBatches(p)
         /\ TickHolds(p)' = TickHolds(p)
BY DEF HasActiveBatches, TickHolds

\* So does a write to a batch of another repository.
LEMMA WriteElsewhere ==
  ASSUME RepositoryTypeOK, NEW p, UNCHANGED <<owner, pc, claim>>,
         \A b \in BatchIds : owner[b] = p => batches'[b] = batches[b]
  PROVE  /\ HasActiveBatches(p)' = HasActiveBatches(p)
         /\ TickHolds(p)' = TickHolds(p)
BY DEF HasActiveBatches, TickHolds

LEMMA OwnersStay == [RepositoryNext]_allVars => owner' = owner
BY DEF RepositoryNext, allVars, repoVars, RepositoryTickStep, RequestStep, LooksUp, Refused,
       AddsBatch, WritesBatch, ReadsBatch, CountsBatches, DeletesRepository, EditsRepository,
       UpdatesRepository, CreatesRepository, ProcessStep

LEMMA InvariantInit == RepositoryInit => RInv
BY RepositoryTypeInit DEF RepositoryInit, RInv, RequestsStayHome, AloneIsQuiet, SealedIsGone, Init

LEMMA HomeStep == RInv /\ [RepositoryNext]_allVars => RequestsStayHome'
<1> SUFFICES ASSUME RInv, [RepositoryNext]_allVars PROVE RequestsStayHome'
  OBVIOUS
<1> USE DEF RInv
<1>1. CASE RepositoryTickStep
  BY <1>1, TickWrites DEF RepositoryTickStep, repoVars, RequestsStayHome, RepositoryTypeOK
<1>2. ASSUME NEW r \in BatchRequests, NEW p \in RepositoryIds, LooksUp(r, p) PROVE RequestsStayHome'
  <2>1. breq' = breq /\ owner' = owner
    BY <1>2 DEF LooksUp, vars, reqVars
  <2>2. ASSUME NEW q \in BatchRequests, breq[q] # None PROVE rreq'[q].repo = rreq[q].repo
    <3>1. rreq[q] \in Request /\ q # r
      BY <1>2, <2>2 DEF LooksUp, RepositoryTypeOK, Found
    <3>2. rreq'[q] = IF RequestHolds(q, p) THEN [rreq[q] EXCEPT !.alone = FALSE] ELSE rreq[q]
      BY <1>2, <3>1 DEF LooksUp, Disturbed
    <3> QED  BY <3>1, <3>2 DEF Request
  <2> QED  BY <2>1, <2>2 DEF RequestsStayHome
<1>3. ASSUME NEW r \in BatchRequests, breq[r] = None, breq' = breq, owner' = owner,
             \A q \in BatchRequests : q # r => rreq'[q] = rreq[q]
      PROVE  RequestsStayHome'
  BY <1>3 DEF RequestsStayHome
<1>4. ASSUME NEW r \in BatchRequests,
             \/ Refused(r) \/ CountsBatches(r) \/ EditsRepository(r)
             \/ DeletesRepository(r) \/ UpdatesRepository(r) \/ AddsBatch(r)
      PROVE  RequestsStayHome'
  <2>1. breq[r] = None
    BY <1>4 DEF Refused, CountsBatches, EditsRepository, DeletesRepository, UpdatesRepository,
                AddsBatch, RepositoryTypeOK, Found
  <2>2. breq' = breq /\ owner' = owner /\ \A q \in BatchRequests : q # r => rreq'[q] = rreq[q]
    BY <1>4, OwnersStay
       DEF Refused, CountsBatches, EditsRepository, DeletesRepository, UpdatesRepository,
           AddsBatch, AddBatch, SetRequest, RepositoryTypeOK, vars, reqVars
  <2> QED  BY <1>3, <2>1, <2>2
<1>5. ASSUME NEW r \in BatchRequests, NEW b \in BatchIds, ReadsBatch(r, b) PROVE RequestsStayHome'
  <2>0. PICK op, d : HoldBatch(r, op, b, d)
    BY <1>5 DEF ReadsBatch, PauseRead, ResumeRead, RestartRead
  <2>1. \A q \in BatchRequests : breq'[q] = breq[q] \/ (q = r /\ breq'[q].batch = b)
    BY <2>0 DEF HoldBatch, RepositoryTypeOK, TypeOK
  <2> QED  BY <1>5, <2>1 DEF ReadsBatch, repoVars, RequestsStayHome
<1>6. ASSUME NEW r \in BatchRequests, WritesBatch(r) PROVE RequestsStayHome'
  BY <1>6 DEF WritesBatch, WriteBatch, SetRequest, RepositoryTypeOK, TypeOK, RequestsStayHome
<1>7. ASSUME UNCHANGED <<breq, rreq, owner>> PROVE RequestsStayHome'
  BY <1>7 DEF RequestsStayHome
<1>10. CASE CreatesRepository
  BY <1>7, <1>10 DEF CreatesRepository, vars, reqVars
<1>11. CASE CreateAgent /\ UNCHANGED repoVars
  BY <1>7, <1>11 DEF CreateAgent, repoVars, reqVars
<1>12. CASE UNCHANGED allVars
  BY <1>7, <1>12 DEF repoVars, allVars, vars, reqVars
<1>8. CASE ProcessStep
  <2>1. CASE SetDraining \/ CancelRun
    BY <1>8, <2>1 DEF ProcessStep, SetDraining, CancelRun, ProcessRestart, reqVars, RequestsStayHome
  <2>2. CASE ProcessRestart
    BY <2>2 DEF ProcessRestart, RequestsStayHome
  <2> QED  BY <1>8, <2>1, <2>2 DEF ProcessStep
<1>9. ASSUME NEW r \in BatchRequests, RequestStep(r) PROVE RequestsStayHome'
  BY <1>2, <1>4, <1>5, <1>6, <1>9 DEF RequestStep
<1> QED  BY <1>1, <1>8, <1>9, <1>10, <1>11, <1>12 DEF RepositoryNext
-----------------------------------------------------------------------------
(* A repository where nobody is at work stays so *)

\* A step that is no request's brings nobody to a quiet repository.
LEMMA OthersKeepQuiet ==
  ASSUME RepositoryTypeOK, NEW p \in RepositoryIds, ~HasActiveBatches(p), ~TickHolds(p),
         \/ RepositoryTickStep
         \/ CreatesRepository
         \/ CreateAgent /\ UNCHANGED repoVars
         \/ ProcessStep
         \/ UNCHANGED allVars
  PROVE  /\ ~HasActiveBatches(p)' /\ ~TickHolds(p)'
         /\ \A s \in BatchRequests : rreq'[s] # None => rreq'[s] = rreq[s]
<1>1. CASE RepositoryTickStep
  BY <1>1, TickKeepsQuiet DEF RepositoryTickStep, repoVars
<1>2. CASE CreatesRepository
  BY <1>2, StillQuiet DEF CreatesRepository, vars, tickVars
<1>3. CASE CreateAgent /\ UNCHANGED repoVars
  BY <1>3, StillQuiet DEF CreateAgent, repoVars, tickVars
<1>4. CASE ProcessStep
  <2>1. CASE SetDraining \/ CancelRun
    BY <1>4, <2>1, StillQuiet DEF ProcessStep, SetDraining, CancelRun, ProcessRestart, tickVars
  <2>2. CASE ProcessRestart
    <3>1. pc' = "idle" /\ batches' = batches
      BY <2>2 DEF ProcessRestart, NoTick
    <3>2. owner' = owner
      BY <1>4 DEF ProcessStep
    <3>3. \A s \in BatchRequests : rreq'[s] # None => rreq'[s] = rreq[s]
      BY <1>4, <2>2 DEF ProcessStep, SetDraining, CancelRun, ProcessRestart
    <3> QED  BY <3>1, <3>2, <3>3 DEF HasActiveBatches, TickHolds
  <2> QED  BY <1>4, <2>1, <2>2 DEF ProcessStep
<1>5. CASE UNCHANGED allVars
  BY <1>5, StillQuiet DEF allVars, repoVars, vars, tickVars
<1> QED  BY <1>1, <1>2, <1>3, <1>4, <1>5

LEMMA OthersUndone ==
  ASSUME RepositoryTypeOK, NEW s \in BatchRequests, rreq'[s] # None,
         \/ RepositoryTickStep
         \/ CreatesRepository
         \/ CreateAgent /\ UNCHANGED repoVars
         \/ ProcessStep
         \/ UNCHANGED allVars
  PROVE  rreq'[s] = rreq[s]
BY DEF RepositoryTickStep, CreatesRepository, ProcessStep, SetDraining, CancelRun, ProcessRestart,
       allVars, repoVars

\* A request of another repository changes no batch of a quiet one, and only
\* one that looks it up comes to it.
LEMMA RequestsKeepQuiet ==
  ASSUME RepositoryTypeOK, RequestsStayHome, NEW p \in RepositoryIds,
         ~HasActiveBatches(p), ~TickHolds(p),
         NEW q \in BatchRequests, RequestStep(q), ~RequestHolds(q, p), ~LooksUp(q, p)
  PROVE  /\ ~HasActiveBatches(p)' /\ ~TickHolds(p)' /\ ~RequestHolds(q, p)'
         /\ \A s \in BatchRequests : s # q => RequestHolds(s, p)' = RequestHolds(s, p)
<1>0. owner' = owner
  BY OwnersStay DEF RepositoryNext
<1>1. ASSUME NEW z \in RepositoryIds, LooksUp(q, z)
      PROVE  /\ ~RequestHolds(q, p)'
             /\ \A s \in BatchRequests : s # q => RequestHolds(s, p)' = RequestHolds(s, p)
  <2>1. rreq'[q] # None => rreq'[q].repo = z
    BY <1>1 DEF LooksUp, Disturbed
  <2>2. ASSUME NEW s \in BatchRequests, s # q
        PROVE  RequestHolds(s, p)' = RequestHolds(s, p)
    <3>1. rreq'[s] = IF RequestHolds(s, z) THEN [rreq[s] EXCEPT !.alone = FALSE] ELSE rreq[s]
      BY <1>1, <2>2 DEF LooksUp, Disturbed
    <3>2. rreq[s] # None => rreq[s] \in Request
      BY DEF RepositoryTypeOK
    <3>3. RequestHolds(s, z) => rreq'[s] \in Request /\ rreq'[s].repo = rreq[s].repo
      BY <3>1, <3>2 DEF RequestHolds, Request
    <3> QED  BY <3>1, <3>3, RepositoryAssumption DEF RequestHolds
  <2>3. z # p
    BY <1>1
  <2> QED  BY <2>1, <2>2, <2>3 DEF RequestHolds
<1>2. ASSUME rreq[q] # None, NEW v, SetRequest(q, v), v = None \/ v.repo = rreq[q].repo
      PROVE  /\ ~RequestHolds(q, p)'
             /\ \A s \in BatchRequests : s # q => RequestHolds(s, p)' = RequestHolds(s, p)
  BY <1>2 DEF SetRequest, RequestHolds, RepositoryTypeOK
<1>3. ASSUME AddsBatch(q)
      PROVE  /\ UNCHANGED <<pc, claim>>
             /\ \A b \in BatchIds : owner[b] = p => batches'[b] = batches[b]
  BY <1>3 DEF AddsBatch, AddBatch, UpdateBatch, Found, RequestHolds, tickVars, RepositoryTypeOK, TypeOK
<1>4. ASSUME WritesBatch(q)
      PROVE  /\ UNCHANGED <<pc, claim>> /\ rreq[q] # None
             /\ \A b \in BatchIds : owner[b] = p => batches'[b] = batches[b]
  <2>1. breq[q] # None /\ rreq[q] # None /\ owner[breq[q].batch] # p
    BY <1>4 DEF WritesBatch, WriteBatch, RepositoryTypeOK, Found, RequestsStayHome, RequestHolds
  <2>2. \A b \in BatchIds : b # breq[q].batch => batches'[b] = batches[b]
    BY <1>4 DEF WritesBatch, WriteBatch, UpdateBatch, BatchMayBeWritten, RepositoryTypeOK, TypeOK
  <2> QED  BY <1>4, <2>1, <2>2 DEF WritesBatch, WriteBatch, tickVars
<1>5. CASE \E z \in RepositoryIds : LooksUp(q, z)
  BY <1>1, <1>5, StillQuiet DEF LooksUp, vars, tickVars
<1>6. CASE Refused(q) \/ UpdatesRepository(q) \/ DeletesRepository(q)
  BY <1>2, <1>6, StillQuiet DEF Refused, UpdatesRepository, DeletesRepository, vars, tickVars
<1>7. CASE CountsBatches(q) \/ EditsRepository(q)
  <2>1. rreq[q] # None /\ rreq[q] \in Request
    BY <1>7 DEF CountsBatches, EditsRepository, Found, RepositoryTypeOK
  <2>2. [rreq[q] EXCEPT !.step = "edit"].repo = rreq[q].repo
    BY <2>1 DEF Request
  <2>3. \A alone : [rreq[q] EXCEPT !.step = "delete", !.alone = alone].repo = rreq[q].repo
    BY <2>1 DEF Request
  <2> QED
    BY <1>2, <1>7, <2>1, <2>2, <2>3, StillQuiet DEF CountsBatches, EditsRepository, vars, tickVars
<1>8. CASE AddsBatch(q)
  BY <1>0, <1>2, <1>3, <1>8, WriteElsewhere DEF AddsBatch, Found
<1>9. CASE WritesBatch(q)
  BY <1>0, <1>2, <1>4, <1>9, WriteElsewhere DEF WritesBatch
<1>10. ASSUME NEW b \in BatchIds, ReadsBatch(q, b)
       PROVE  UNCHANGED <<batches, owner, pc, claim, rreq>>
  BY <1>10 DEF ReadsBatch, PauseRead, ResumeRead, RestartRead, HoldBatch, repoVars, tickVars
<1>11. CASE \E b \in BatchIds : ReadsBatch(q, b)
  BY <1>10, <1>11, StillQuiet DEF RequestHolds
<1> QED
  BY <1>5, <1>6, <1>7, <1>8, <1>9, <1>11 DEF RequestStep
-----------------------------------------------------------------------------
(* The invariant, continued, and the theorems *)

LEMMA AloneStep == RInv /\ [RepositoryNext]_allVars => AloneIsQuiet'
<1> SUFFICES ASSUME RInv, [RepositoryNext]_allVars,
                    NEW r \in BatchRequests, rreq'[r] # None, rreq'[r].alone
             PROVE  (rreq[r].step = "delete" /\ QuietBut(r, rreq[r].repo))'
  BY DEF AloneIsQuiet
<1>0. PICK p : p = rreq[r].repo
  OBVIOUS
<1>1. ASSUME rreq'[r] = rreq[r]
      PROVE  /\ rreq[r] # None /\ rreq[r].step = "delete" /\ p \in RepositoryIds
             /\ QuietBut(r, p)
  BY <1>0, <1>1, RequestTypes DEF RInv, AloneIsQuiet
<1>2. CASE \/ RepositoryTickStep
           \/ CreatesRepository
           \/ CreateAgent /\ UNCHANGED repoVars
           \/ ProcessStep
           \/ UNCHANGED allVars
  <2>1. rreq'[r] = rreq[r]
    BY <1>2, OthersUndone DEF RInv
  <2>2. ~HasActiveBatches(p) /\ ~TickHolds(p) /\ p \in RepositoryIds
    BY <1>0, <1>1, <2>1 DEF QuietBut
  <2>3. /\ ~HasActiveBatches(p)' /\ ~TickHolds(p)'
        /\ \A s \in BatchRequests : rreq'[s] # None => rreq'[s] = rreq[s]
    BY <1>2, <2>2, OthersKeepQuiet DEF RInv
  <2> QED  BY <1>0, <1>1, <2>1, <2>3 DEF QuietBut, HasActiveBatches, TickHolds, RequestHolds
<1>3. ASSUME NEW q \in BatchRequests, q # r, RequestStep(q)
      PROVE  (rreq[r].step = "delete" /\ QuietBut(r, rreq[r].repo))'
  <2>1. ASSUME NEW z \in RepositoryIds, LooksUp(q, z)
        PROVE  rreq'[r] = rreq[r] /\ rreq[r].repo # z
    <3>1. rreq'[r] = IF RequestHolds(r, z) THEN [rreq[r] EXCEPT !.alone = FALSE] ELSE rreq[r]
      BY <1>3, <2>1 DEF LooksUp, Disturbed
    <3>2. rreq[r] # None => rreq[r] \in Request
      BY DEF RInv, RepositoryTypeOK
    <3>3. ~RequestHolds(r, z)
      BY <3>1, <3>2 DEF RequestHolds, Request
    <3> QED  BY <3>1, <3>3 DEF RequestHolds
  <2>2. rreq'[r] = rreq[r]
    BY <1>3, <2>1 DEF RequestStep, Refused, AddsBatch, WritesBatch, ReadsBatch, repoVars,
      CountsBatches, DeletesRepository, EditsRepository, UpdatesRepository, SetRequest,
      RInv, RepositoryTypeOK
  <2>3. ~RequestHolds(q, p) /\ ~LooksUp(q, p) /\ ~HasActiveBatches(p) /\ ~TickHolds(p)
    BY <1>0, <1>1, <1>3, <2>1, <2>2 DEF QuietBut
  <2>4. /\ ~HasActiveBatches(p)' /\ ~TickHolds(p)' /\ ~RequestHolds(q, p)'
        /\ \A s \in BatchRequests : s # q => RequestHolds(s, p)' = RequestHolds(s, p)
    BY <1>0, <1>1, <1>3, <2>2, <2>3, RequestsKeepQuiet DEF RInv
  <2> QED  BY <1>0, <1>1, <2>2, <2>4 DEF QuietBut, HasActiveBatches, TickHolds, RequestHolds
<1>4. ASSUME CountsBatches(r)
      PROVE  (rreq[r].step = "delete" /\ QuietBut(r, rreq[r].repo))'
  <2>1. /\ rreq[r] # None /\ rreq[r] \in Request
        /\ rreq' = [rreq EXCEPT ![r] = [rreq[r] EXCEPT !.step = "delete", !.alone = Alone(r, p)]]
    BY <1>0, <1>4 DEF CountsBatches, SetRequest, Found, RInv, RepositoryTypeOK
  <2>2. /\ rreq'[r].repo = p /\ rreq'[r].step = "delete" /\ Alone(r, p)
        /\ \A s \in BatchRequests : s # r => rreq'[s] = rreq[s]
    BY <1>0, <2>1 DEF RInv, RepositoryTypeOK, Request
  <2>3. HasActiveBatches(p)' = HasActiveBatches(p) /\ TickHolds(p)' = TickHolds(p)
    BY <1>0, <1>4, StillQuiet DEF CountsBatches, vars, tickVars
  <2> QED
    BY <1>0, <1>4, <2>2, <2>3 DEF CountsBatches, QuietBut, Alone, HasActiveBatches, TickHolds, RequestHolds
<1>5. ASSUME NEW z \in RepositoryIds, LooksUp(r, z) PROVE FALSE
  BY <1>5 DEF LooksUp, Disturbed
<1>6. ASSUME EditsRepository(r) PROVE FALSE
  <2>1. /\ rreq[r] # None /\ rreq[r] \in Request /\ rreq[r].step = "found"
        /\ rreq' = [rreq EXCEPT ![r] = [rreq[r] EXCEPT !.step = "edit"]]
    BY <1>6 DEF EditsRepository, SetRequest, Found, RInv, RepositoryTypeOK
  <2>2. rreq[r].alone
    BY <1>0, <2>1 DEF RInv, RepositoryTypeOK, Request
  <2> QED  BY <2>1, <2>2 DEF RInv, AloneIsQuiet
<1>7. ASSUME NEW b \in BatchIds, ReadsBatch(r, b) PROVE FALSE
  BY <1>7 DEF ReadsBatch, repoVars, Found, RInv, AloneIsQuiet
<1>8. ASSUME Refused(r) \/ AddsBatch(r) \/ WritesBatch(r) \/ DeletesRepository(r) \/ UpdatesRepository(r)
      PROVE  FALSE
  BY <1>8 DEF Refused, AddsBatch, WritesBatch, DeletesRepository, UpdatesRepository,
     SetRequest, RInv, RepositoryTypeOK
<1>9. CASE RequestStep(r)
  BY <1>0, <1>4, <1>5, <1>6, <1>7, <1>8, <1>9 DEF RequestStep
<1> QED  BY <1>2, <1>3, <1>9 DEF RepositoryNext

LEMMA SealedStep == RInv /\ [RepositoryNext]_allVars => SealedIsGone'
<1> SUFFICES ASSUME RInv, [RepositoryNext]_allVars, NEW p \in sealed'
             PROVE  repositories'[p] = "deleted" /\ Quiet(p)'
  BY DEF SealedIsGone, Quiet, HasActiveBatches, TickHolds, RequestHolds
<1>0. p \in sealed => /\ p \in RepositoryIds /\ repositories[p] = "deleted" /\ Quiet(p)
                      /\ \A q \in BatchRequests : ~LooksUp(q, p)
  BY DEF RInv, SealedIsGone, RepositoryTypeOK, LooksUp
<1>1. ASSUME \/ RepositoryTickStep
             \/ CreatesRepository
             \/ CreateAgent /\ UNCHANGED repoVars
             \/ ProcessStep
             \/ UNCHANGED allVars
      PROVE  repositories'[p] = "deleted" /\ Quiet(p)'
  <2>1. sealed' = sealed
    BY <1>1 DEF RepositoryTickStep, CreatesRepository, ProcessStep, allVars, repoVars
  <2>2. repositories'[p] = "deleted"
    BY <1>0, <1>1, <2>1
       DEF RepositoryTickStep, CreatesRepository, ProcessStep, allVars, repoVars,
           RInv, RepositoryTypeOK
  <2>3. /\ ~HasActiveBatches(p)' /\ ~TickHolds(p)'
        /\ \A s \in BatchRequests : rreq'[s] # None => rreq'[s] = rreq[s]
    BY <1>0, <1>1, <2>1, OthersKeepQuiet DEF RInv, Quiet
  <2> QED  BY <1>0, <2>1, <2>2, <2>3 DEF Quiet, RequestHolds
<1>2. ASSUME NEW q \in BatchRequests, RequestStep(q)
      PROVE  repositories'[p] = "deleted" /\ Quiet(p)'
  <2>1. p \in sealed \/ DeletesRepository(q)
    BY <1>2 DEF RequestStep, LooksUp, Refused, AddsBatch, WritesBatch, ReadsBatch, repoVars,
                CountsBatches, EditsRepository, UpdatesRepository
  <2>2. CASE p \in sealed
    <3>1. repositories'[p] = "deleted"
      BY <1>0, <1>2, <2>2
         DEF RequestStep, LooksUp, Refused, AddsBatch, WritesBatch, ReadsBatch, repoVars,
             CountsBatches, EditsRepository, UpdatesRepository, DeletesRepository,
             RInv, RepositoryTypeOK
    <3>2. /\ ~HasActiveBatches(p)' /\ ~TickHolds(p)' /\ ~RequestHolds(q, p)'
          /\ \A s \in BatchRequests : s # q => RequestHolds(s, p)' = RequestHolds(s, p)
      BY <1>0, <1>2, <2>2, RequestsKeepQuiet DEF RInv, Quiet
    <3> QED  BY <1>0, <2>2, <3>1, <3>2 DEF Quiet
  <2>3. CASE p \notin sealed
    <3>1. /\ DeletesRepository(q) /\ rreq[q].alone /\ p = rreq[q].repo
      BY <2>1, <2>3 DEF DeletesRepository
    <3>2. p \in RepositoryIds /\ rreq[q] # None /\ QuietBut(q, p)
      BY <3>1, RequestTypes DEF DeletesRepository, RInv, AloneIsQuiet
    <3>3. repositories'[p] = "deleted"
      BY <3>1, <3>2 DEF DeletesRepository, RInv, RepositoryTypeOK
    <3>4. /\ rreq'[q] = None
          /\ \A s \in BatchRequests : s # q => rreq'[s] = rreq[s]
      BY <3>1 DEF DeletesRepository, SetRequest, RInv, RepositoryTypeOK
    <3>5. ~HasActiveBatches(p)' /\ ~TickHolds(p)'
      BY <3>1, <3>2, StillQuiet DEF DeletesRepository, vars, tickVars, QuietBut
    <3> QED  BY <3>2, <3>3, <3>4, <3>5 DEF Quiet, QuietBut, RequestHolds
  <2> QED  BY <2>2, <2>3
<1> QED  BY <1>1, <1>2 DEF RepositoryNext

LEMMA InvariantStep == RInv /\ [RepositoryNext]_allVars => RInv'
BY RepositoryTypeStep, HomeStep, AloneStep, SealedStep DEF RInv

THEOREM InvariantHolds == RepositorySpec => []RInv
BY InvariantInit, InvariantStep, PTL DEF RepositorySpec

\* A repository deleted while nobody is at work there has no active batch ever
\* after, whatever the number of repositories, batches, agents and requests.
THEOREM DeletedInPeace == RepositorySpec => []SealedIsQuiet
<1>1. RInv => SealedIsQuiet
  BY DEF RInv, SealedIsGone, Quiet, SealedIsQuiet
<1> QED  BY <1>1, InvariantHolds, PTL

\* No step brings a deleted repository back: not an edit that read it before,
\* and no other request.
THEOREM NothingBringsItBack == RepositorySpec => DeletedForGood
<1>1. RepositoryTypeOK /\ [RepositoryNext]_allVars
        => \A p \in RepositoryIds : repositories[p] = "deleted" => repositories'[p] = "deleted"
  BY DEF RepositoryNext, RequestStep, LooksUp, Refused, AddsBatch, WritesBatch, ReadsBatch,
         CountsBatches, DeletesRepository, EditsRepository, UpdatesRepository,
         RepositoryTickStep, CreatesRepository, ProcessStep, allVars, repoVars, RepositoryTypeOK
<1> QED
  BY <1>1, RepositoriesTypeCorrect, PTL DEF RepositorySpec, DeletedForGood
=============================================================================
