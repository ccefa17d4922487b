---------------------------- MODULE Repositories ----------------------------
(***************************************************************************)
(* Repositories, composed with the scheduler and the batches that live in  *)
(* them.  Every request of a batch looks its repository up in a call of    *)
(* its own before it looks at the batch; the deletion of a repository      *)
(* looks it up, counts its active batches and deletes, in three calls; the *)
(* worker looks it up when it starts.                                      *)
(*                                                                         *)
(* A slot of BatchRequests holds one request of either kind.               *)
(***************************************************************************)
EXTENDS Scheduler

CONSTANT MaxRepositories \* bound: repositories ever created

RepositoryIds == 1..MaxRepositories
Request == [repo : RepositoryIds, step : {"found", "delete", "edit"}, alone : BOOLEAN]

ASSUME RepositoryAssumption ==
  /\ MaxRepositories \in Nat \ {0}
  /\ None \notin Request

VARIABLES
  repositories, \* the repository documents: absent, present or deleted
  owner,        \* RepositoryID of each batch, of those yet to be added too
  rreq,         \* the repository that each request has found, and its step
  sealed        \* history: repositories deleted while nobody was at work there

repoVars == <<repositories, owner, rreq, sealed>>
allVars == <<vars, repoVars>>

\* The statuses that RepositoryHasActiveBatches counts.
ActiveStatus == {"pending", "in_progress", "paused"}

HasActiveBatches(p) ==
  \E b \in BatchIds : owner[b] = p /\ batches[b].status \in ActiveStatus

\* A request or a tick that may still write a batch of repository p.
TickHolds(p) == pc # "idle" /\ owner[claim.batch] = p
RequestHolds(r, p) == rreq[r] # None /\ rreq[r].repo = p
-----------------------------------------------------------------------------
(* Requests *)

SetRequest(r, v) == rreq' = [rreq EXCEPT ![r] = v]

\* A request that looks repository p up ends the solitude of a deletion.
Disturbed(p) ==
  [r \in BatchRequests |->
     IF RequestHolds(r, p) THEN [rreq[r] EXCEPT !.alone = FALSE] ELSE rreq[r]]

\* GetRepository, the first call of every request in a repository.
LooksUp(r, p) ==
  /\ rreq[r] = None
  /\ repositories[p] = "present"
  /\ rreq' = [Disturbed(p) EXCEPT ![r] = [repo |-> p, step |-> "found", alone |-> FALSE]]
  /\ UNCHANGED <<vars, repositories, owner, sealed>>

RefusedLate(r) ==
  /\ rreq[r] # None
  /\ SetRequest(r, None)
  /\ UNCHANGED <<vars, repositories, owner, sealed>>

\* It is refused: no batch, the wrong status, an error of the store.
Refused(r) ==
  /\ rreq[r] # None
  /\ breq[r] = None
  /\ SetRequest(r, None)
  /\ UNCHANGED <<vars, repositories, owner, sealed>>

Found(r) == rreq[r] # None /\ rreq[r].step = "found"

AddsBatch(r) ==
  /\ Found(r)
  /\ breq[r] = None
  /\ AddBatch
  /\ \A b \in BatchIds : batches'[b] # batches[b] => owner[b] = rreq[r].repo
  /\ SetRequest(r, None)
  /\ UNCHANGED <<repositories, owner, sealed>>

\* pause, resume or restart; a batch of another repository is not found.
ReadsBatch(r, b) ==
  /\ Found(r)
  /\ owner[b] = rreq[r].repo
  /\ PauseRead(r, b) \/ ResumeRead(r, b) \/ RestartRead(r, b)
  /\ UNCHANGED repoVars

WritesBatch(r) ==
  /\ WriteBatch(r)
  /\ SetRequest(r, None)
  /\ UNCHANGED <<repositories, owner, sealed>>
-----------------------------------------------------------------------------
(* Handlers of repositories *)

CreatesRepository ==
  /\ \E p \in RepositoryIds :
       /\ repositories[p] = "absent"
       /\ \A q \in RepositoryIds : q < p => repositories[q] # "absent"
       /\ repositories' = [repositories EXCEPT ![p] = "present"]
  /\ UNCHANGED <<vars, owner, rreq, sealed>>

\* Nobody else has a batch of p in hand.
Alone(r, p) ==
  /\ ~TickHolds(p)
  /\ \A q \in BatchRequests \ {r} : ~RequestHolds(q, p)

CountsUnpaused(r) ==
  /\ Found(r)
  /\ breq[r] = None
  /\ ~\E b \in BatchIds : owner[b] = rreq[r].repo /\ batches[b].status \in {"pending", "in_progress"}
  /\ SetRequest(r, [rreq[r] EXCEPT !.step = "delete", !.alone = Alone(r, rreq[r].repo)])
  /\ UNCHANGED <<vars, repositories, owner, sealed>>

\* deleteRepositoryHandler: RepositoryHasActiveBatches answers no.
CountsBatches(r) ==
  /\ Found(r)
  /\ breq[r] = None
  /\ ~HasActiveBatches(rreq[r].repo)
  /\ SetRequest(r, [rreq[r] EXCEPT !.step = "delete", !.alone = Alone(r, rreq[r].repo)])
  /\ UNCHANGED <<vars, repositories, owner, sealed>>

\* DeleteRepository; ErrNoDocuments if another request was first.
DeletesRepository(r) ==
  /\ rreq[r] # None
  /\ rreq[r].step = "delete"
  /\ LET p == rreq[r].repo
     IN  /\ repositories' = [repositories EXCEPT ![p] = "deleted"]
         /\ sealed' = IF rreq[r].alone THEN sealed \union {p} ELSE sealed
  /\ SetRequest(r, None)
  /\ UNCHANGED <<vars, owner>>

\* updateRepositoryHandler has read the document it will write.
EditsRepository(r) ==
  /\ Found(r)
  /\ breq[r] = None
  /\ SetRequest(r, [rreq[r] EXCEPT !.step = "edit"])
  /\ UNCHANGED <<vars, repositories, owner, sealed>>

UpsertsRepository(r) ==
  /\ rreq[r] # None
  /\ rreq[r].step = "edit"
  /\ repositories' = [repositories EXCEPT ![rreq[r].repo] = "present"]
  /\ SetRequest(r, None)
  /\ UNCHANGED <<vars, owner, sealed>>

\* UpdateRepository is a $set of the document read, and no upsert: nothing
\* matches when the repository is gone.
UpdatesRepository(r) ==
  /\ rreq[r] # None
  /\ rreq[r].step = "edit"
  /\ SetRequest(r, None)
  /\ UNCHANGED <<vars, repositories, owner, sealed>>
-----------------------------------------------------------------------------
(* The scheduler *)

RepositoryOfRun == repositories[owner[claim.batch]]

\* Worker.Process: GetBatch, then GetRepository.
FetchesBoth == WorkerFetch /\ RepositoryOfRun = "present"

FetchesNothing ==
  /\ WorkerFetchFails
  /\ RepositoryOfRun # "present" \/ ctxDone \/ faults' # faults

RepositoryTickStep ==
  /\ \/ TickListBatches \/ TickListAgents \/ TickNoAgent
     \/ ClaimBatch \/ ClaimBatchFails \/ ClaimAgent \/ ClaimAgentFails \/ Rollback
     \/ FetchesBoth \/ FetchesNothing \/ WorkerMarks
     \/ WorkerSucceeds \/ WorkerFails \/ WorkerStops
     \/ CompleteBatch \/ ReleaseAgent
  /\ UNCHANGED repoVars
-----------------------------------------------------------------------------
RepositoryInit ==
  /\ Init
  /\ repositories = [p \in RepositoryIds |-> "absent"]
  /\ owner \in [BatchIds -> RepositoryIds]
  /\ rreq = [r \in BatchRequests |-> None]
  /\ sealed = {}

RequestStep(r) ==
  \/ \E p \in RepositoryIds : LooksUp(r, p)
  \/ Refused(r)
  \/ AddsBatch(r) \/ WritesBatch(r)
  \/ \E b \in BatchIds : ReadsBatch(r, b)
  \/ CountsBatches(r) \/ DeletesRepository(r)
  \/ EditsRepository(r) \/ UpdatesRepository(r)

ProcessStep ==
  /\ \/ (SetDraining \/ CancelRun) /\ UNCHANGED rreq
     \/ ProcessRestart /\ rreq' = [r \in BatchRequests |-> None]
  /\ UNCHANGED <<repositories, owner, sealed>>

RepositoryNext ==
  \/ RepositoryTickStep
  \/ \E r \in BatchRequests : RequestStep(r)
  \/ CreatesRepository
  \/ CreateAgent /\ UNCHANGED repoVars
  \/ ProcessStep

RepositorySpec == RepositoryInit /\ [][RepositoryNext]_allVars

FairRepositorySpec == RepositorySpec /\ WF_allVars(RepositoryTickStep)
-----------------------------------------------------------------------------
(* Properties *)

\* Types of every variable; a batch request is one that found its repository.
RepositoryTypeOK ==
  /\ TypeOK
  /\ repositories \in [RepositoryIds -> {"absent", "present", "deleted"}]
  /\ owner \in [BatchIds -> RepositoryIds]
  /\ DOMAIN rreq = BatchRequests
  /\ \A r \in BatchRequests : rreq[r] # None => rreq[r] \in Request
  /\ \A r \in BatchRequests : breq[r] # None => Found(r)
  /\ sealed \subseteq RepositoryIds

\* README "deletion is blocked while batches are active", as far as it is true:
\* if nobody was at work in the repository when its batches were counted, and
\* nobody came before it was deleted, then none of its batches is active ever
\* after, and nothing runs there.
SealedIsQuiet ==
  \A p \in sealed :
    ~HasActiveBatches(p) /\ ~TickHolds(p) /\ \A r \in BatchRequests : ~RequestHolds(r, p)

\* A deleted repository stays deleted, although requests still hold copies of
\* its document that they will write.
DeletedForGood ==
  [][\A p \in RepositoryIds :
       repositories[p] = "deleted" => repositories'[p] = "deleted"]_allVars

\* A batch that lost its repository in spite of the check does not haunt the
\* scheduler: each try fails, and the batch ends failed, stays paused, or is
\* one that a late pause left with an item in progress that nobody executes.
Orphan(b) == batches[b].status # "absent" /\ repositories[owner[b]] = "deleted"
Abandoned(b) == pc = "idle" /\ HasItem(batches[b], "in_progress")
Undisturbed == faults = 0 /\ restarts = 0 /\ ~draining /\ ~ctxDone
OrphansSettle ==
  \A b \in BatchIds :
    Orphan(b) ~>
      \/ batches[b].status \in {"done", "failed", "paused"}
      \/ Abandoned(b)
      \/ \A a \in AgentIds : agents[a] \in {"absent", "deleted"}
      \/ ~Undisturbed
=============================================================================
