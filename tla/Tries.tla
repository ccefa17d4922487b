-------------------------------- MODULE Tries --------------------------------
(***************************************************************************)
(* Scheduler with a count of the tries that were really made.  The store's *)
(* attempts are a field of a document which Tick counts after the run, in  *)
(* its own copy, and which a failed write, a crash or another writer can   *)
(* keep from being stored.  tries only watches: every step here is a step  *)
(* of Scheduler.                                                           *)
(***************************************************************************)
EXTENDS Scheduler

VARIABLE
  tries   \* history: worker calls begun for each item since its batch's last restart

\* Tick raises activeRuns and calls the worker.
TryBegins(b, i) ==
  pc = "claim_agent" /\ pc' = "fetch" /\ claim.batch = b /\ claim.item = i

\* A restart request has put the failed item of batch b back.
BatchRestarted(b) ==
  \E r \in BatchRequests :
    /\ breq[r] # None /\ breq[r].op = "restart" /\ breq[r].batch = b
    /\ breq'[r] = None /\ batches'[b] # batches[b]

CountTries ==
  tries' = [b \in BatchIds |-> [i \in Items |->
              IF BatchRestarted(b) THEN 0
              ELSE IF TryBegins(b, i) THEN tries[b][i] + 1 ELSE tries[b][i]]]

TriesInit ==
  /\ Init
  /\ tries = [b \in BatchIds |-> [i \in Items |-> 0]]

TriesNext == Next /\ CountTries

TriesSpec == TriesInit /\ [][TriesNext]_<<vars, tries>>
-----------------------------------------------------------------------------
\* README "Retries per item are capped by YARALPHO_MAX_RETRIES": between two
\* restarts of its batch no item is tried more often, although a try is counted
\* only after it, by a write that may fail or never be made.  A pause or resume
\* that writes back a copy read before a try takes the count back, and a second
\* restart can: it is stated for one restart request at a time.
TriesAreCapped == \A b \in BatchIds, i \in Items : tries[b][i] <= MaxRetries
=============================================================================
