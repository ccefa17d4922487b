---------------------------- MODULE ItemLifecycle ----------------------------
(***************************************************************************)
(* What the runner promises of the items of its batches: each is tried at  *)
(* most MaxRetries times, items of a batch are tried in order and one at a *)
(* time, and an item that succeeded is final.  Nothing of agents, copies,  *)
(* faults or processes is left; Scheduler is shown to implement this.      *)
(***************************************************************************)
EXTENDS Integers

CONSTANTS
  BatchIds,    \* the batches
  NumItems,    \* items in each batch
  MaxRetries   \* tries of an item before it fails

VARIABLE items  \* the status and the attempts of every item

Items == 1..NumItems

State(b, i, s) == items[b][i].status = s

\* Item i of batch b goes from status s to status t, now with n attempts.
Move(b, i, s, t, n) ==
  /\ State(b, i, s)
  /\ items' = [items EXCEPT ![b][i] = [status |-> t, attempts |-> n]]

\* A try starts only when the items before it are done and no other is tried.
Start(b, i) ==
  /\ \A j \in Items : j < i => State(b, j, "done")
  /\ \A j \in Items : ~State(b, j, "in_progress")
  /\ Move(b, i, "pending", "in_progress", items[b][i].attempts)

\* The try is taken back before it ran: no agent could be claimed for it.
Withdraw(b, i) == Move(b, i, "in_progress", "pending", items[b][i].attempts)

Succeed(b, i) == Move(b, i, "in_progress", "done", items[b][i].attempts + 1)

Retry(b, i) ==
  /\ items[b][i].attempts + 1 < MaxRetries
  /\ Move(b, i, "in_progress", "pending", items[b][i].attempts + 1)

GiveUp(b, i) ==
  /\ items[b][i].attempts + 1 = MaxRetries
  /\ Move(b, i, "in_progress", "failed", MaxRetries)

Restart(b, i) == Move(b, i, "failed", "pending", 0)

Init ==
  items = [b \in BatchIds |-> [i \in Items |-> [status |-> "pending", attempts |-> 0]]]

Next ==
  \E b \in BatchIds, i \in Items :
    \/ Start(b, i) \/ Withdraw(b, i)
    \/ Succeed(b, i) \/ Retry(b, i) \/ GiveUp(b, i)
    \/ Restart(b, i)

Spec == Init /\ [][Next]_items
=============================================================================
