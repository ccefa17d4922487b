----------------------------- MODULE MemoryBus -----------------------------
(***************************************************************************)
(* The in-memory event bus as one session sees it: its subscriptions, the  *)
(* channel of each, and the run that publishes to them one event after the *)
(* other, under the three policies for slow consumers.                     *)
(*                                                                         *)
(* Closing a subscription takes two steps, the channel first and done      *)
(* afterwards; a publisher between the two sends on a closed channel and   *)
(* recovers from the panic.                                                *)
(***************************************************************************)
EXTENDS Naturals, Sequences, FiniteSets

CONSTANTS
  MaxSubscriptions,  \* bound: subscriptions made, numbered as they are made
  Configs            \* configurations the bus may be built with

ASSUME BusAssumption ==
  /\ MaxSubscriptions \in Nat
  /\ Configs \subseteq
       [SlowConsumerPolicy : {"block", "drop_latest", "drop_oldest"},
        BufferSize : Nat \ {0},
        MaxSubscribersPerSession : Nat,
        IdleTimeout : BOOLEAN]  \* whether there is one

VARIABLES
  config,     \* as it was built
  state,      \* of each subscription: none, open, cleaned (channel closed), done
  buffer,     \* its channel
  pub,        \* where Publish is
  event,      \* what it publishes
  snapshot,   \* the subscribers it found
  todo,       \* those it has not come to yet
  current,    \* the one it sends to, or 0
  cancelled   \* the publisher's context is done

subscriptionVars == <<state, buffer>>
publishVars == <<pub, event, snapshot, todo, current>>
busVars == <<config, subscriptionVars, publishVars, cancelled>>

Subscribers == 1..MaxSubscriptions
-----------------------------------------------------------------------------
(* Subscriptions *)

\* The session's bucket.
Open == {s \in Subscribers : state[s] = "open"}

\* No limit if it is 0.
AtLimit ==
  /\ config.MaxSubscribersPerSession > 0
  /\ Cardinality(Open) >= config.MaxSubscribersPerSession

Subscribe(s) ==
  /\ state[s] = "none"
  /\ ~AtLimit
  /\ state' = [state EXCEPT ![s] = "open"]
  /\ UNCHANGED <<buffer, config, publishVars, cancelled>>

\* cleanup, run once whoever closes: out of the bucket, channel closed.
Cleanup(s) ==
  /\ state[s] = "open"
  /\ state' = [state EXCEPT ![s] = "cleaned"]
  /\ UNCHANGED <<buffer, config, publishVars, cancelled>>

\* The rest of Close.
CloseDone(s) ==
  /\ state[s] = "cleaned"
  /\ state' = [state EXCEPT ![s] = "done"]
  /\ UNCHANGED <<buffer, config, publishVars, cancelled>>

\* A receive from the channel.
Receive(s) ==
  /\ buffer[s] # <<>>
  /\ buffer' = [buffer EXCEPT ![s] = Tail(@)]
  /\ UNCHANGED <<state, config, publishVars, cancelled>>
-----------------------------------------------------------------------------
(* Publish *)

PublishBegins(e) ==
  /\ pub = "idle"
  /\ event' = e
  /\ snapshot' = IF cancelled THEN {} ELSE Open
  /\ todo' = snapshot'
  /\ pub' = "next"
  /\ UNCHANGED <<current, config, subscriptionVars, cancelled>>

SkipClosed(s) ==
  /\ pub = "next"
  /\ s \in todo
  /\ state[s] = "done"
  /\ todo' = todo \ {s}
  /\ UNCHANGED <<pub, event, snapshot, current, config, subscriptionVars, cancelled>>

TrySubscriber(s) ==
  /\ pub = "next"
  /\ s \in todo
  /\ state[s] # "done"
  /\ todo' = todo \ {s}
  /\ pub' = "try"
  /\ current' = s
  /\ UNCHANGED <<event, snapshot, config, subscriptionVars, cancelled>>

Sending == pub \in {"try", "send"}
Full == Len(buffer[current]) = config.BufferSize

GoOn ==
  /\ pub' = "next"
  /\ current' = 0
  /\ UNCHANGED <<event, snapshot, todo, config, cancelled>>

Send ==
  /\ Sending
  /\ state[current] = "open"
  /\ ~Full
  /\ buffer' = [buffer EXCEPT ![current] = Append(@, event)]
  /\ GoOn
  /\ UNCHANGED state

\* A send on a closed channel, blocked in it or not, panics.
SendRecovers ==
  /\ Sending
  /\ state[current] # "open"
  /\ GoOn
  /\ UNCHANGED subscriptionVars

\* handleBlocking, or the last select of handleDropOldest.
SendCancelled ==
  /\ pub = "send" \/ (pub = "try" /\ config.SlowConsumerPolicy = "block")
  /\ cancelled
  /\ GoOn
  /\ UNCHANGED subscriptionVars

DropLatest ==
  /\ config.SlowConsumerPolicy = "drop_latest"
  /\ pub = "try"
  /\ state[current] = "open"
  /\ Full
  /\ GoOn
  /\ UNCHANGED subscriptionVars

FindsFull ==
  /\ config.SlowConsumerPolicy = "drop_oldest"
  /\ pub = "try"
  /\ state[current] = "open"
  /\ Full
  /\ pub' = "drop"
  /\ UNCHANGED <<event, snapshot, todo, current, config, subscriptionVars, cancelled>>

DropOldestOnly ==
  /\ pub = "drop"
  /\ buffer' = [buffer EXCEPT ![current] = Tail(@)]
  /\ GoOn
  /\ UNCHANGED state

\* The consumer may have emptied the channel meanwhile.
DropOldest ==
  /\ pub = "drop"
  /\ buffer' = [buffer EXCEPT ![current] = IF @ = <<>> THEN @ ELSE Tail(@)]
  /\ pub' = "send"
  /\ UNCHANGED <<state, event, snapshot, todo, current, config, cancelled>>

PublishEnds ==
  /\ pub = "next"
  /\ todo = {}
  /\ pub' = "idle"
  /\ snapshot' = {}
  /\ UNCHANGED <<event, todo, current, config, subscriptionVars, cancelled>>

PublishStep ==
  \/ \E s \in Subscribers : SkipClosed(s) \/ TrySubscriber(s)
  \/ Send \/ SendRecovers \/ SendCancelled
  \/ DropLatest \/ FindsFull \/ DropOldest
-----------------------------------------------------------------------------
BusInit ==
  /\ config \in Configs
  /\ state = [s \in Subscribers |-> "none"]
  /\ buffer = [s \in Subscribers |-> <<>>]
  /\ pub = "idle"
  /\ event = 0
  /\ snapshot = {}
  /\ todo = {}
  /\ current = 0
  /\ cancelled = FALSE

BusTypeOK ==
  /\ config \in Configs
  /\ state \in [Subscribers -> {"none", "open", "cleaned", "done"}]
  /\ buffer \in [Subscribers -> Seq(Nat)]
  /\ \A s \in Subscribers : Len(buffer[s]) <= config.BufferSize
  /\ pub \in {"idle", "next", "try", "drop", "send"}
  /\ event \in Nat
  /\ snapshot \subseteq Subscribers
  /\ todo \subseteq snapshot
  /\ IF pub \in {"idle", "next"} THEN current = 0 ELSE current \in snapshot
  /\ cancelled \in BOOLEAN
=============================================================================
