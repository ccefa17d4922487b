---------------------------- MODULE LiveStream -----------------------------
(***************************************************************************)
(* Events of a run on their way to the page that shows it: the run stores  *)
(* each event and then publishes it, runEventsLiveHandler subscribes,      *)
(* sends what the store has after the page's cursor and then what the bus  *)
(* brings, and the page merges envelopes and reconnects with its cursor.   *)
(*                                                                         *)
(* Connections of the page overlap: an old handler may still hold its      *)
(* subscription while the next one is at work.                             *)
(***************************************************************************)
EXTENDS MemoryBus

CONSTANTS
  MaxEvents,   \* bound: events of the run
  Clock,       \* the time that the run gives each event
  Resolution   \* clock units in the unit of time that the store keeps

Events == 1..MaxEvents

\* The clock is not set back during a run, and no event is of the zero time.
ASSUME StreamAssumption ==
  /\ MaxEvents \in Nat
  /\ Resolution \in Nat \ {0}
  /\ Clock \in [Events -> Nat]
  /\ \A n \in Events : Clock[n] >= Resolution
  /\ \A m, n \in Events : m <= n => Clock[m] <= Clock[n]

VARIABLES
  run,      \* the event loop of executeTask: emit, publish, publishing
  stored,   \* number of events in the store; the store has events 1..stored
  page,     \* new, loaded, open, stalled, closed (to reconnect), gone
  conn,     \* the page's last connection, 0 before the first
  cursor,   \* the page's cursor, a time
  shown,    \* events the page shows, with the time it has for each
  handler,  \* where the handler of each connection is
  position, \* its cursor
  listed    \* number of events it has listed and is sending

runVars == <<run, stored>>
pageVars == <<page, conn, cursor, shown>>
handlerVars == <<handler, position, listed>>
vars == <<busVars, runVars, pageVars, handlerVars>>

Conns == Subscribers

\* The time of an event on the bus, and what is left of it in the store.
Truncated(t) == t - (t % Resolution)
IngestedAt(n) == Clock[n]
StoredAt(n) == Truncated(IngestedAt(n))
-----------------------------------------------------------------------------
(* The run *)

\* The run may end after any event; then it stores no more.
StoreEvent ==
  /\ run = "emit"
  /\ stored < MaxEvents
  /\ ~cancelled
  /\ stored' = stored + 1
  /\ run' = "publish"
  /\ UNCHANGED <<busVars, pageVars, handlerVars>>

PublishAsync ==
  /\ run = "publish"
  /\ PublishBegins(stored)
  /\ run' = "emit"
  /\ UNCHANGED <<stored, pageVars, handlerVars>>

Publish ==
  /\ run = "publish"
  /\ PublishBegins(stored)
  /\ run' = "publishing"
  /\ UNCHANGED <<stored, pageVars, handlerVars>>

Publishing ==
  /\ PublishStep
  /\ UNCHANGED <<runVars, pageVars, handlerVars>>

Published ==
  /\ PublishEnds
  /\ run' = "emit"
  /\ UNCHANGED <<stored, pageVars, handlerVars>>

\* Its deadline, or the end of the service.
RunCancelled ==
  /\ ~cancelled
  /\ cancelled' = TRUE
  /\ UNCHANGED <<config, subscriptionVars, publishVars, runVars, pageVars, handlerVars>>
-----------------------------------------------------------------------------
(* runEventsLiveHandler *)

MoveTo(c, place) == handler' = [handler EXCEPT ![c] = place]

\* The handler is about to return; what it held is garbage.
Closing(c) ==
  /\ MoveTo(c, "closing")
  /\ position' = [position EXCEPT ![c] = 0]
  /\ listed' = [listed EXCEPT ![c] = 0]

Subscribes(c) ==
  /\ handler[c] = "start"
  /\ Subscribe(c)
  /\ MoveTo(c, "list")
  /\ UNCHANGED <<runVars, pageVars, position, listed>>

SubscribeFails(c) ==
  /\ handler[c] = "start"
  /\ AtLimit
  /\ MoveTo(c, "ended")
  /\ position' = [position EXCEPT ![c] = 0]
  /\ UNCHANGED <<busVars, runVars, pageVars, listed>>

Lists(c) ==
  /\ handler[c] = "list"
  /\ listed' = [listed EXCEPT ![c] = stored]
  /\ MoveTo(c, "backfill")
  /\ UNCHANGED <<busVars, runVars, pageVars, position>>

ListFailsIgnored(c) ==
  /\ handler[c] = "list"
  /\ MoveTo(c, "live")
  /\ UNCHANGED <<busVars, runVars, pageVars, position, listed>>

ListFails(c) ==
  /\ handler[c] = "list"
  /\ Closing(c)
  /\ UNCHANGED <<busVars, runVars, pageVars>>

\* Listed events after the handler's cursor.
Backlog(c) == {n \in 1..listed[c] : StoredAt(n) > position[c]}

\* mergeLiveEnvelope
Merge(e) ==
  /\ shown' = IF \E d \in shown : d.at = e.at THEN shown ELSE shown \union {e}
  /\ cursor' = e.at

Connected(c) == c = conn /\ page \in {"open", "stalled"}
Stalled(c) == c = conn /\ page = "stalled"

\* A write to a connection that is gone may succeed, and is lost.
WriteEvent(c, n, at) ==
  /\ ~Stalled(c)
  /\ position' = [position EXCEPT ![c] = at]
  /\ IF Connected(c) THEN Merge([n |-> n, at |-> at]) ELSE UNCHANGED <<cursor, shown>>
  /\ UNCHANGED <<page, conn>>

\* The sort keeps no order among equal times.
Backfills(c) ==
  /\ handler[c] = "backfill"
  /\ \E n \in Backlog(c) :
       /\ \A m \in Backlog(c) : StoredAt(n) <= StoredAt(m)
       /\ WriteEvent(c, n, StoredAt(n))
  /\ UNCHANGED <<busVars, runVars, handler, listed>>

BackfillEnds(c) ==
  /\ handler[c] = "backfill"
  /\ Backlog(c) = {}
  /\ MoveTo(c, "live")
  /\ listed' = [listed EXCEPT ![c] = 0]
  /\ UNCHANGED <<busVars, runVars, pageVars, position>>

\* The keys seen decide nothing more: none of them is later than the cursor.
Skips(c) ==
  /\ handler[c] = "live"
  /\ Receive(c)
  /\ IngestedAt(Head(buffer[c])) <= position[c]
  /\ UNCHANGED <<runVars, pageVars, handlerVars>>

ForwardsAll(c) ==
  /\ handler[c] = "live"
  /\ Receive(c)
  /\ WriteEvent(c, Head(buffer[c]), IngestedAt(Head(buffer[c])))
  /\ UNCHANGED <<runVars, handler, listed>>

Forwards(c) ==
  /\ handler[c] = "live"
  /\ Receive(c)
  /\ IngestedAt(Head(buffer[c])) > position[c]
  /\ WriteEvent(c, Head(buffer[c]), IngestedAt(Head(buffer[c])))
  /\ UNCHANGED <<runVars, handler, listed>>

HasEvent(c) ==
  \/ handler[c] = "backfill" /\ Backlog(c) # {}
  \/ handler[c] = "live" /\ buffer[c] # <<>>

WriteFailsOnError(c) ==
  /\ HasEvent(c)
  /\ ~Connected(c)
  /\ Closing(c)
  /\ UNCHANGED <<busVars, runVars, pageVars>>

\* The link is dead, or the page has not read until the write's deadline.
WriteFails(c) ==
  /\ HasEvent(c)
  /\ ~Connected(c) \/ Stalled(c)
  /\ Closing(c)
  /\ UNCHANGED <<busVars, runVars, pageVars>>

\* Read error, close frame, failed heartbeat or missing pong.
ReadFails(c) ==
  /\ handler[c] = "live"
  /\ ~Connected(c) \/ Stalled(c)
  /\ Closing(c)
  /\ UNCHANGED <<busVars, runVars, pageVars>>

SubscriptionEnds(c) ==
  /\ handler[c] = "live"
  /\ state[c] # "open"
  /\ buffer[c] = <<>>
  /\ Closing(c)
  /\ UNCHANGED <<busVars, runVars, pageVars>>

\* The deferred Close or watchContext, whichever is first.
Unsubscribes(c) ==
  /\ handler[c] = "closing"
  /\ Cleanup(c)
  /\ UNCHANGED <<runVars, pageVars, handlerVars>>

\* An idle timeout is longer than a handler takes to come to its loop.
IdleCloses(c) ==
  /\ config.IdleTimeout
  /\ handler[c] = "live"
  /\ Cleanup(c)
  /\ UNCHANGED <<runVars, pageVars, handlerVars>>

\* By the handler or, for an idle subscription, the timer.
FinishesClose(c) ==
  /\ CloseDone(c)
  /\ UNCHANGED <<runVars, pageVars, handlerVars>>

\* Close has returned.
HandlerEnds(c) ==
  /\ handler[c] = "closing"
  /\ state[c] = "done"
  /\ MoveTo(c, "ended")
  /\ buffer' = [buffer EXCEPT ![c] = <<>>]
  /\ UNCHANGED <<state, config, publishVars, cancelled, runVars, pageVars, position, listed>>
-----------------------------------------------------------------------------
(* The page and the network *)

\* The run's events are fetched, then the stream is opened.
PageLoads ==
  /\ page = "new"
  /\ page' = "loaded"
  /\ shown' = {[n |-> n, at |-> StoredAt(n)] : n \in 1..stored}
  /\ cursor' = IF stored = 0 THEN 0 ELSE StoredAt(stored)
  /\ UNCHANGED <<busVars, runVars, conn, handlerVars>>

ConnectsOnce ==
  /\ page = "loaded"
  /\ conn < MaxSubscriptions
  /\ conn' = conn + 1
  /\ page' = "open"
  /\ position' = [position EXCEPT ![conn'] = cursor]
  /\ MoveTo(conn', "start")
  /\ UNCHANGED <<busVars, runVars, cursor, shown, listed>>

Connects ==
  /\ page \in {"loaded", "closed"}
  /\ conn < MaxSubscriptions
  /\ conn' = conn + 1
  /\ page' = "open"
  /\ position' = [position EXCEPT ![conn'] = cursor]
  /\ MoveTo(conn', "start")
  /\ UNCHANGED <<busVars, runVars, cursor, shown, listed>>

PageGoes(to) ==
  /\ page \in {"open", "stalled"}
  /\ page' = to
  /\ UNCHANGED <<busVars, runVars, conn, cursor, shown, handlerVars>>

\* The server closed the connection, or it broke.
PageIsClosed == PageGoes("closed") /\ handler[conn] = "ended"
LinkBreaks == PageGoes("closed")

\* In the background it stops reading and keeps the connection.
PageStalls == page = "open" /\ PageGoes("stalled")
PageLeaves == PageGoes("gone")
-----------------------------------------------------------------------------
Init ==
  /\ BusInit
  /\ run = "emit"
  /\ stored = 0
  /\ page = "new"
  /\ conn = 0
  /\ cursor = 0
  /\ shown = {}
  /\ handler = [c \in Conns |-> "none"]
  /\ position = [c \in Conns |-> 0]
  /\ listed = [c \in Conns |-> 0]

RunStep == Publish \/ Publishing \/ Published

HandlerStep(c) ==
  \/ Subscribes(c) \/ SubscribeFails(c) \/ Lists(c) \/ ListFails(c)
  \/ Backfills(c) \/ BackfillEnds(c) \/ Skips(c) \/ Forwards(c)
  \/ WriteFails(c) \/ ReadFails(c) \/ SubscriptionEnds(c)
  \/ Unsubscribes(c) \/ FinishesClose(c) \/ HandlerEnds(c)

PageStep == PageLoads \/ Connects \/ PageIsClosed

Next ==
  \/ StoreEvent \/ RunStep \/ RunCancelled
  \/ \E c \in Conns : HandlerStep(c) \/ IdleCloses(c)
  \/ PageStep \/ LinkBreaks \/ PageStalls \/ PageLeaves

Spec == Init /\ [][Next]_vars

\* Publish and the handlers go on, and a page that has not stalled reads.
FairSpec ==
  /\ Spec
  /\ WF_vars(RunStep)
  /\ \A c \in Conns : WF_vars(HandlerStep(c))
  /\ WF_vars(PageStep)
-----------------------------------------------------------------------------
(* Properties *)

Copies == [n : Events, at : Nat]

\* Types of every variable.
TypeOK ==
  /\ BusTypeOK
  /\ run \in {"emit", "publish", "publishing"}
  /\ run # "publishing" => pub = "idle"
  /\ stored \in 0..MaxEvents
  /\ page \in {"new", "loaded", "open", "stalled", "closed", "gone"}
  /\ conn \in 0..MaxSubscriptions
  /\ cursor \in Nat
  /\ shown \subseteq Copies
  /\ handler \in [Conns -> {"none", "start", "list", "backfill", "live", "closing", "ended"}]
  /\ position \in [Conns -> Nat]
  /\ listed \in [Conns -> 0..MaxEvents]

\* The page shows the event, or another one with the same time in the store.
ShowsTime(n) == \E e \in shown : StoredAt(e.n) = StoredAt(n)

\* Under the blocking policy the page lacks no time that the store knows up to
\* its cursor, and so no event that has its time for itself: what lies behind
\* the cursor is never sent again, whatever connections broke in between.
NothingBehindCursor ==
  config.SlowConsumerPolicy = "block" =>
    \A n \in 1..stored : page # "new" /\ StoredAt(n) <= cursor => ShowsTime(n)

\* The cursor of a page never moves back, whatever the store's resolution and
\* whichever handler wrote last: what a page reconnects with covers all that it
\* was sent, and "ordered" (docs/plans/2026-02-11-live-events-last-ingested.md)
\* holds across connections.
CursorAdvances == [][cursor <= cursor']_vars

\* A publish that is over has left its event with everyone it found, in the
\* channel or behind the handler's cursor, unless the policy drops the latest.
LatestSurvives ==
  config.SlowConsumerPolicy # "drop_latest" /\ ~cancelled /\ pub = "next" /\ todo = {} =>
    \A s \in snapshot \intersect Open : handler[s] # "closing" =>
      \/ position[s] >= IngestedAt(event)
      \/ \E i \in DOMAIN buffer[s] : buffer[s][i] = event

\* No subscriber, not even one whose page stopped reading, blocks the run
\* for good.
PublishReturns == []<>(pub = "idle")

\* A page that reads and may still reconnect shows every event in the end, one
\* of each time in the store.
CaughtUp == \A n \in 1..stored : ShowsTime(n)
CannotCatchUp ==
  \/ cancelled
  \/ page \in {"stalled", "gone"}
  \/ page = "closed" /\ conn = MaxSubscriptions
PageCatchesUp ==
  config.SlowConsumerPolicy = "block" => []<>(CaughtUp \/ CannotCatchUp)
=============================================================================
