-------------------------- MODULE LiveStreamProofs --------------------------
(***************************************************************************)
(* Proofs about LiveStream, for any number of events and connections, any  *)
(* size of the channels and any set of configurations of the bus.          *)
(***************************************************************************)
EXTENDS LiveStream, TLAPS

Working == {"list", "backfill", "live"}

\* What is buffered, listed and being published is in the store.
InStore ==
  /\ \A s \in Conns : \A i \in 1..Len(buffer[s]) : buffer[s][i] \in 1..stored
  /\ \A c \in Conns : listed[c] \in 0..stored
  /\ run = "publish" => stored > 0
  /\ run = "publishing" <=> pub # "idle"
  /\ pub # "idle" => event = stored /\ stored > 0

\* Where connections, handlers, subscriptions and the publisher can be together.
Places ==
  /\ \A c \in Conns : handler[c] = "none" <=> c > conn
  /\ \A c \in Conns : handler[c] \in {"none", "start"} => state[c] = "none"
  /\ \A c \in Conns : handler[c] \in Working \union {"closing"} => state[c] # "none"
  /\ \A c \in Conns : handler[c] = "ended" => state[c] \in {"none", "done"}
  /\ \A c \in Conns : state[c] = "none" => buffer[c] = <<>>
  /\ \A s \in snapshot : state[s] # "none"
  /\ current \notin todo
  /\ pub = "drop" => config.SlowConsumerPolicy = "drop_oldest"

\* The page and the handler it is connected to have the same cursor.
SameCursor ==
  /\ page \in {"new", "loaded"} => conn = 0
  /\ page = "new" => cursor = 0 /\ shown = {}
  /\ page \in {"open", "stalled"} =>
       /\ conn > 0
       /\ handler[conn] \in Working \union {"start"} => position[conn] = cursor

SInv == TypeOK /\ InStore /\ Places /\ SameCursor

\* Event e is in the channel of s, or its handler is past it.
Kept(s, e) ==
  position[s] >= IngestedAt(e) \/ \E i \in 1..Len(buffer[s]) : buffer[s][i] = e

\* Of the subscribers found, those that the publisher is done with have the event.
Delivered ==
  config.SlowConsumerPolicy # "drop_latest" /\ ~cancelled /\ pub # "idle" =>
    \A s \in (snapshot \intersect Open) \ todo :
      s # current /\ handler[s] # "closing" => Kept(s, event)

\* Handler c has sent event n, or is going to before it turns to its channel.
Covered(c, n) ==
  \/ handler[c] = "list" /\ n <= stored
  \/ handler[c] = "backfill" /\ n <= listed[c]
  \/ n \in Events /\ StoredAt(n) <= position[c]

Covers(c, e) == \A n \in 1..e : Covered(c, n)

\* The publisher has still to send the last stored event to c.
Due(c) ==
  \/ run = "publish"
  \/ run = "publishing" /\ (c \in todo \/ c = current)

\* If the next event that c receives is e, it has not missed one.
Joins(c, e) ==
  IF buffer[c] = <<>> THEN Covers(c, e - 1) ELSE buffer[c][Len(buffer[c])] = e - 1

NoGap(c) ==
  /\ \A i \in 1..Len(buffer[c]) - 1 : buffer[c][i + 1] = buffer[c][i] + 1
  /\ buffer[c] # <<>> => Covers(c, Head(buffer[c]) - 1)
  /\ state[c] = "open" /\ Due(c) => Joins(c, stored)
  /\ state[c] = "open" /\ ~Due(c) /\ ~cancelled => Joins(c, stored + 1)

Gapless == \A c \in Conns : handler[c] \in Working => NoGap(c)

\* What the page has.
PageComplete ==
  /\ \A d \in shown : d.n \in 1..stored /\ Truncated(d.at) = StoredAt(d.n)
  /\ IF stored = 0 THEN cursor = 0 ELSE cursor <= IngestedAt(stored)
  /\ NothingBehindCursor

\* With a bus that drops nothing.
Complete == config.SlowConsumerPolicy = "block" => Gapless /\ PageComplete
-----------------------------------------------------------------------------
(* Times, channels and the bus *)

\* Division by the store's unit of time.
LEMMA DivisionFacts ==
  ASSUME NEW t \in Nat
  PROVE  /\ t \div Resolution \in Nat
         /\ t % Resolution \in 0..(Resolution - 1)
         /\ t = Resolution * (t \div Resolution) + (t % Resolution)
BY StreamAssumption

LEMMA ProductFacts ==
  ASSUME NEW k \in Nat, k > 0
  PROVE  Resolution * k \in Nat /\ Resolution * k >= Resolution
BY StreamAssumption

\* A time that lies between another and what the store keeps of that is kept as
\* the same.
LEMMA SameTruncated ==
  ASSUME NEW t \in Nat, NEW u \in Nat, t <= u, Truncated(u) <= t
  PROVE  Truncated(t) = Truncated(u)
<1> DEFINE q == t \div Resolution
           p == u \div Resolution
           x == t % Resolution
           y == u % Resolution
<1>1. /\ q \in Nat /\ p \in Nat
      /\ x \in 0..(Resolution - 1) /\ y \in 0..(Resolution - 1)
      /\ t = Resolution * q + x /\ u = Resolution * p + y
      /\ Resolution \in Nat
  BY DivisionFacts, StreamAssumption
<1>2. u - y <= t
  BY DEF Truncated
<1> SUFFICES t - x = u - y
  BY DEF Truncated
<1> HIDE DEF q, p, x, y
<1>3. Resolution * q \in Nat /\ Resolution * p \in Nat
  BY <1>1
<1>4. CASE p > q
  <2>1. /\ Resolution * p = Resolution * q + Resolution * (p - q)
        /\ p - q \in Nat /\ p - q > 0
    BY <1>1, <1>4
  <2>2. Resolution * (p - q) \in Nat /\ Resolution * (p - q) >= Resolution
    BY <2>1, ProductFacts
  <2> QED  BY <1>1, <1>2, <1>3, <2>1, <2>2
<1>5. CASE p < q
  <2>1. /\ Resolution * q = Resolution * p + Resolution * (q - p)
        /\ q - p \in Nat /\ q - p > 0
    BY <1>1, <1>5
  <2>2. Resolution * (q - p) \in Nat /\ Resolution * (q - p) >= Resolution
    BY <2>1, ProductFacts
  <2> QED  BY <1>1, <1>2, <1>3, <2>1, <2>2
<1> QED  BY <1>1, <1>4, <1>5

\* The store's copy of a time is a time that is not later.
LEMMA TimeTypes ==
  ASSUME NEW n \in Events
  PROVE  /\ IngestedAt(n) \in Nat
         /\ StoredAt(n) \in Nat
         /\ 0 < StoredAt(n) /\ StoredAt(n) <= IngestedAt(n)
<1>1. IngestedAt(n) \in Nat /\ IngestedAt(n) >= Resolution /\ Resolution \in Nat
  BY StreamAssumption DEF IngestedAt
<1>2. IngestedAt(n) % Resolution \in 0..(Resolution - 1)
  BY <1>1, DivisionFacts
<1> QED  BY <1>1, <1>2 DEF StoredAt, Truncated

\* A later event has a later time, or the same.
LEMMA TimesGrow ==
  ASSUME NEW m \in Events, NEW n \in Events, m <= n
  PROVE  IngestedAt(m) <= IngestedAt(n)
BY StreamAssumption DEF IngestedAt

\* A time between those of an event belongs to the event.
LEMMA TimeOfEvent ==
  ASSUME NEW n \in Events, NEW t \in Nat, StoredAt(n) <= t, t <= IngestedAt(n)
  PROVE  Truncated(t) = StoredAt(n)
BY TimeTypes, SameTruncated DEF StoredAt

\* What is sent to a channel and received from it.
LEMMA AppendFacts ==
  ASSUME NEW X, NEW s \in Seq(X), NEW e \in X
  PROVE  /\ Append(s, e) \in Seq(X)
         /\ Len(s) \in Nat /\ Len(Append(s, e)) = Len(s) + 1
         /\ \A i \in 1..Len(s) : Append(s, e)[i] = s[i]
         /\ Append(s, e)[Len(s) + 1] = e
OBVIOUS

\* The channel after a receive.
LEMMA TailFacts ==
  ASSUME NEW X, NEW s \in Seq(X), s # <<>>
  PROVE  /\ Tail(s) \in Seq(X)
         /\ Len(s) \in Nat \ {0} /\ Len(Tail(s)) = Len(s) - 1
         /\ Head(s) = s[1] /\ s[1] \in X
         /\ \A i \in 1..(Len(s) - 1) : Tail(s)[i] = s[i + 1]
OBVIOUS

\* An empty channel.
LEMMA EmptyFacts == \A X : <<>> \in Seq(X) /\ Len(<<>>) = 0
OBVIOUS

\* A channel with nothing in it is the empty one.
LEMMA NothingLeft ==
  ASSUME NEW X, NEW s \in Seq(X), Len(s) = 0
  PROVE  s = <<>>
OBVIOUS

\* The ways in which a step changes channel s.
ChannelStep(s) ==
  \/ buffer'[s] = buffer[s]
  \/ /\ s = current /\ Sending /\ ~Full
     /\ buffer'[s] = Append(buffer[s], event)
  \/ buffer[s] # <<>> /\ buffer'[s] = Tail(buffer[s])
  \/ state[s] = "done" /\ buffer'[s] = <<>>

BufferTypeOK ==
  /\ buffer \in [Subscribers -> Seq(Nat)]
  /\ \A s \in Subscribers : Len(buffer[s]) <= config.BufferSize

\* A step does not change which channels there are.
SameChannels == buffer' = [s \in Subscribers |-> buffer'[s]]

\* No channel gets longer than its buffer.
LEMMA ChannelTypes ==
  ASSUME BusTypeOK, UNCHANGED config, SameChannels, \A s \in Subscribers : ChannelStep(s)
  PROVE  BufferTypeOK'
<1> SUFFICES ASSUME NEW s \in Subscribers
             PROVE  buffer'[s] \in Seq(Nat) /\ Len(buffer'[s]) <= config.BufferSize
  BY DEF BufferTypeOK, SameChannels
<1>1. /\ buffer[s] \in Seq(Nat) /\ Len(buffer[s]) <= config.BufferSize
      /\ event \in Nat /\ config.BufferSize \in Nat \ {0}
  BY BusAssumption DEF BusTypeOK
<1>2. CASE s = current /\ ~Full /\ buffer'[s] = Append(buffer[s], event)
  BY <1>1, <1>2, AppendFacts DEF Full
<1>3. CASE buffer[s] # <<>> /\ buffer'[s] = Tail(buffer[s])
  BY <1>1, <1>3, TailFacts
<1>4. CASE buffer'[s] = <<>>
  BY <1>1, <1>4, EmptyFacts
<1> QED  BY <1>1, <1>2, <1>3, <1>4 DEF ChannelStep

\* Every step changes the channels in these ways.
LEMMA ChannelsChange ==
  ASSUME TypeOK, [Next]_vars
  PROVE  /\ UNCHANGED config
         /\ SameChannels
         /\ \A s \in Subscribers : ChannelStep(s)
<1> USE DEF TypeOK, BusTypeOK, busVars, subscriptionVars, SameChannels
<1>0. CASE UNCHANGED <<config, buffer>>
  BY <1>0 DEF ChannelStep
<1>1. ASSUME NEW c \in Conns, HandlerStep(c) \/ IdleCloses(c)
      PROVE  /\ UNCHANGED config
             /\ SameChannels
             /\ \A s \in Subscribers : ChannelStep(s)
  <2>1. CASE Receive(c)
    BY <2>1 DEF Receive, ChannelStep, Conns
  <2>2. CASE HandlerEnds(c)
    BY <2>2 DEF HandlerEnds, ChannelStep, Conns
  <2> QED
    BY <1>0, <1>1, <2>1, <2>2
       DEF HandlerStep, IdleCloses, Subscribes, SubscribeFails, Lists, ListFails, Backfills,
           BackfillEnds, Skips, Forwards, WriteFails, ReadFails, SubscriptionEnds,
           Unsubscribes, FinishesClose, Subscribe, Cleanup, CloseDone
<1>2. CASE PublishStep
  <2>1. CASE Send
    BY <2>1 DEF Send, GoOn, ChannelStep
  <2>2. CASE DropOldest
    BY <2>2 DEF DropOldest, ChannelStep
  <2> QED
    BY <1>0, <1>2, <2>1, <2>2
       DEF PublishStep, SkipClosed, TrySubscriber, SendRecovers, SendCancelled, DropLatest,
           FindsFull, GoOn
<1>3. CASE StoreEvent \/ Publish \/ Published \/ RunCancelled \/ PageStep \/ LinkBreaks
           \/ PageStalls \/ PageLeaves \/ UNCHANGED vars
  BY <1>0, <1>3
     DEF StoreEvent, Publish, PublishBegins, Published, PublishEnds, RunCancelled, PageStep,
         PageLoads, Connects, PageIsClosed, LinkBreaks, PageStalls, PageLeaves, PageGoes, vars
<1> QED
  BY <1>1, <1>2, <1>3 DEF Next, RunStep, Publishing
-----------------------------------------------------------------------------
(* Types *)

PublisherTypeOK ==
  /\ config \in Configs
  /\ state \in [Subscribers -> {"none", "open", "cleaned", "done"}]
  /\ pub \in {"idle", "next", "try", "drop", "send"}
  /\ event \in Nat
  /\ snapshot \subseteq Subscribers
  /\ todo \subseteq snapshot
  /\ IF pub \in {"idle", "next"} THEN current = 0 ELSE current \in snapshot
  /\ cancelled \in BOOLEAN

\* An event sent to the page is one of the run's.
LEMMA WriteTypes ==
  ASSUME TypeOK, NEW c \in Conns, NEW n \in Events, NEW at \in Nat, WriteEvent(c, n, at)
  PROVE  /\ cursor' \in Nat /\ shown' \subseteq Copies
         /\ position' \in [Conns -> Nat] /\ UNCHANGED <<page, conn>>
<1>1. [n |-> n, at |-> at] \in Copies
  BY DEF Copies
<1> QED  BY <1>1 DEF WriteEvent, Merge, TypeOK

\* Types of what the bus and its publisher keep.
LEMMA PublisherTypes ==
  ASSUME TypeOK, [Next]_vars
  PROVE  PublisherTypeOK'
<1> USE DEF TypeOK, BusTypeOK, PublisherTypeOK, busVars, subscriptionVars, publishVars
<1>1. ASSUME NEW c \in Conns, HandlerStep(c) \/ IdleCloses(c) PROVE PublisherTypeOK'
  BY <1>1 DEF HandlerStep, IdleCloses, Subscribes, SubscribeFails, Lists, ListFails, Backfills,
     BackfillEnds, Skips, Forwards, WriteFails, ReadFails, SubscriptionEnds, Unsubscribes,
     FinishesClose, HandlerEnds, Subscribe, Cleanup, CloseDone, Receive, Conns
<1>2. CASE PublishStep
  BY <1>2 DEF PublishStep, SkipClosed, TrySubscriber, Send, SendRecovers, SendCancelled,
     DropLatest, FindsFull, DropOldest, GoOn, Sending
<1>3. CASE Publish
  <2>1. event' \in Nat
    BY <1>3, StreamAssumption DEF Publish, PublishBegins
  <2>2. snapshot' \subseteq Subscribers /\ todo' = snapshot'
    BY <1>3 DEF Publish, PublishBegins, Open
  <2> QED  BY <1>3, <2>1, <2>2 DEF Publish, PublishBegins
<1>4. CASE Published
  BY <1>4 DEF Published, PublishEnds
<1>5. CASE StoreEvent \/ RunCancelled \/ PageStep \/ LinkBreaks \/ PageStalls \/ PageLeaves
           \/ UNCHANGED vars
  BY <1>5 DEF StoreEvent, RunCancelled, PageStep, PageLoads, Connects, PageIsClosed, LinkBreaks,
     PageStalls, PageLeaves, PageGoes, vars
<1> QED  BY <1>1, <1>2, <1>3, <1>4, <1>5 DEF Next, RunStep, Publishing

\* Every step keeps the types; what a handler sends is an event of the run
\* because everything buffered and listed is in the store.
LEMMA TypeStep == TypeOK /\ InStore /\ [Next]_vars => TypeOK'
<1> SUFFICES ASSUME TypeOK, InStore, [Next]_vars PROVE TypeOK'
  OBVIOUS
<1> DEFINE OwnTypeOK ==
      /\ run \in {"emit", "publish", "publishing"}
      /\ run # "publishing" => pub = "idle"
      /\ stored \in 0..MaxEvents
      /\ page \in {"new", "loaded", "open", "stalled", "closed", "gone"}
      /\ conn \in 0..MaxSubscriptions
      /\ cursor \in Nat
      /\ shown \subseteq Copies
      /\ handler \in [Conns -> {"none", "start", "list", "backfill", "live", "closing", "ended"}]
      /\ position \in [Conns -> Nat]
      /\ listed \in [Conns -> 0..MaxEvents]
<1>0. OwnTypeOK' => TypeOK'
  BY PublisherTypes, ChannelsChange, ChannelTypes
     DEF TypeOK, BusTypeOK, PublisherTypeOK, BufferTypeOK
<1> USE DEF TypeOK, runVars, pageVars, handlerVars
<1>1. MaxEvents \in Nat /\ 0 \in Nat /\ stored \in Nat /\ 0 \in 0..MaxEvents
  BY StreamAssumption
<1>2. ASSUME NEW c \in Conns,
             \/ Subscribes(c) \/ SubscribeFails(c) \/ Lists(c) \/ ListFails(c)
             \/ BackfillEnds(c) \/ Skips(c) \/ WriteFails(c) \/ ReadFails(c)
             \/ SubscriptionEnds(c) \/ Unsubscribes(c) \/ FinishesClose(c) \/ HandlerEnds(c)
             \/ IdleCloses(c)
      PROVE  OwnTypeOK'
  BY <1>1, <1>2
     DEF Subscribes, SubscribeFails, Lists, ListFails, BackfillEnds, Skips, WriteFails,
         ReadFails, SubscriptionEnds, Unsubscribes, FinishesClose, HandlerEnds, IdleCloses,
         Subscribe, Cleanup, CloseDone, Receive, MoveTo, Closing, publishVars, busVars
<1>3. ASSUME NEW c \in Conns, Backfills(c) PROVE OwnTypeOK'
  <2>1. PICK n \in Backlog(c) : WriteEvent(c, n, StoredAt(n))
    BY <1>3 DEF Backfills
  <2>2. n \in Events
    BY <1>1, <2>1 DEF Backlog, Events
  <2>3. /\ cursor' \in Nat /\ shown' \subseteq Copies
        /\ position' \in [Conns -> Nat] /\ UNCHANGED <<page, conn>>
    BY <2>1, <2>2, TimeTypes, WriteTypes
  <2> QED  BY <1>3, <2>3 DEF Backfills, publishVars, busVars
<1>4. ASSUME NEW c \in Conns, Forwards(c) PROVE OwnTypeOK'
  <2>1. WriteEvent(c, Head(buffer[c]), IngestedAt(Head(buffer[c]))) /\ buffer[c] # <<>>
    BY <1>4 DEF Forwards, Receive
  <2>2. buffer[c] \in Seq(Nat)
    BY DEF BusTypeOK, Conns
  <2>3. Head(buffer[c]) = buffer[c][1] /\ 1 \in 1..Len(buffer[c])
    BY <2>1, <2>2, TailFacts
  <2>4. Head(buffer[c]) \in Events
    BY <1>1, <2>3 DEF InStore, Events
  <2>5. /\ cursor' \in Nat /\ shown' \subseteq Copies
        /\ position' \in [Conns -> Nat] /\ UNCHANGED <<page, conn>>
    BY <2>1, <2>4, TimeTypes, WriteTypes
  <2> QED  BY <1>4, <2>5 DEF Forwards, Receive, publishVars
<1>5. ASSUME StoreEvent \/ Publish \/ Publishing \/ Published \/ RunCancelled
      PROVE  OwnTypeOK'
  BY <1>1, <1>5
     DEF StoreEvent, Publish, PublishBegins, Publishing, PublishStep, SkipClosed,
         TrySubscriber, Send, SendRecovers, SendCancelled, DropLatest, FindsFull, DropOldest,
         GoOn, Sending, InStore, Published, PublishEnds, RunCancelled, publishVars, busVars
<1>6. ASSUME PageLoads PROVE OwnTypeOK'
  <2>1. \A n \in 1..stored : n \in Events
    BY <1>1 DEF Events
  <2>2. shown' \subseteq Copies
    BY <1>6, <2>1, TimeTypes DEF PageLoads, Copies
  <2>3. cursor' \in Nat
    BY <1>1, <1>6, <2>1, TimeTypes DEF PageLoads
  <2> QED  BY <1>6, <2>2, <2>3 DEF PageLoads, publishVars, busVars
<1>7. ASSUME Connects PROVE OwnTypeOK'
  <2>1. conn' \in 0..MaxSubscriptions
    BY <1>7, BusAssumption DEF Connects
  <2> QED  BY <1>7, <2>1 DEF Connects, MoveTo, publishVars, busVars
<1>8. ASSUME PageIsClosed \/ LinkBreaks \/ PageStalls \/ PageLeaves \/ UNCHANGED vars
      PROVE  OwnTypeOK'
  BY <1>8 DEF PageIsClosed, LinkBreaks, PageStalls, PageLeaves, PageGoes, publishVars, busVars, vars
<1> QED
  BY <1>0, <1>2, <1>3, <1>4, <1>5, <1>6, <1>7, <1>8
     DEF Next, RunStep, HandlerStep, PageStep

\* What is buffered, listed and published stays in the store.
LEMMA StoreStep == TypeOK /\ InStore /\ [Next]_vars => InStore'
<1> SUFFICES ASSUME TypeOK, InStore, [Next]_vars PROVE InStore'
  OBVIOUS
<1>1. stored \in Nat /\ stored' \in Nat /\ stored <= stored' /\ stored' \in {stored, stored + 1}
  <2>1. stored' = stored \/ stored' = stored + 1
    BY DEF Next, StoreEvent, RunStep, Publish, Publishing, Published, RunCancelled,
       HandlerStep, Subscribes, SubscribeFails, Lists, ListFails, Backfills, BackfillEnds,
       Skips, Forwards, WriteFails, ReadFails, SubscriptionEnds, Unsubscribes, FinishesClose,
       HandlerEnds, IdleCloses, PageStep, PageLoads, Connects, PageIsClosed, LinkBreaks,
       PageStalls, PageLeaves, PageGoes, vars, runVars
  <2> QED  BY <2>1 DEF TypeOK
<1>2. ASSUME NEW s \in Conns, NEW i \in 1..Len(buffer'[s])
      PROVE  buffer'[s][i] \in 1..stored'
  <2>1. /\ buffer[s] \in Seq(Nat) /\ Len(buffer[s]) \in Nat
        /\ \A j \in 1..Len(buffer[s]) : buffer[s][j] \in 1..stored'
    BY <1>1 DEF TypeOK, BusTypeOK, InStore, Conns
  <2>2. ChannelStep(s)
    BY ChannelsChange DEF Conns
  <2>3. CASE buffer'[s] = buffer[s]
    BY <1>2, <2>1, <2>3
  <2>4. CASE Sending /\ buffer'[s] = Append(buffer[s], event)
    <3>1. event \in 1..stored' /\ event \in Nat
      BY <1>1, <2>4 DEF Sending, InStore
    <3> QED  BY <1>2, <2>1, <2>4, <3>1, AppendFacts
  <2>5. CASE buffer[s] # <<>> /\ buffer'[s] = Tail(buffer[s])
    <3>1. i \in 1..(Len(buffer[s]) - 1) /\ i + 1 \in 1..Len(buffer[s])
      BY <1>2, <2>1, <2>5, TailFacts
    <3> QED  BY <2>1, <2>5, <3>1, TailFacts
  <2>6. CASE buffer'[s] = <<>>
    BY <1>2, <2>6, EmptyFacts
  <2> QED  BY <2>2, <2>3, <2>4, <2>5, <2>6 DEF ChannelStep
<1>3. \A c \in Conns : listed'[c] \in 0..stored'
  <2>1. ASSUME NEW c \in Conns
        PROVE  listed'[c] = listed[c] \/ listed'[c] = 0 \/ listed'[c] = stored
    BY DEF TypeOK, Next, StoreEvent, RunStep, Publish, Publishing, Published, RunCancelled,
       HandlerStep, Subscribes, SubscribeFails, Lists, ListFails, Backfills, BackfillEnds,
       Skips, Forwards, WriteFails, ReadFails, SubscriptionEnds, Unsubscribes, FinishesClose,
       HandlerEnds, IdleCloses, PageStep, PageLoads, Connects, PageIsClosed, LinkBreaks,
       PageStalls, PageLeaves, PageGoes, Closing, vars, handlerVars
  <2> QED  BY <1>1, <2>1 DEF InStore
<1>4. /\ run' = "publish" => stored' > 0
      /\ run' = "publishing" <=> pub' # "idle"
      /\ pub' # "idle" => event' = stored' /\ stored' > 0
  <2> USE DEF InStore, TypeOK, runVars, busVars, publishVars
  <2>1. CASE StoreEvent \/ Publish \/ Published \/ RunCancelled \/ UNCHANGED vars
    BY <1>1, <2>1 DEF StoreEvent, Publish, PublishBegins, Published, PublishEnds, RunCancelled,
                      vars
  <2>2. CASE PublishStep /\ UNCHANGED runVars
    BY <2>2 DEF PublishStep, SkipClosed, TrySubscriber, Send, SendRecovers, SendCancelled,
                DropLatest, FindsFull, DropOldest, GoOn, Sending
  <2>3. ASSUME NEW c \in Conns, HandlerStep(c) \/ IdleCloses(c)
        PROVE  UNCHANGED <<run, stored, pub, event>>
    BY <2>3 DEF HandlerStep, IdleCloses, Subscribes, SubscribeFails, Lists, ListFails, Backfills,
       BackfillEnds, Skips, Forwards, WriteFails, ReadFails, SubscriptionEnds, Unsubscribes,
       FinishesClose, HandlerEnds, Subscribe, Cleanup, CloseDone, Receive
  <2>4. CASE PageStep \/ LinkBreaks \/ PageStalls \/ PageLeaves
    BY <2>4 DEF PageStep, PageLoads, Connects, PageIsClosed, LinkBreaks, PageStalls,
                PageLeaves, PageGoes
  <2> QED  BY <2>1, <2>2, <2>3, <2>4 DEF Next, RunStep, Publishing
<1> QED  BY <1>2, <1>3, <1>4 DEF InStore

\* At first nothing is stored, subscribed or published.
LEMMA TypeInit == Init => TypeOK /\ InStore
<1> SUFFICES ASSUME Init PROVE TypeOK /\ InStore
  OBVIOUS
<1>1. 0 \in Nat /\ 0 \in 0..MaxEvents /\ 0 \in 0..MaxSubscriptions /\ MaxEvents \in Nat
  BY StreamAssumption, BusAssumption
<1>2. BusTypeOK
  <2>1. config \in Configs /\ config.BufferSize \in Nat \ {0}
    BY BusAssumption DEF Init, BusInit
  <2>2. \A s \in Subscribers : buffer[s] \in Seq(Nat) /\ Len(buffer[s]) <= config.BufferSize
    BY <2>1, EmptyFacts DEF Init, BusInit
  <2> QED  BY <2>1, <2>2 DEF Init, BusInit, BusTypeOK
<1>3. \A s \in Conns : Len(buffer[s]) = 0
  BY EmptyFacts DEF Init, BusInit, Conns
<1> QED  BY <1>1, <1>2, <1>3 DEF Init, BusInit, TypeOK, InStore, Conns

\* Types of every variable, for any number of events and connections.
THEOREM StreamTypeCorrect == Spec => []TypeOK
<1>1. TypeOK /\ InStore /\ [Next]_vars => TypeOK' /\ InStore'
  BY TypeStep, StoreStep
<1> QED  BY <1>1, TypeInit, PTL DEF Spec
-----------------------------------------------------------------------------
(* Places *)

\* A handler goes from where it is to where it may go, its subscription with it.
LEMMA PlacesStep == TypeOK /\ InStore /\ Places /\ [Next]_vars => Places'
<1> SUFFICES ASSUME TypeOK, InStore, Places, [Next]_vars PROVE Places'
  OBVIOUS
<1> USE DEF TypeOK, BusTypeOK, Places, Working, subscriptionVars
<1>1. ASSUME UNCHANGED <<config, handler, state, buffer, conn, snapshot, todo, current>>,
             pub' = pub \/ pub' # "drop"
      PROVE  Places'
  BY <1>1
<1>2. ASSUME NEW c \in Conns,
             \/ SubscribeFails(c) \/ Lists(c) \/ ListFails(c) \/ BackfillEnds(c)
             \/ WriteFails(c) \/ ReadFails(c) \/ SubscriptionEnds(c)
      PROVE  Places'
  <2>1. UNCHANGED <<busVars, conn>> /\ \E place : MoveTo(c, place)
    BY <1>2 DEF SubscribeFails, Lists, ListFails, BackfillEnds, WriteFails, ReadFails,
                SubscriptionEnds, Closing, pageVars
  <2>2. CASE SubscribeFails(c)
    BY <2>1, <2>2 DEF SubscribeFails, MoveTo, busVars, publishVars
  <2>3. CASE \/ Lists(c) \/ ListFails(c) \/ BackfillEnds(c)
             \/ WriteFails(c) \/ ReadFails(c) \/ SubscriptionEnds(c)
    <3>1. /\ handler[c] \in Working
          /\ \E place \in {"backfill", "live", "closing"} : MoveTo(c, place)
      BY <2>3 DEF Lists, ListFails, BackfillEnds, WriteFails, HasEvent, ReadFails,
                  SubscriptionEnds, Closing
    <3> QED  BY <2>1, <3>1 DEF MoveTo, busVars, publishVars
  <2> QED  BY <1>2, <2>2, <2>3
<1>3. ASSUME NEW c \in Conns, Backfills(c) \/ Skips(c) \/ Forwards(c) PROVE Places'
  <2>1. /\ UNCHANGED <<handler, conn, config, state, publishVars>>
        /\ buffer[c] # <<>> \/ UNCHANGED buffer
    BY <1>3 DEF Backfills, Skips, Forwards, WriteEvent, Receive, busVars, pageVars, handlerVars
  <2>2. \A d \in Conns : d # c => buffer'[d] = buffer[d]
    <3>1. CASE Receive(c)
      BY <3>1 DEF Receive, Conns
    <3>2. CASE UNCHANGED buffer
      BY <3>2
    <3> QED  BY <1>3, <3>1, <3>2 DEF Backfills, Skips, Forwards, busVars
  <2>3. \A d \in Conns : buffer[d] = <<>> => buffer'[d] = <<>>
    BY <2>1, <2>2
  <2> QED  BY <2>1, <2>3 DEF publishVars
<1>4. ASSUME NEW c \in Conns, Subscribes(c) PROVE Places'
  <2>1. /\ handler' = [handler EXCEPT ![c] = "list"]
        /\ state' = [state EXCEPT ![c] = "open"]
        /\ UNCHANGED <<config, buffer, conn, pub, snapshot, todo, current>>
        /\ handler[c] = "start"
    BY <1>4 DEF Subscribes, Subscribe, MoveTo, pageVars, publishVars
  <2>2. \A d \in Conns : IF d = c THEN handler'[d] = "list" /\ state'[d] = "open"
                        ELSE handler'[d] = handler[d] /\ state'[d] = state[d]
    BY <2>1 DEF Conns
  <2>3. \A s \in snapshot : state'[s] # "none"
    BY <2>2 DEF Conns
  <2> QED  BY <2>1, <2>2, <2>3
<1>5. ASSUME NEW c \in Conns, Unsubscribes(c) \/ FinishesClose(c) \/ IdleCloses(c) PROVE Places'
  <2>1. /\ UNCHANGED <<handler, conn, config, buffer, publishVars>>
        /\ \E t \in {"cleaned", "done"} : state' = [state EXCEPT ![c] = t]
        /\ state[c] \in {"open", "cleaned"}
    BY <1>5 DEF Unsubscribes, FinishesClose, IdleCloses, Cleanup, CloseDone, pageVars,
                handlerVars
  <2> QED  BY <2>1 DEF publishVars, Conns
<1>6. ASSUME NEW c \in Conns, HandlerEnds(c) PROVE Places'
  <2>1. /\ handler' = [handler EXCEPT ![c] = "ended"]
        /\ state[c] = "done" /\ handler[c] = "closing"
        /\ UNCHANGED <<config, state, conn, pub, snapshot, todo, current>>
    BY <1>6 DEF HandlerEnds, MoveTo, pageVars, publishVars
  <2>2. ASSUME NEW d \in Conns, buffer[d] = <<>> PROVE buffer'[d] = <<>>
    <3>1. CASE d = c
      BY <1>6, <3>1 DEF HandlerEnds, Conns
    <3>2. CASE d # c
      BY <1>6, <2>2, <3>2 DEF HandlerEnds, Conns
    <3> QED  BY <3>1, <3>2
  <2> QED  BY <2>1, <2>2
<1>7. CASE Connects
  <2>1. /\ conn' = conn + 1 /\ conn' \in Conns /\ MoveTo(conn', "start") /\ UNCHANGED busVars
        /\ handler[conn'] = "none"
    BY <1>7, BusAssumption DEF Connects, Conns, Subscribers
  <2>2. \A c \in Conns : c > conn' <=> (c > conn /\ c # conn')
    <3>1. conn \in Nat /\ conn' = conn + 1 /\ \A c \in Conns : c \in Nat
      BY <2>1, BusAssumption DEF Conns, Subscribers
    <3> HIDE DEF TypeOK, BusTypeOK, Places
    <3> QED  BY <3>1
  <2>3. \A c \in Conns : IF c = conn' THEN handler'[c] = "start" ELSE handler'[c] = handler[c]
    BY <2>1 DEF MoveTo
  <2>4. UNCHANGED <<config, state, buffer, pub, snapshot, todo, current>>
    BY <2>1 DEF busVars, publishVars
  <2> HIDE DEF BusTypeOK
  <2> QED  BY <2>1, <2>2, <2>3, <2>4
<1>8. CASE Publish
  <2>1. /\ current = 0 /\ current' = 0 /\ pub' = "next" /\ snapshot' \subseteq Open
        /\ todo' = snapshot' /\ UNCHANGED <<config, handler, state, buffer, conn>>
    BY <1>8 DEF Publish, PublishBegins, pageVars, handlerVars
  <2>2. 0 \notin Open
    BY BusAssumption DEF Open, Subscribers
  <2> QED  BY <2>1, <2>2 DEF Open
<1>9. CASE PublishStep /\ UNCHANGED <<pageVars, handlerVars>>
  <2> USE DEF pageVars, handlerVars
  <2>1. CASE \E s \in Subscribers : SkipClosed(s) \/ TrySubscriber(s)
    BY <2>1, <1>9 DEF SkipClosed, TrySubscriber
  <2>2. 0 \notin todo
    BY BusAssumption DEF Subscribers
  <2>3. CASE Send
    <3>1. current \in snapshot /\ state[current] = "open"
      BY <2>3 DEF Send, Sending
    <3>2. \A s \in Conns : s # current => buffer'[s] = buffer[s]
      BY <2>3 DEF Send, Conns
    <3> QED  BY <1>9, <2>2, <2>3, <3>1, <3>2 DEF Send, GoOn
  <2>4. CASE SendRecovers \/ SendCancelled \/ DropLatest \/ FindsFull
    BY <1>9, <2>2, <2>4 DEF SendRecovers, SendCancelled, DropLatest, FindsFull, GoOn
  <2>5. CASE DropOldest
    <3>1. current \in snapshot /\ state[current] # "none"
      BY <2>5 DEF DropOldest
    <3>2. \A s \in Conns : s # current => buffer'[s] = buffer[s]
      BY <2>5 DEF DropOldest, Conns
    <3> QED  BY <1>9, <2>5, <3>1, <3>2 DEF DropOldest
  <2> QED  BY <1>9, <2>1, <2>3, <2>4, <2>5 DEF PublishStep
<1>10. CASE Published
  BY <1>10 DEF Published, PublishEnds, pageVars, handlerVars
<1>11. CASE StoreEvent \/ RunCancelled \/ PageLoads \/ PageIsClosed \/ LinkBreaks \/ PageStalls
            \/ PageLeaves \/ UNCHANGED vars
  BY <1>1, <1>11
     DEF StoreEvent, RunCancelled, PageLoads, PageIsClosed, LinkBreaks, PageStalls, PageLeaves,
         PageGoes, vars, pageVars, handlerVars, busVars, publishVars
<1> QED
  BY <1>2, <1>3, <1>4, <1>5, <1>6, <1>7, <1>8, <1>9, <1>10, <1>11
     DEF Next, RunStep, Publishing, runVars, HandlerStep, PageStep

\* What a handler sends to the page moves the page's cursor with its own.
LEMMA CursorStep == SInv /\ [Next]_vars => SameCursor'
<1> SUFFICES ASSUME SInv, [Next]_vars PROVE SameCursor'
  OBVIOUS
<1> USE DEF SInv, SameCursor, Working
<1>0. conn \in 0..MaxSubscriptions /\ (conn > 0 => conn \in Conns) /\ MaxSubscriptions \in Nat
  BY BusAssumption DEF TypeOK, Conns, Subscribers
<1>1. ASSUME NEW c \in Conns, Backfills(c) \/ Forwards(c) PROVE SameCursor'
  <2>1. PICK n, at : WriteEvent(c, n, at) /\ UNCHANGED handler
    BY <1>1 DEF Backfills, Forwards
  <2>2. UNCHANGED <<page, conn>> /\ position' = [position EXCEPT ![c] = at]
    BY <2>1 DEF WriteEvent
  <2>3. c > conn => handler[c] = "none"
    BY DEF Places
  <2>4. c \in Nat /\ c > 0 /\ handler[c] # "none"
    BY <1>1, BusAssumption DEF Backfills, Forwards, Conns, Subscribers
  <2>5. page \notin {"new", "loaded"}
    BY <1>0, <2>3, <2>4
  <2>6. CASE Connected(c)
    <3>1. cursor' = at /\ c = conn
      BY <2>1, <2>6 DEF WriteEvent, Merge, Connected
    <3> QED  BY <2>1, <2>2, <2>5, <3>1 DEF TypeOK
  <2>7. CASE ~Connected(c)
    <3>1. cursor' = cursor /\ (page \in {"open", "stalled"} => c # conn)
      BY <2>1, <2>7 DEF WriteEvent, Connected
    <3> QED  BY <1>0, <2>1, <2>2, <2>5, <3>1 DEF TypeOK
  <2> QED  BY <2>6, <2>7
<1>2. ASSUME NEW c \in Conns,
             \/ Subscribes(c) \/ SubscribeFails(c) \/ Lists(c) \/ ListFails(c) \/ BackfillEnds(c)
             \/ Skips(c) \/ WriteFails(c) \/ ReadFails(c) \/ SubscriptionEnds(c)
             \/ Unsubscribes(c) \/ FinishesClose(c) \/ HandlerEnds(c) \/ IdleCloses(c)
      PROVE  SameCursor'
  <2>1. /\ UNCHANGED pageVars
        /\ UNCHANGED handler \/ \E place : MoveTo(c, place)
        /\ UNCHANGED position
           \/ (position' = [position EXCEPT ![c] = 0]
               /\ (MoveTo(c, "closing") \/ MoveTo(c, "ended")))
        /\ handler'[c] \in Working \union {"start"} => handler[c] \in Working \union {"start"}
    BY <1>2 DEF TypeOK, Subscribes, SubscribeFails, Lists, ListFails, BackfillEnds, Skips,
       WriteFails, ReadFails, SubscriptionEnds, Unsubscribes, FinishesClose, HandlerEnds,
       IdleCloses, Closing, MoveTo, handlerVars
  <2>2. \A d \in Conns :
          handler'[d] \in Working \union {"start"} =>
            handler[d] \in Working \union {"start"} /\ position'[d] = position[d]
    BY <2>1 DEF MoveTo, TypeOK
  <2> QED  BY <1>0, <2>1, <2>2 DEF pageVars
<1>3. CASE PageLoads
  BY <1>3 DEF PageLoads
<1>4. CASE Connects
  <2>1. /\ conn' = conn + 1 /\ page' = "open" /\ cursor' = cursor /\ conn' \in Conns
        /\ position' = [position EXCEPT ![conn'] = cursor]
    BY <1>0, <1>4, BusAssumption DEF Connects, Conns, Subscribers
  <2> QED  BY <1>0, <2>1 DEF TypeOK
<1>5. CASE PageIsClosed \/ LinkBreaks \/ PageStalls \/ PageLeaves
  BY <1>5 DEF PageIsClosed, LinkBreaks, PageStalls, PageLeaves, PageGoes, handlerVars
<1>6. CASE StoreEvent \/ RunStep \/ RunCancelled \/ UNCHANGED vars
  BY <1>6 DEF StoreEvent, RunStep, Publish, Publishing, Published, RunCancelled, vars, pageVars,
              handlerVars
<1> QED  BY <1>1, <1>2, <1>3, <1>4, <1>5, <1>6 DEF Next, HandlerStep, PageStep

\* At first there is no connection.
LEMMA SInvInit == Init => SInv
<1> SUFFICES ASSUME Init PROVE SInv
  OBVIOUS
<1>1. TypeOK /\ InStore
  BY TypeInit
<1>2. \A c \in Conns : c > 0
  BY BusAssumption DEF Conns, Subscribers
<1>3. Places
  BY <1>2 DEF Init, BusInit, Places, Working, Conns
<1>4. SameCursor
  BY DEF Init, SameCursor
<1> QED  BY <1>1, <1>3, <1>4 DEF SInv

\* Handlers, subscriptions, publisher and page are together only as SInv says,
\* and the page has the cursor of the handler it is connected to.
THEOREM CursorsAgree == Spec => []SInv
<1>1. SInv /\ [Next]_vars => SInv'
  BY TypeStep, StoreStep, PlacesStep, CursorStep DEF SInv
<1> QED  BY <1>1, SInvInit, PTL DEF Spec

\* A step that moves the page's cursor moves it forward.
LEMMA CursorGrows == SInv /\ [Next]_vars => cursor <= cursor'
<1> SUFFICES ASSUME SInv, [Next]_vars PROVE cursor <= cursor'
  OBVIOUS
<1>1. cursor \in Nat /\ cursor' \in Nat
  BY TypeStep, StreamAssumption DEF SInv, TypeOK
<1>2. ASSUME NEW c \in Conns, Backfills(c) \/ Forwards(c) PROVE cursor <= cursor'
  <2>1. PICK n, at : WriteEvent(c, n, at) /\ at > position[c]
    <3>1. CASE Backfills(c)
      BY <3>1 DEF Backfills, Backlog
    <3>2. CASE Forwards(c)
      BY <3>2 DEF Forwards
    <3> QED  BY <1>2, <3>1, <3>2
  <2>2. CASE Connected(c)
    <3>1. cursor' = at
      BY <2>1, <2>2 DEF WriteEvent, Merge
    <3>2. position[c] = cursor
      BY <1>2, <2>2 DEF Connected, SInv, SameCursor, Working, Backfills, Forwards
    <3> QED  BY <1>1, <2>1, <3>1, <3>2
  <2>3. CASE ~Connected(c)
    BY <1>1, <2>1, <2>3 DEF WriteEvent
  <2> QED  BY <2>2, <2>3
<1>3. CASE PageLoads
  BY <1>1, <1>3 DEF PageLoads, SInv, SameCursor
<1>4. ASSUME NEW c \in Conns,
             \/ Subscribes(c) \/ SubscribeFails(c) \/ Lists(c) \/ ListFails(c) \/ BackfillEnds(c)
             \/ Skips(c) \/ WriteFails(c) \/ ReadFails(c) \/ SubscriptionEnds(c)
             \/ Unsubscribes(c) \/ FinishesClose(c) \/ HandlerEnds(c) \/ IdleCloses(c)
      PROVE  cursor' = cursor
  BY <1>4 DEF Subscribes, SubscribeFails, Lists, ListFails, BackfillEnds, Skips,
     WriteFails, ReadFails, SubscriptionEnds, Unsubscribes, FinishesClose, HandlerEnds,
     IdleCloses, pageVars
<1>5. CASE \/ StoreEvent \/ RunStep \/ RunCancelled \/ Connects \/ PageIsClosed \/ LinkBreaks
           \/ PageStalls \/ PageLeaves \/ UNCHANGED vars
  BY <1>1, <1>5 DEF StoreEvent, RunStep, Publish, Publishing, Published, RunCancelled, Connects,
     PageIsClosed, LinkBreaks, PageStalls, PageLeaves, PageGoes, vars, pageVars
<1> QED
  BY <1>1, <1>2, <1>3, <1>4, <1>5 DEF Next, HandlerStep, PageStep

\* The cursor of the page never moves back: a handler sends only what is later
\* than its own cursor, and only the last handler reaches the page.
THEOREM CursorNeverMovesBack == Spec => CursorAdvances
<1>1. SInv /\ [Next]_vars => [cursor <= cursor']_vars
  BY CursorGrows
<1> QED  BY <1>1, CursorsAgree, PTL DEF Spec, CursorAdvances
-----------------------------------------------------------------------------
(* What a publish leaves behind *)

\* Channel s changes, if it does, so that an event stays in it until its handler
\* is past it.
KeepingStep(s) ==
  /\ position[s] <= position'[s]
  /\ \/ buffer'[s] = buffer[s]
     \/ /\ buffer[s] # <<>> /\ buffer'[s] = Tail(buffer[s])
        /\ IngestedAt(Head(buffer[s])) <= position'[s]

\* An event that is kept stays kept.
LEMMA KeptStays ==
  ASSUME TypeOK, TypeOK', NEW s \in Conns, NEW e \in Events, Kept(s, e), KeepingStep(s)
  PROVE  Kept(s, e)'
<1>1. /\ buffer[s] \in Seq(Nat) /\ position[s] \in Nat /\ position'[s] \in Nat
      /\ IngestedAt(e) \in Nat
  BY TimeTypes, StreamAssumption DEF TypeOK, BusTypeOK, Conns
<1>2. CASE position[s] >= IngestedAt(e)
  BY <1>1, <1>2 DEF Kept, KeepingStep, IngestedAt
<1>3. ASSUME NEW i \in 1..Len(buffer[s]), buffer[s][i] = e PROVE Kept(s, e)'
  <2>1. CASE buffer'[s] = buffer[s]
    BY <1>3, <2>1 DEF Kept
  <2>2. CASE /\ buffer[s] # <<>> /\ buffer'[s] = Tail(buffer[s])
             /\ IngestedAt(Head(buffer[s])) <= position'[s]
    <3>1. CASE i = 1
      BY <1>1, <1>3, <2>2, <3>1, TailFacts DEF Kept, IngestedAt
    <3>2. CASE i # 1
      <4>1. i - 1 \in 1..(Len(buffer[s]) - 1)
        BY <1>1, <1>3, <3>2, TailFacts
      <4>2. Tail(buffer[s])[i - 1] = buffer[s][(i - 1) + 1] /\ (i - 1) + 1 = i
        BY <1>1, <2>2, <4>1, TailFacts
      <4>3. buffer'[s][i - 1] = e /\ i - 1 \in 1..Len(buffer'[s])
        BY <1>1, <1>3, <2>2, <4>1, <4>2, TailFacts
      <4> QED  BY <4>3 DEF Kept
    <3> QED  BY <3>1, <3>2
  <2> QED  BY <2>1, <2>2 DEF KeepingStep
<1> QED  BY <1>2, <1>3 DEF Kept

\* A receive takes the head of the channel.
LEMMA ReceiveFacts ==
  ASSUME TypeOK, NEW s \in Subscribers, Receive(s)
  PROVE  buffer[s] # <<>> /\ buffer'[s] = Tail(buffer[s])
BY DEF Receive, TypeOK, BusTypeOK

\* A handler's step leaves the other connections alone.
LEMMA HandlersApart ==
  ASSUME TypeOK, NEW c \in Conns, HandlerStep(c) \/ IdleCloses(c), NEW d \in Conns, d # c
  PROVE  UNCHANGED <<state[d], handler[d], position[d], buffer[d], listed[d]>>
<1> USE DEF TypeOK, BusTypeOK, Conns, busVars, subscriptionVars, handlerVars
<1>1. UNCHANGED <<state[d], handler[d]>>
  BY DEF HandlerStep, IdleCloses, Subscribes, SubscribeFails, Lists, ListFails, Backfills,
     BackfillEnds, Skips, Forwards, WriteFails, ReadFails, SubscriptionEnds, Unsubscribes,
     FinishesClose, HandlerEnds, Subscribe, Cleanup, CloseDone, Receive, MoveTo, Closing
<1>2. UNCHANGED <<position[d], listed[d]>>
  BY DEF HandlerStep, IdleCloses, Subscribes, SubscribeFails, Lists, ListFails, Backfills,
     BackfillEnds, Skips, Forwards, WriteFails, ReadFails, SubscriptionEnds, Unsubscribes,
     FinishesClose, HandlerEnds, WriteEvent, Closing
<1>3. UNCHANGED buffer[d]
  <2>1. CASE Receive(c)
    BY <2>1 DEF Receive
  <2>2. CASE HandlerEnds(c)
    BY <2>2 DEF HandlerEnds
  <2> QED
    BY <2>1, <2>2
       DEF HandlerStep, IdleCloses, Subscribes, SubscribeFails, Lists, ListFails, Backfills,
           BackfillEnds, Skips, Forwards, WriteFails, ReadFails, SubscriptionEnds,
           Unsubscribes, FinishesClose, Subscribe, Cleanup, CloseDone
<1> QED  BY <1>1, <1>2, <1>3

\* A handler keeps what its channel has for as long as it works.
LEMMA HandlersKeep ==
  ASSUME SInv, SInv', NEW c \in Conns, HandlerStep(c) \/ IdleCloses(c)
  PROVE  /\ UNCHANGED <<config, publishVars, cancelled>>
         /\ \A d \in Conns :
              state'[d] = "open" /\ handler'[d] # "closing" /\ state[d] # "none" =>
                state[d] = "open" /\ handler[d] # "closing" /\ KeepingStep(d)
<1> USE DEF SInv, TypeOK, BusTypeOK, Conns, busVars, subscriptionVars, handlerVars
<1>1. UNCHANGED <<config, publishVars, cancelled>>
  BY DEF HandlerStep, IdleCloses, Subscribes, SubscribeFails, Lists, ListFails, Backfills,
     BackfillEnds, Skips, Forwards, WriteFails, ReadFails, SubscriptionEnds, Unsubscribes,
     FinishesClose, HandlerEnds, Subscribe, Cleanup, CloseDone, Receive
<1>2. \A d \in Conns : position[d] \in Nat /\ position'[d] \in Nat
  BY StreamAssumption
<1>3. ASSUME state'[c] = "open", handler'[c] # "closing", state[c] # "none"
      PROVE  state[c] = "open" /\ handler[c] # "closing" /\ KeepingStep(c)
  <2>1. CASE \/ Subscribes(c) \/ SubscribeFails(c) \/ ListFails(c) \/ WriteFails(c)
             \/ ReadFails(c) \/ SubscriptionEnds(c) \/ Unsubscribes(c) \/ FinishesClose(c)
             \/ HandlerEnds(c) \/ IdleCloses(c)
    BY <1>3, <2>1 DEF Subscribes, SubscribeFails, ListFails, WriteFails, ReadFails,
       SubscriptionEnds, Unsubscribes, FinishesClose, HandlerEnds, IdleCloses, Subscribe, Cleanup,
       CloseDone, Closing, MoveTo, Places
  <2>2. CASE Lists(c) \/ BackfillEnds(c)
    BY <1>2, <1>3, <2>2 DEF Lists, BackfillEnds, KeepingStep
  <2>3. CASE Backfills(c)
    <3>1. PICK n \in Backlog(c) : WriteEvent(c, n, StoredAt(n))
      BY <2>3 DEF Backfills
    <3>2. position[c] < StoredAt(n) /\ position'[c] = StoredAt(n)
      BY <3>1 DEF Backlog, WriteEvent
    <3> QED  BY <1>2, <1>3, <2>3, <3>2 DEF Backfills, KeepingStep
  <2>4. CASE Skips(c)
    BY <1>2, <1>3, <2>4 DEF Skips, Receive, KeepingStep
  <2>5. CASE Forwards(c)
    <3>1. /\ position'[c] = IngestedAt(Head(buffer[c]))
          /\ IngestedAt(Head(buffer[c])) > position[c]
      BY <2>5 DEF Forwards, WriteEvent
    <3>2. buffer[c] # <<>> /\ buffer'[c] = Tail(buffer[c])
      <4>1. Receive(c)
        BY <2>5 DEF Forwards
      <4> QED  BY <4>1, ReceiveFacts
    <3>3. handler[c] = "live" /\ UNCHANGED <<state, handler>>
      BY <2>5 DEF Forwards, Receive
    <3>4. position[c] <= position'[c] /\ IngestedAt(Head(buffer[c])) <= position'[c]
      BY <1>2, <3>1
    <3> QED  BY <1>3, <3>2, <3>3, <3>4 DEF KeepingStep
  <2> QED  BY <2>1, <2>2, <2>3, <2>4, <2>5 DEF HandlerStep
<1>4. ASSUME NEW d \in Conns, d # c, state'[d] = "open", handler'[d] # "closing"
      PROVE  state[d] = "open" /\ handler[d] # "closing" /\ KeepingStep(d)
  <2>1. UNCHANGED <<state[d], handler[d], position[d], buffer[d]>>
    BY <1>4, HandlersApart
  <2> QED  BY <1>2, <1>4, <2>1 DEF KeepingStep
<1> QED  BY <1>1, <1>3, <1>4

\* Whom the publisher is done with, and may still get the event.
Reached(s) ==
  s \in snapshot /\ s \notin todo /\ s # current /\ state[s] = "open" /\ handler[s] # "closing"

\* A step of the publisher leaves its event behind, and no step takes it away.
LEMMA DeliveredStep == SInv /\ Delivered /\ [Next]_vars => Delivered'
<1> SUFFICES ASSUME SInv, Delivered, [Next]_vars,
                    config'.SlowConsumerPolicy # "drop_latest", ~cancelled', pub' # "idle",
                    NEW s \in Subscribers, Reached(s)'
             PROVE  Kept(s, event)'
  <2>1. \A s \in (snapshot' \intersect Open') \ todo' :
          s # current' /\ handler'[s] # "closing" => s \in Subscribers /\ Reached(s)'
    BY DEF Open, Reached
  <2> QED  BY <2>1 DEF Delivered
<1>0. SInv' /\ s \in Conns /\ config' = config
  <2>1. TypeOK' /\ InStore' /\ Places' /\ SameCursor'
    BY TypeStep, StoreStep, PlacesStep, CursorStep DEF SInv
  <2> QED  BY <2>1, ChannelsChange DEF SInv, Conns
<1>1. pub # "idle" => event \in Events
  BY StreamAssumption DEF SInv, TypeOK, InStore, Events
<1>2. ~cancelled /\ pub # "idle" /\ Reached(s) => Kept(s, event)
  BY <1>0 DEF Delivered, Reached, Open
\* It is enough that s was reached before, unless this step sends to it.
<1>3. ASSUME pub # "idle", ~cancelled, UNCHANGED event, Reached(s), KeepingStep(s)
      PROVE  Kept(s, event)'
  <2>1. Kept(s, event) /\ TypeOK /\ TypeOK'
    BY <1>0, <1>2, <1>3 DEF SInv
  <2>2. \A e \in Events : Kept(s, e) => Kept(s, e)'
    BY <1>0, <1>3, <2>1, KeptStays
  <2>3. Kept(s, event) => (position'[s] >= IngestedAt(event)
                             \/ \E i \in 1..Len(buffer'[s]) : buffer'[s][i] = event)
    BY <1>1, <1>3, <2>2 DEF Kept, IngestedAt
  <2> QED  BY <1>3, <2>1, <2>3 DEF Kept, IngestedAt
<1>4. UNCHANGED <<position[s], buffer[s]>> => KeepingStep(s)
  BY <1>0, StreamAssumption DEF KeepingStep, SInv, TypeOK
<1>5. ASSUME NEW c \in Conns, HandlerStep(c) \/ IdleCloses(c) PROVE Kept(s, event)'
  <2>1. /\ UNCHANGED <<config, publishVars, cancelled>>
        /\ state[s] # "none" => state[s] = "open" /\ handler[s] # "closing" /\ KeepingStep(s)
    BY <1>0, <1>5, HandlersKeep DEF Reached
  <2>2. s \in snapshot /\ state[s] # "none"
    BY <2>1 DEF SInv, Places, Reached, publishVars
  <2>3. Reached(s) /\ pub # "idle" /\ ~cancelled /\ UNCHANGED event
    BY <2>1, <2>2 DEF Reached, publishVars
  <2> QED  BY <1>3, <2>1, <2>2, <2>3
<1>6. CASE Publishing
  <2>1. UNCHANGED <<handler, position>>
    BY <1>6 DEF Publishing, handlerVars
  <2>2. CASE \E t \in Subscribers : SkipClosed(t) \/ TrySubscriber(t)
    <3>1. PICK t \in Subscribers : SkipClosed(t) \/ TrySubscriber(t)
      BY <2>2
    <3>2. /\ pub = "next" /\ current = 0 /\ todo' = todo \ {t} /\ UNCHANGED <<event, snapshot>>
          /\ UNCHANGED <<state, buffer, cancelled>>
          /\ state[t] = "done" \/ current' = t
      BY <3>1 DEF SkipClosed, TrySubscriber, SInv, TypeOK, BusTypeOK, subscriptionVars
    <3>3. Reached(s)
      BY <2>1, <3>2, BusAssumption DEF Reached, Subscribers
    <3> QED  BY <1>3, <1>4, <2>1, <3>2, <3>3
  <2>3. CASE Send
    <3>1. /\ current \in Subscribers /\ buffer[current] \in Seq(Nat) /\ event \in Nat
          /\ buffer' = [buffer EXCEPT ![current] = Append(@, event)]
          /\ buffer \in [Subscribers -> Seq(Nat)]
      BY <2>3 DEF Send, Sending, SInv, TypeOK, BusTypeOK
    <3>2. UNCHANGED <<event, snapshot, todo, state, cancelled>> /\ pub # "idle"
      BY <2>3 DEF Send, Sending, GoOn
    <3>3. CASE s = current
      <4>1. buffer'[s] = Append(buffer[s], event)
        BY <3>1, <3>3
      <4>2. /\ Len(buffer'[s]) = Len(buffer[s]) + 1 /\ Len(buffer[s]) \in Nat
            /\ buffer'[s][Len(buffer[s]) + 1] = event
        BY <3>1, <3>3, <4>1, AppendFacts
      <4>3. Len(buffer[s]) + 1 \in 1..Len(buffer'[s])
        BY <4>2
      <4> QED  BY <3>2, <4>2, <4>3 DEF Kept
    <3>4. CASE s # current
      <4>1. buffer'[s] = buffer[s] /\ Reached(s)
        BY <2>1, <3>1, <3>2, <3>4 DEF Reached
      <4> QED  BY <1>3, <1>4, <2>1, <3>2, <4>1
    <3> QED  BY <3>3, <3>4
  <2>4. CASE SendRecovers
    <3>1. /\ UNCHANGED <<event, snapshot, todo, state, buffer, cancelled>> /\ pub # "idle"
          /\ state[current] # "open"
      BY <2>4 DEF SendRecovers, Sending, GoOn, subscriptionVars
    <3>2. Reached(s)
      BY <2>1, <3>1 DEF Reached
    <3> QED  BY <1>3, <1>4, <2>1, <3>1, <3>2
  <2>5. CASE SendCancelled \/ DropLatest
    BY <1>0, <2>5 DEF SendCancelled, DropLatest, GoOn
  <2>6. CASE FindsFull
    <3>1. UNCHANGED <<event, snapshot, todo, current, state, buffer, cancelled>> /\ pub # "idle"
      BY <2>6 DEF FindsFull, subscriptionVars
    <3>2. Reached(s)
      BY <2>1, <3>1 DEF Reached
    <3> QED  BY <1>3, <1>4, <2>1, <3>1, <3>2
  <2>7. CASE DropOldest
    <3>1. UNCHANGED <<event, snapshot, todo, current, state, cancelled>> /\ pub # "idle"
      BY <2>7 DEF DropOldest
    <3>2. Reached(s) /\ s # current
      BY <2>1, <3>1 DEF Reached
    <3>3. buffer'[s] = buffer[s]
      BY <2>7, <3>2 DEF DropOldest, SInv, TypeOK, BusTypeOK
    <3> QED  BY <1>3, <1>4, <2>1, <3>1, <3>2, <3>3
  <2> QED  BY <1>6, <2>2, <2>3, <2>4, <2>5, <2>6, <2>7 DEF Publishing, PublishStep
<1>7. CASE Publish \/ Published \/ RunCancelled
  BY <1>7 DEF Publish, PublishBegins, Published, PublishEnds, RunCancelled, Reached
<1>8. CASE Connects
  <2>1. UNCHANGED <<event, snapshot, todo, current, state, buffer, cancelled, pub>>
    BY <1>8 DEF Connects, busVars, subscriptionVars, publishVars
  <2>2. s # conn'
    BY <1>0, <1>8, <2>1 DEF Connects, MoveTo, Reached, SInv, TypeOK, Places
  <2>3. UNCHANGED <<handler[s], position[s]>>
    BY <1>0, <1>8, <2>2 DEF Connects, MoveTo, SInv, TypeOK
  <2>4. Reached(s)
    BY <2>1, <2>3 DEF Reached
  <2> QED  BY <1>3, <1>4, <2>1, <2>3, <2>4
<1>9. CASE \/ StoreEvent \/ PageLoads \/ PageIsClosed \/ LinkBreaks \/ PageStalls \/ PageLeaves
           \/ UNCHANGED vars
  <2>1. UNCHANGED <<event, snapshot, todo, current, state, buffer, cancelled, pub, handler,
                    position>>
    BY <1>9 DEF StoreEvent, PageLoads, PageIsClosed, LinkBreaks, PageStalls, PageLeaves, PageGoes,
                busVars, subscriptionVars, publishVars, handlerVars, vars
  <2>2. Reached(s)
    BY <2>1 DEF Reached
  <2> QED  BY <1>3, <1>4, <2>1, <2>2
<1> QED  BY <1>5, <1>6, <1>7, <1>8, <1>9 DEF Next, RunStep, PageStep

\* Unless the policy drops the latest event, a publish that is over has left its
\* event with everyone it found: in the channel or behind the handler's cursor.
THEOREM TheLatestSurvives == Spec => []LatestSurvives
<1>1. Init => Delivered
  BY DEF Init, BusInit, Delivered
<1>2. SInv /\ Delivered /\ [Next]_vars => Delivered'
  BY DeliveredStep
<1>3. SInv /\ Delivered => LatestSurvives
  <2> SUFFICES ASSUME SInv, Delivered, config.SlowConsumerPolicy # "drop_latest", ~cancelled,
                      pub = "next", todo = {}, NEW s \in snapshot \intersect Open,
                      handler[s] # "closing"
               PROVE  \/ position[s] >= IngestedAt(event)
                      \/ \E i \in DOMAIN buffer[s] : buffer[s][i] = event
    BY DEF LatestSurvives
  <2>1. s \in Subscribers /\ s # current
    BY BusAssumption DEF SInv, TypeOK, BusTypeOK, Open, Subscribers
  <2>2. Kept(s, event)
    BY <2>1 DEF Delivered
  <2>3. buffer[s] \in Seq(Nat)
    BY <2>1 DEF SInv, TypeOK, BusTypeOK
  <2>4. DOMAIN buffer[s] = 1..Len(buffer[s])
    BY <2>3
  <2> QED  BY <2>2, <2>4 DEF Kept
<1> QED  BY <1>1, <1>2, <1>3, CursorsAgree, PTL DEF Spec
-----------------------------------------------------------------------------
(* Nothing is missing behind the cursor *)

\* The next event in a channel is in the store.
LEMMA HeadIsStored ==
  ASSUME TypeOK, InStore, NEW c \in Conns, buffer[c] # <<>>
  PROVE  Head(buffer[c]) \in 1..stored /\ Head(buffer[c]) \in Events
<1>1. buffer[c] \in Seq(Nat)
  BY DEF TypeOK, BusTypeOK, Conns
<1>2. Head(buffer[c]) = buffer[c][1] /\ 1 \in 1..Len(buffer[c])
  BY <1>1, TailFacts
<1>3. stored \in 0..MaxEvents /\ MaxEvents \in Nat
  BY StreamAssumption DEF TypeOK
<1> QED  BY <1>2, <1>3 DEF InStore, Events

\* A step that leaves the channel of c alone, and what its handler has covered.
Undisturbed(c) ==
  /\ UNCHANGED <<buffer[c], stored>>
  /\ state'[c] = "open" => state[c] = "open"
  /\ state'[c] = "open" /\ ~cancelled' => ~cancelled
  /\ state'[c] = "open" => (Due(c)' <=> Due(c))
  /\ \A n \in Nat \ {0} : Covered(c, n) => Covered(c, n)'

\* Such a step opens no gap.
LEMMA NoGapKept ==
  ASSUME TypeOK, NEW c \in Conns, NoGap(c), Undisturbed(c)
  PROVE  NoGap(c)'
<1>1. /\ buffer[c] \in Seq(Nat) /\ stored \in Nat /\ stored' = stored /\ buffer'[c] = buffer[c]
  BY StreamAssumption DEF TypeOK, BusTypeOK, Conns, Undisturbed
<1>2. ASSUME NEW e \in Nat, Covers(c, e - 1) PROVE Covers(c, e - 1)'
  <2>1. \A n \in 1..(e - 1) : n \in Nat \ {0}
    OBVIOUS
  <2> QED  BY <1>2, <2>1 DEF Covers, Undisturbed
<1>3. ASSUME NEW e \in Nat, Joins(c, e) PROVE Joins(c, e)'
  BY <1>1, <1>2, <1>3 DEF Joins
<1>4. Joins(c, stored) => Joins(c, stored)'
  BY <1>1, <1>3 DEF Joins, Covers, Covered
<1>5. Joins(c, stored + 1) => Joins(c, stored + 1)'
  <2>1. Covers(c, (stored + 1) - 1) => \A n \in 1..((stored + 1) - 1) : Covered(c, n)'
    BY <1>1 DEF Covers, Undisturbed
  <2> QED  BY <1>1, <2>1 DEF Joins, Covers
<1>6. buffer[c] # <<>> => Head(buffer[c]) \in Nat
  BY <1>1, TailFacts
<1>7. buffer'[c] # <<>> => Covers(c, Head(buffer[c]) - 1)'
  BY <1>1, <1>2, <1>6 DEF NoGap, Covers, Covered
<1> QED  BY <1>1, <1>4, <1>5, <1>7 DEF NoGap, Undisturbed

\* An event sent to the channel of a handler is the next one for it.
LEMMA NoGapSent ==
  ASSUME TypeOK, NEW c \in Conns, NoGap(c), Joins(c, stored), stored > 0,
         buffer'[c] = Append(buffer[c], stored), UNCHANGED <<handler, position, listed, stored>>,
         ~Due(c)'
  PROVE  NoGap(c)'
<1>1. /\ buffer[c] \in Seq(Nat) /\ stored \in Nat /\ stored' = stored
  BY StreamAssumption DEF TypeOK, BusTypeOK, Conns
<1> DEFINE k == Len(buffer[c])
<1>2. /\ buffer'[c] \in Seq(Nat) /\ k \in Nat /\ Len(buffer'[c]) = k + 1
      /\ \A i \in 1..k : buffer'[c][i] = buffer[c][i]
      /\ buffer'[c][k + 1] = stored
  BY <1>1, AppendFacts
<1>3. buffer'[c] # <<>> /\ Head(buffer'[c]) = buffer'[c][1]
  <2>1. buffer'[c] # <<>>
    BY <1>2, EmptyFacts
  <2> QED  BY <1>2, <2>1, TailFacts
<1>4. \A e \in Nat : Covers(c, e - 1) => Covers(c, e - 1)'
  BY <1>1 DEF Covers, Covered
<1>5. CASE buffer[c] = <<>>
  <2>1. k = 0 /\ Covers(c, stored - 1)
    BY <1>5, EmptyFacts DEF Joins
  <2>2. Head(buffer'[c]) = stored /\ Covers(c, stored - 1)'
    BY <1>1, <1>2, <1>3, <1>4, <2>1
  <2>3. Covers(c, Head(buffer[c]) - 1)'
    BY <1>1, <2>2 DEF Covers, Covered
  <2>4. \A i \in 1..Len(buffer'[c]) - 1 : buffer'[c][i + 1] = buffer'[c][i] + 1
    BY <1>2, <2>1
  <2>5. Joins(c, stored + 1)'
    BY <1>1, <1>2, <1>3, <2>1 DEF Joins
  <2> QED  BY <1>1, <2>3, <2>4, <2>5 DEF NoGap
<1>6. CASE buffer[c] # <<>>
  <2>1. /\ k > 0 /\ buffer[c][k] = stored - 1 /\ Head(buffer[c]) = buffer[c][1]
        /\ buffer[c][1] \in Nat
    BY <1>1, <1>6, TailFacts DEF Joins
  <2>2. Head(buffer'[c]) = Head(buffer[c])
    BY <1>2, <1>3, <2>1
  <2>3. Covers(c, Head(buffer[c]) - 1)'
    BY <1>4, <1>6, <2>1, <2>2 DEF NoGap, Covers, Covered
  <2>4. ASSUME NEW i \in 1..Len(buffer'[c]) - 1 PROVE buffer'[c][i + 1] = buffer'[c][i] + 1
    <3>1. CASE i = k
      BY <1>1, <1>2, <2>1, <3>1
    <3>2. CASE i # k
      <4>1. i \in 1..k - 1 /\ i \in 1..k /\ i + 1 \in 1..k
        BY <1>2, <2>4, <3>2
      <4>2. buffer[c][i + 1] = buffer[c][i] + 1
        BY <4>1 DEF NoGap
      <4> QED  BY <1>2, <4>1, <4>2
    <3> QED  BY <3>1, <3>2
  <2>5. Joins(c, stored + 1)'
    BY <1>1, <1>2, <1>3 DEF Joins
  <2> QED  BY <1>1, <2>3, <2>4, <2>5 DEF NoGap
<1> QED  BY <1>5, <1>6

\* A handler that has received an event, and is past it, has missed none.
LEMMA NoGapReceived ==
  ASSUME TypeOK, TypeOK', NEW c \in Conns, NoGap(c), buffer[c] # <<>>,
         buffer'[c] = Tail(buffer[c]), Head(buffer[c]) \in Events,
         IngestedAt(Head(buffer[c])) <= position'[c], UNCHANGED <<stored, state[c], cancelled>>, Due(c)' <=> Due(c)
  PROVE  NoGap(c)'
<1> DEFINE k == Len(buffer[c])
           h == Head(buffer[c])
<1>1. /\ buffer[c] \in Seq(Nat) /\ stored \in Nat /\ stored' = stored /\ position'[c] \in Nat
  BY StreamAssumption DEF TypeOK, BusTypeOK, Conns
<1>2. /\ buffer'[c] \in Seq(Nat) /\ k \in Nat \ {0} /\ Len(buffer'[c]) = k - 1
      /\ h = buffer[c][1] /\ h \in Nat
      /\ \A i \in 1..(k - 1) : buffer'[c][i] = buffer[c][i + 1]
  BY <1>1, TailFacts
<1>3. \A i \in 1..k - 1 : buffer[c][i + 1] = buffer[c][i] + 1
  BY DEF NoGap
<1>4. ASSUME NEW n \in 1..h PROVE Covered(c, n)'
  <2>1. n \in Events /\ h \in Events /\ n <= h
    BY <1>2, <1>4, StreamAssumption DEF Events
  <2>2. /\ StoredAt(n) <= IngestedAt(n) /\ IngestedAt(n) <= IngestedAt(h)
        /\ StoredAt(n) \in Nat /\ IngestedAt(n) \in Nat /\ IngestedAt(h) \in Nat
    BY <2>1, TimeTypes, TimesGrow
  <2>3. StoredAt(n) <= position'[c]
    BY <1>1, <2>2
  <2> QED  BY <2>1, <2>3 DEF Covered, StoredAt, IngestedAt
<1>5. \A e \in Nat : Joins(c, e) => buffer[c][k] = e - 1
  BY DEF Joins
<1> HIDE DEF k, h
<1>6. CASE k = 1
  <2>1. Len(buffer'[c]) = 0
    BY <1>2, <1>6
  <2>2. buffer'[c] = <<>>
    BY <1>2, <2>1, NothingLeft
  <2>3. \A e \in Nat : Joins(c, e) => e - 1 = h
    BY <1>2, <1>5, <1>6
  <2>4. /\ Joins(c, stored) => Joins(c, stored)'
        /\ Joins(c, stored + 1) => Joins(c, stored + 1)'
    <3>1. Joins(c, stored) => Covers(c, stored - 1)'
      <4>1. Joins(c, stored) => stored' - 1 = h
        BY <1>1, <2>3
      <4> QED  BY <1>4, <4>1 DEF Covers, Covered
    <3>2. Joins(c, stored + 1) => Covers(c, (stored + 1) - 1)'
      <4>1. Joins(c, stored + 1) => (stored' + 1) - 1 = h
        BY <1>1, <2>3
      <4> QED  BY <1>4, <4>1 DEF Covers, Covered
    <3> QED  BY <2>2, <3>1, <3>2 DEF Joins
  <2> QED  BY <1>1, <2>1, <2>2, <2>4 DEF NoGap
<1>7. CASE k # 1
  <2>1. k - 1 \in Nat \ {0} /\ 1 \in 1..(k - 1)
    BY <1>2, <1>7
  <2>2. buffer'[c] # <<>>
    BY <1>2, <2>1, EmptyFacts
  <2>3. Head(buffer'[c]) = h + 1
    <3>1. Head(buffer'[c]) = buffer'[c][1]
      BY <1>2, <2>2, TailFacts
    <3> QED  BY <1>2, <1>3, <2>1, <3>1
  <2>4. Covers(c, Head(buffer[c]) - 1)'
    <3>1. (h + 1) - 1 = h
      BY <1>2
    <3>2. \A n \in 1..((h + 1) - 1) : Covered(c, n)'
      BY <1>4, <3>1
    <3> QED  BY <2>3, <3>2 DEF Covers, Covered
  <2>5. ASSUME NEW i \in 1..Len(buffer'[c]) - 1 PROVE buffer'[c][i + 1] = buffer'[c][i] + 1
    <3>1. i \in 1..(k - 1) /\ i + 1 \in 1..(k - 1)
      BY <1>2, <2>5
    <3> QED  BY <1>2, <1>3, <3>1
  <2>6. buffer'[c][Len(buffer'[c])] = buffer[c][k]
    <3>1. k - 1 \in 1..(k - 1) /\ (k - 1) + 1 = k
      BY <1>2, <2>1
    <3> QED  BY <1>2, <3>1
  <2>7. /\ Joins(c, stored) => Joins(c, stored)'
        /\ Joins(c, stored + 1) => Joins(c, stored + 1)'
    BY <1>1, <1>5, <2>2, <2>6 DEF Joins
  <2> QED  BY <1>1, <2>4, <2>5, <2>7 DEF NoGap
<1> QED  BY <1>6, <1>7

\* A handler that has just subscribed is going to list what is in the store.
LEMMA NoGapAtFirst ==
  ASSUME TypeOK, NEW c \in Conns, buffer'[c] = <<>>, handler'[c] = "list", UNCHANGED stored
  PROVE  NoGap(c)'
<1>1. stored \in Nat /\ stored' = stored
  BY StreamAssumption DEF TypeOK
<1>2. /\ \A n \in 1..(stored - 1) : Covered(c, n)'
      /\ \A n \in 1..((stored + 1) - 1) : Covered(c, n)'
  BY <1>1 DEF Covered
<1>3. Joins(c, stored)' /\ Joins(c, stored + 1)'
  BY <1>1, <1>2 DEF Joins, Covers, Covered
<1>4. Len(buffer'[c]) = 0
  BY EmptyFacts
<1> QED  BY <1>1, <1>3, <1>4 DEF NoGap

\* No step of a handler opens a gap: it lists after it has subscribed, and sends
\* all of its list before it turns to its channel.
LEMMA HandlersMissNothing ==
  ASSUME SInv, SInv', Gapless, NEW c \in Conns, HandlerStep(c) \/ IdleCloses(c)
  PROVE  Gapless'
<1> USE DEF SInv
<1>1. UNCHANGED <<config, pub, event, snapshot, todo, current, cancelled, run, stored>>
  <2>1. UNCHANGED <<publishVars, config, cancelled>>
    BY HandlersKeep
  <2>2. UNCHANGED runVars
    BY DEF HandlerStep, IdleCloses, Subscribes, SubscribeFails, Lists, ListFails, Backfills,
       BackfillEnds, Skips, Forwards, WriteFails, ReadFails, SubscriptionEnds, Unsubscribes,
       FinishesClose, HandlerEnds
  <2> QED  BY <2>1, <2>2 DEF publishVars, runVars
<1>2. \A d \in Conns : Due(d)' <=> Due(d)
  BY <1>1 DEF Due
<1>3. ASSUME NEW d \in Conns, d # c, handler'[d] \in Working PROVE NoGap(d)'
  <2>1. UNCHANGED <<state[d], handler[d], position[d], buffer[d], listed[d]>>
    BY <1>3, HandlersApart
  <2>2. NoGap(d)
    BY <1>3, <2>1 DEF Gapless
  <2> QED  BY <1>1, <1>2, <2>1, <2>2, NoGapKept DEF Undisturbed, Covered
<1>4. ASSUME handler'[c] \in Working PROVE NoGap(c)'
  <2> USE DEF TypeOK, BusTypeOK, Conns
  <2>1. CASE Subscribes(c)
    <3>1. buffer[c] = <<>> /\ handler'[c] = "list" /\ UNCHANGED buffer
      BY <2>1 DEF Subscribes, Subscribe, MoveTo, Places
    <3> QED  BY <1>1, <3>1, NoGapAtFirst
  <2>2. CASE \/ SubscribeFails(c) \/ ListFails(c) \/ WriteFails(c) \/ ReadFails(c)
             \/ SubscriptionEnds(c) \/ Unsubscribes(c) \/ HandlerEnds(c)
    BY <1>4, <2>2 DEF SubscribeFails, ListFails, WriteFails, ReadFails, SubscriptionEnds,
       Unsubscribes, HandlerEnds, Closing, MoveTo, Working, handlerVars
  <2>3. ASSUME handler[c] \in Working, UNCHANGED buffer[c],
               state'[c] = "open" => state[c] = "open",
               \A n \in Nat \ {0} : Covered(c, n) => Covered(c, n)'
        PROVE  NoGap(c)'
    <3>1. NoGap(c)
      BY <2>3 DEF Gapless
    <3> QED  BY <1>1, <1>2, <2>3, <3>1, NoGapKept DEF Undisturbed
  <2>4. CASE Lists(c)
    <3>1. /\ UNCHANGED <<buffer, state, position>>
          /\ handler[c] = "list" /\ handler'[c] = "backfill"
          /\ listed'[c] = stored
      BY <2>4 DEF Lists, MoveTo, busVars, subscriptionVars
    <3> QED  BY <2>3, <3>1 DEF Covered, Working
  <2>5. CASE Backfills(c)
    <3>1. PICK n \in Backlog(c) : WriteEvent(c, n, StoredAt(n))
      BY <2>5 DEF Backfills
    <3>2. UNCHANGED <<buffer, state, handler, listed, stored>> /\ handler[c] = "backfill"
      BY <2>5 DEF Backfills, busVars, subscriptionVars, runVars
    <3>3. position'[c] = StoredAt(n) /\ position[c] < StoredAt(n)
      BY <3>1 DEF Backlog, WriteEvent
    <3>4. n \in Events
      BY <3>1, StreamAssumption DEF Backlog, Events
    <3>5. \A m \in Events : StoredAt(m) <= position[c] => StoredAt(m) <= position'[c]
      BY <3>3, <3>4, TimeTypes
    <3> QED  BY <2>3, <3>2, <3>5 DEF Covered, Working, StoredAt, IngestedAt
  <2>6. CASE BackfillEnds(c)
    <3>1. /\ UNCHANGED <<buffer, state, position>>
          /\ handler[c] = "backfill" /\ handler'[c] = "live"
          /\ Backlog(c) = {}
      BY <2>6 DEF BackfillEnds, MoveTo, busVars, subscriptionVars
    <3>2. ASSUME NEW n \in Nat \ {0}, Covered(c, n)
          PROVE  n \in Events /\ StoredAt(n) <= position[c]
      <4>1. CASE n <= listed[c]
        <5>1. n \in 1..listed[c] /\ n \in Events
          BY <4>1, StreamAssumption DEF Events
        <5>2. ~(StoredAt(n) > position[c])
          BY <3>1, <5>1 DEF Backlog
        <5>3. position[c] \in Nat /\ StoredAt(n) \in Nat
          BY <5>1, TimeTypes
        <5> QED  BY <5>1, <5>2, <5>3
      <4> QED  BY <3>1, <3>2, <4>1 DEF Covered
    <3> QED  BY <2>3, <3>1, <3>2 DEF Covered, Working, StoredAt, IngestedAt
  <2>7. CASE Skips(c)
    <3>1. /\ handler[c] = "live" /\ IngestedAt(Head(buffer[c])) <= position[c]
          /\ UNCHANGED <<state, position>>
      BY <2>7 DEF Skips, Receive, handlerVars
    <3>2. buffer[c] # <<>> /\ buffer'[c] = Tail(buffer[c])
      <4>1. Receive(c)
        BY <2>7 DEF Skips
      <4> QED  BY <4>1, ReceiveFacts
    <3>3. NoGap(c) /\ Head(buffer[c]) \in Events
      BY <3>1, <3>2, HeadIsStored DEF Gapless, Working
    <3> QED  BY <1>1, <1>2, <3>1, <3>2, <3>3, NoGapReceived
  <2>8. CASE Forwards(c)
    <3>1. handler[c] = "live" /\ UNCHANGED state
      BY <2>8 DEF Forwards, Receive
    <3>2. buffer[c] # <<>> /\ buffer'[c] = Tail(buffer[c])
      <4>1. Receive(c)
        BY <2>8 DEF Forwards
      <4> QED  BY <4>1, ReceiveFacts
    <3>3. position'[c] = IngestedAt(Head(buffer[c])) /\ position'[c] \in Nat
      BY <2>8, StreamAssumption DEF Forwards, WriteEvent
    <3>4. /\ IngestedAt(Head(buffer[c])) <= position'[c] /\ NoGap(c)
          /\ Head(buffer[c]) \in Events
      BY <3>1, <3>2, <3>3, HeadIsStored DEF Gapless, Working
    <3> QED  BY <1>1, <1>2, <3>1, <3>2, <3>4, NoGapReceived
  <2>9. CASE FinishesClose(c) \/ IdleCloses(c)
    <3>1. /\ UNCHANGED <<buffer, handler, position, listed>>
          /\ state'[c] # "open"
      BY <2>9 DEF FinishesClose, IdleCloses, CloseDone, Cleanup, handlerVars
    <3> QED  BY <1>1, <1>4, <2>3, <3>1 DEF Covered
  <2> QED  BY <2>1, <2>2, <2>4, <2>5, <2>6, <2>7, <2>8, <2>9 DEF HandlerStep
<1> QED  BY <1>3, <1>4 DEF Gapless

\* An event that is stored is due to every subscriber, and a blocking publisher
\* passes over none.
LEMMA RunMissesNothing ==
  ASSUME SInv, SInv', Gapless, config.SlowConsumerPolicy = "block",
         StoreEvent \/ RunStep \/ RunCancelled
  PROVE  Gapless'
<1> SUFFICES ASSUME NEW c \in Conns, handler'[c] \in Working PROVE NoGap(c)'
  BY DEF Gapless
<1>1. UNCHANGED <<handler, position, listed>> /\ NoGap(c)
  <2>1. UNCHANGED handlerVars
    BY DEF StoreEvent, RunStep, Publish, Publishing, Published, RunCancelled
  <2> QED  BY <2>1 DEF handlerVars, Gapless
<1>2. c \in Nat \ {0} /\ c \in Subscribers /\ stored \in Nat /\ TypeOK
  BY BusAssumption, StreamAssumption DEF Conns, Subscribers, SInv, TypeOK
<1>3. run = "publishing" <=> pub # "idle"
  BY DEF SInv, InStore
<1>4. ASSUME UNCHANGED <<buffer[c], stored>>,
             state'[c] = "open" => state[c] = "open",
             state'[c] = "open" /\ ~cancelled' => ~cancelled,
             state'[c] = "open" => (Due(c)' <=> Due(c))
      PROVE  NoGap(c)'
  BY <1>1, <1>2, <1>4, NoGapKept DEF Undisturbed, Covered
<1>5. CASE StoreEvent
  <2>1. /\ stored' = stored + 1 /\ UNCHANGED <<state, buffer, cancelled>> /\ ~cancelled
        /\ run = "emit" /\ run' = "publish"
    BY <1>5 DEF StoreEvent, busVars, subscriptionVars
  <2>2. ~Due(c) /\ Due(c)'
    BY <2>1 DEF Due
  <2>3. \A e \in Nat : Covers(c, e - 1) => Covers(c, e - 1)'
    BY <1>1, <1>2, <2>1 DEF Covers, Covered
  <2>4. Joins(c, stored + 1) => Joins(c, stored)'
    <3>1. Covers(c, (stored + 1) - 1) => \A n \in 1..(stored' - 1) : Covered(c, n)'
      BY <1>1, <1>2, <2>1 DEF Covers, Covered
    <3> QED  BY <1>2, <2>1, <3>1 DEF Joins, Covers
  <2>5. buffer[c] # <<>> => Head(buffer[c]) \in Nat
    BY <1>2, TailFacts DEF TypeOK, BusTypeOK
  <2>6. buffer'[c] # <<>> => Covers(c, Head(buffer[c]) - 1)'
    BY <1>1, <2>1, <2>3, <2>5 DEF NoGap, Covers, Covered
  <2> QED  BY <1>1, <2>1, <2>2, <2>4, <2>6 DEF NoGap
<1>6. CASE Publish
  <2>1. /\ UNCHANGED <<state, buffer, cancelled, stored, current>> /\ current = 0
        /\ run = "publish" /\ run' = "publishing" /\ todo' = IF cancelled THEN {} ELSE Open
    BY <1>2, <1>6 DEF Publish, PublishBegins, subscriptionVars, TypeOK, BusTypeOK
  <2>2. CASE cancelled
    <3>1. ~Due(c)'
      BY <1>2, <2>1, <2>2 DEF Due
    <3>3. \A e \in Nat : Covers(c, e - 1) => Covers(c, e - 1)'
      BY <1>1, <1>2, <2>1 DEF Covers, Covered
    <3>4. buffer[c] # <<>> => Head(buffer[c]) \in Nat
      BY <1>2, TailFacts DEF TypeOK, BusTypeOK
    <3>5. buffer'[c] # <<>> => Covers(c, Head(buffer[c]) - 1)'
      BY <1>1, <2>1, <3>3, <3>4 DEF NoGap, Covers, Covered
    <3> QED  BY <1>1, <2>1, <2>2, <3>1, <3>5 DEF NoGap
  <2>3. CASE ~cancelled
    <3>1. state'[c] = "open" => Due(c) /\ Due(c)'
      BY <1>2, <2>1, <2>3 DEF Due, Open
    <3> QED  BY <1>4, <2>1, <3>1
  <2> QED  BY <2>2, <2>3
<1>7. CASE Publishing
  <2>0. run = "publishing" /\ run' = run /\ stored' = stored
    BY <1>2, <1>3, <1>7 DEF Publishing, PublishStep, SkipClosed, TrySubscriber, Send, Sending,
       SendRecovers, SendCancelled, DropLatest, FindsFull, DropOldest, runVars
  <2>1. ASSUME UNCHANGED <<buffer[c], state, cancelled>>,
               state[c] = "open" => ((c \in todo' \/ c = current') <=> (c \in todo \/ c = current))
        PROVE  NoGap(c)'
    BY <1>4, <2>0, <2>1 DEF Due
  <2>2. CASE \E t \in Subscribers : SkipClosed(t) \/ TrySubscriber(t)
    <3>1. PICK t \in Subscribers : SkipClosed(t) \/ TrySubscriber(t)
      BY <2>2
    <3>2. /\ UNCHANGED <<buffer, state, cancelled>> /\ t \in todo /\ todo' = todo \ {t}
          /\ current = 0
          /\ (state[t] = "done" /\ current' = current) \/ current' = t
      BY <1>2, <3>1 DEF SkipClosed, TrySubscriber, TypeOK, BusTypeOK, subscriptionVars
    <3> QED  BY <1>2, <2>1, <3>2
  <2>3. CASE Send
    <3>1. /\ current \in Subscribers /\ current \notin todo /\ event = stored /\ stored > 0
          /\ buffer' = [buffer EXCEPT ![current] = Append(@, event)]
          /\ buffer \in [Subscribers -> Seq(Nat)]
          /\ state[current] = "open" /\ current' = 0 /\ UNCHANGED <<todo, state, cancelled>>
      BY <1>2, <2>3 DEF Send, Sending, GoOn, SInv, Places, InStore, TypeOK, BusTypeOK
    <3>2. CASE c = current
      <4>1. Due(c) /\ ~Due(c)'
        BY <1>2, <2>0, <3>1, <3>2 DEF Due
      <4>2. Joins(c, stored)
        BY <1>1, <3>1, <3>2, <4>1 DEF NoGap
      <4>3. buffer'[c] = Append(buffer[c], stored)
        BY <3>1, <3>2
      <4> QED  BY <1>1, <1>2, <2>0, <3>1, <4>1, <4>2, <4>3, NoGapSent
    <3>3. CASE c # current
      BY <1>2, <2>1, <3>1, <3>3
    <3> QED  BY <3>2, <3>3
  <2>4. CASE SendRecovers
    <3>1. state[current] # "open" /\ current' = 0 /\ UNCHANGED <<buffer, state, cancelled, todo>>
      BY <2>4 DEF SendRecovers, GoOn, subscriptionVars
    <3> QED  BY <1>2, <2>1, <3>1
  <2>5. CASE SendCancelled
    <3>1. /\ cancelled /\ current' = 0 /\ UNCHANGED <<buffer, state, cancelled, todo>>
      BY <2>5 DEF SendCancelled, GoOn, subscriptionVars
    <3>2. CASE c # current
      BY <1>2, <2>1, <3>1, <3>2
    <3>3. CASE c = current
      <4>1. ~Due(c)'
        BY <1>2, <2>0, <3>1, <3>3 DEF Due, SInv, Places
      <4>2. \A e \in Nat : Covers(c, e - 1) => Covers(c, e - 1)'
        BY <1>1, <1>2, <2>0 DEF Covers, Covered
      <4>3. buffer[c] # <<>> => Head(buffer[c]) \in Nat
        BY <1>2, TailFacts DEF TypeOK, BusTypeOK
      <4>4. buffer'[c] # <<>> => Covers(c, Head(buffer[c]) - 1)'
        BY <1>1, <3>1, <4>2, <4>3 DEF NoGap, Covers, Covered
      <4> QED  BY <1>1, <3>1, <4>1, <4>4 DEF NoGap
    <3> QED  BY <3>2, <3>3
  <2>6. CASE DropLatest \/ FindsFull \/ DropOldest
    BY <2>6 DEF DropLatest, FindsFull, DropOldest, SInv, Places
  <2> QED  BY <1>7, <2>2, <2>3, <2>4, <2>5, <2>6 DEF Publishing, PublishStep
<1>8. CASE Published
  <2>1. /\ UNCHANGED <<state, buffer, cancelled, stored>> /\ todo = {} /\ current = 0
        /\ run' = "emit" /\ run = "publishing"
    BY <1>2, <1>3, <1>8 DEF Published, PublishEnds, subscriptionVars, TypeOK, BusTypeOK
  <2>2. ~Due(c) /\ ~Due(c)'
    BY <1>2, <2>1 DEF Due
  <2> QED  BY <1>4, <2>1, <2>2
<1>9. CASE RunCancelled
  <2>1. UNCHANGED <<state, buffer, stored, run, todo, current>> /\ cancelled'
    BY <1>9 DEF RunCancelled, subscriptionVars, runVars, publishVars
  <2> QED  BY <1>4, <2>1 DEF Due
<1> QED  BY <1>5, <1>6, <1>7, <1>8, <1>9 DEF RunStep

\* The page disturbs no handler.
LEMMA PageDisturbsNone ==
  ASSUME SInv, Gapless, PageStep \/ LinkBreaks \/ PageStalls \/ PageLeaves \/ UNCHANGED vars
  PROVE  Gapless'
<1> SUFFICES ASSUME NEW c \in Conns, handler'[c] \in Working PROVE NoGap(c)'
  BY DEF Gapless
<1>1. UNCHANGED <<buffer, state, cancelled, run, stored, todo, current, listed>>
  BY DEF PageStep, PageLoads, Connects, PageIsClosed, LinkBreaks, PageStalls, PageLeaves,
         PageGoes, busVars, subscriptionVars, publishVars, runVars, handlerVars, vars
<1>2. UNCHANGED <<handler[c], position[c]>>
  <2>1. CASE Connects
    <3>1. c # conn'
      BY <2>1 DEF Connects, MoveTo, Working, SInv, TypeOK
    <3> QED  BY <2>1, <3>1 DEF Connects, MoveTo, SInv, TypeOK
  <2>2. CASE UNCHANGED handlerVars
    BY <2>2 DEF handlerVars
  <2> QED
    BY <2>1, <2>2 DEF PageStep, PageLoads, PageIsClosed, LinkBreaks, PageStalls, PageLeaves,
                      PageGoes, vars
<1>3. NoGap(c)
  BY <1>2 DEF Gapless
<1> QED  BY <1>1, <1>2, <1>3, NoGapKept DEF SInv, Undisturbed, Due, Covered

\* A page whose cursor and events do not change keeps up with the store: a new
\* event is later than the cursor, or of a time that the page shows.
LEMMA StoreMissesNothing ==
  ASSUME SInv, SInv', PageComplete, config.SlowConsumerPolicy = "block", UNCHANGED config,
         UNCHANGED <<shown, cursor>>, page' # "new" /\ page = "new" => cursor = 0,
         stored' = stored \/ stored' = stored + 1
  PROVE  PageComplete'
<1>1. /\ stored \in Nat /\ stored' \in Nat /\ cursor \in Nat /\ MaxEvents \in Nat
      /\ stored <= MaxEvents /\ stored' <= MaxEvents
  BY StreamAssumption DEF SInv, TypeOK
<1>2. \A n \in 1..stored' : n \in Events
  BY <1>1 DEF Events
<1>3. ASSUME stored # 0 PROVE cursor <= IngestedAt(stored')
  <2>1. stored \in Events /\ stored' \in Events /\ stored <= stored'
    BY <1>1, <1>3 DEF Events
  <2>2. IngestedAt(stored) <= IngestedAt(stored') /\ cursor <= IngestedAt(stored)
    BY <1>3, <2>1, TimesGrow DEF PageComplete
  <2> QED  BY <1>1, <2>1, <2>2, TimeTypes
<1>4. ASSUME NEW n \in 1..stored', page' # "new", StoredAt(n) <= cursor PROVE ShowsTime(n)
  <2>1. page # "new" /\ stored # 0 /\ n \in Events /\ stored \in Events
    <3>1. n \in Events /\ StoredAt(n) \in Nat /\ StoredAt(n) > 0
      BY <1>2, <1>4, TimeTypes
    <3>2. cursor # 0
      BY <1>1, <1>4, <3>1
    <3> QED  BY <1>1, <1>4, <3>1, <3>2 DEF PageComplete, Events
  <2>2. CASE n \in 1..stored
    BY <1>4, <2>1, <2>2 DEF PageComplete, NothingBehindCursor
  <2>3. CASE n \notin 1..stored
    <3>1. stored \in 1..stored /\ stored <= n
      BY <1>1, <2>1, <2>3
    <3>2. /\ cursor <= IngestedAt(stored) /\ IngestedAt(stored) <= IngestedAt(n)
          /\ IngestedAt(stored) \in Nat /\ IngestedAt(n) \in Nat /\ StoredAt(n) \in Nat
      BY <2>1, <3>1, TimesGrow, TimeTypes DEF PageComplete
    <3>3. StoredAt(stored) = StoredAt(n)
      <4>1. Truncated(IngestedAt(stored)) = StoredAt(n)
        BY <1>1, <1>4, <2>1, <3>2, TimeOfEvent
      <4> QED  BY <4>1 DEF StoredAt
    <3>4. ShowsTime(stored)
      BY <1>4, <2>1, <3>1, <3>3 DEF PageComplete, NothingBehindCursor
    <3> QED  BY <3>3, <3>4 DEF ShowsTime
  <2> QED  BY <2>2, <2>3
<1>5. NothingBehindCursor'
  BY <1>4 DEF NothingBehindCursor, ShowsTime, StoredAt, IngestedAt
<1>6. \A d \in shown' : d.n \in 1..stored' /\ Truncated(d.at) = StoredAt(d.n)
  BY <1>1 DEF PageComplete
<1>7. IF stored' = 0 THEN cursor' = 0 ELSE cursor' <= IngestedAt(stored')
  BY <1>1, <1>3, <1>5, TimeTypes DEF PageComplete, Events
<1> QED  BY <1>5, <1>6, <1>7 DEF PageComplete, StoredAt, IngestedAt

\* A page that is sent event k, by a handler past all times before that of k,
\* shows the time of k and so lacks none.
LEMMA SentInOrder ==
  ASSUME SInv, SInv', PageComplete, config.SlowConsumerPolicy = "block", UNCHANGED config,
         NEW c \in Conns, handler[c] \in Working, NEW k \in 1..stored, NEW at \in Nat,
         WriteEvent(c, k, at), at \in {StoredAt(k), IngestedAt(k)}, UNCHANGED stored,
         \A n \in 1..k : StoredAt(n) = StoredAt(k) \/ StoredAt(n) <= position[c]
  PROVE  PageComplete'
<1>1. /\ stored \in Nat /\ stored' = stored /\ k \in Nat /\ k <= stored /\ stored # 0
      /\ \A n \in 1..stored : n \in Events
  BY StreamAssumption DEF SInv, TypeOK, Events
<1>2. k \in Events /\ stored \in Events
  BY <1>1
<1>3. Truncated(at) = StoredAt(k)
  BY <1>2, TimeTypes, TimeOfEvent
<1>4. CASE ~Connected(c)
  <2>1. UNCHANGED <<shown, cursor, page>>
    BY <1>4 DEF WriteEvent
  <2> QED  BY <2>1, StoreMissesNothing
<1>5. CASE Connected(c)
  <2>1. /\ cursor' = at /\ page' = page /\ page # "new"
        /\ shown' = IF \E d \in shown : d.at = at THEN shown
                    ELSE shown \union {[n |-> k, at |-> at]}
    BY <1>5 DEF WriteEvent, Merge, Connected
  <2>2. position[c] = cursor
    BY <1>5 DEF Connected, SInv, SameCursor
  <2>3. \A d \in shown' : d.n \in 1..stored /\ Truncated(d.at) = StoredAt(d.n)
    BY <1>3, <2>1 DEF PageComplete
  <2>4. \E d \in shown' : StoredAt(d.n) = StoredAt(k)
    <3>1. CASE \E d \in shown : d.at = at
      <4>1. PICK d \in shown : d.at = at
        BY <3>1
      <4>2. StoredAt(d.n) = StoredAt(k)
        BY <1>3, <4>1 DEF PageComplete
      <4> QED  BY <2>1, <4>1, <4>2
    <3>2. CASE ~\E d \in shown : d.at = at
      <4>1. [n |-> k, at |-> at] \in shown'
        BY <2>1, <3>2
      <4> QED  BY <4>1
    <3> QED  BY <3>1, <3>2
  <2>5. ASSUME NEW n \in 1..stored, StoredAt(n) <= at
        PROVE  \E d \in shown' : StoredAt(d.n) = StoredAt(n)
    <3>1. CASE StoredAt(n) = StoredAt(k)
      BY <2>4, <3>1
    <3>2. CASE StoredAt(n) # StoredAt(k) /\ n \in 1..k
      <4>1. ShowsTime(n)
        BY <2>1, <2>2, <3>2 DEF PageComplete, NothingBehindCursor
      <4> QED  BY <2>1, <4>1 DEF ShowsTime
    <3>3. CASE n \notin 1..k
      <4>1. k <= n /\ n \in Events
        BY <1>1, <3>3
      <4>2. /\ at <= IngestedAt(k) /\ IngestedAt(k) <= IngestedAt(n)
            /\ IngestedAt(k) \in Nat /\ IngestedAt(n) \in Nat
        BY <1>2, <4>1, TimeTypes, TimesGrow
      <4>3. Truncated(at) = StoredAt(n)
        BY <2>5, <4>1, <4>2, TimeOfEvent
      <4> QED  BY <1>3, <2>4, <4>3
    <3> QED  BY <3>1, <3>2, <3>3
  <2>6. at <= IngestedAt(stored)
    BY <1>1, <1>2, TimeTypes, TimesGrow
  <2>7. NothingBehindCursor'
    BY <1>1, <2>1, <2>5 DEF NothingBehindCursor, ShowsTime, StoredAt, IngestedAt
  <2> QED
    BY <1>1, <2>1, <2>3, <2>6, <2>7 DEF PageComplete, StoredAt, IngestedAt
<1> QED  BY <1>4, <1>5

\* The page is sent an event only when it lacks no earlier time.
LEMMA PageMissesNothing ==
  ASSUME SInv, SInv', Gapless, PageComplete, config.SlowConsumerPolicy = "block", [Next]_vars
  PROVE  PageComplete'
<1>1. /\ stored \in Nat /\ UNCHANGED config
      /\ \A n \in 1..stored : n \in Events
  BY StreamAssumption, ChannelsChange DEF SInv, TypeOK, Events
<1>2. ASSUME NEW c \in Conns, Backfills(c) PROVE PageComplete'
  <2>1. PICK k \in Backlog(c) : /\ \A m \in Backlog(c) : StoredAt(k) <= StoredAt(m)
                                /\ WriteEvent(c, k, StoredAt(k))
    BY <1>2 DEF Backfills
  <2>2. listed[c] \in 0..stored /\ position[c] \in Nat
    BY StreamAssumption DEF SInv, InStore, TypeOK
  <2>3. /\ k \in 1..stored /\ k \in 1..listed[c] /\ handler[c] \in Working
        /\ UNCHANGED stored
    BY <1>1, <1>2, <2>1, <2>2 DEF Backlog, Backfills, Working, runVars
  <2>4. ASSUME NEW n \in 1..k PROVE StoredAt(n) = StoredAt(k) \/ StoredAt(n) <= position[c]
    <3>1. n \in 1..listed[c] /\ n \in Events /\ k \in Events /\ n <= k
      BY <1>1, <2>2, <2>3
    <3>2. StoredAt(n) \in Nat /\ StoredAt(k) \in Nat
      BY <3>1, TimeTypes
    <3>3. CASE n \in Backlog(c)
      <4>1. /\ StoredAt(k) <= StoredAt(n) /\ StoredAt(n) <= IngestedAt(n)
            /\ IngestedAt(n) <= IngestedAt(k)
            /\ IngestedAt(n) \in Nat /\ IngestedAt(k) \in Nat
        BY <2>1, <3>1, <3>3, TimeTypes, TimesGrow
      <4>2. Truncated(StoredAt(n)) = StoredAt(k)
        BY <3>1, <3>2, <4>1, TimeOfEvent
      <4>3. Truncated(StoredAt(n)) = StoredAt(n)
        BY <3>1, <3>2, <4>1, TimeOfEvent
      <4> QED  BY <4>2, <4>3
    <3>4. CASE n \notin Backlog(c)
      BY <2>2, <3>1, <3>2, <3>4 DEF Backlog
    <3> QED  BY <3>3, <3>4
  <2> QED  BY <1>1, <2>1, <2>3, <2>4, TimeTypes, SentInOrder
<1>3. ASSUME NEW c \in Conns, Forwards(c) PROVE PageComplete'
  <2> DEFINE k == Head(buffer[c])
  <2>1. /\ handler[c] \in Working /\ WriteEvent(c, k, IngestedAt(k)) /\ UNCHANGED stored
        /\ handler[c] = "live" /\ buffer[c] # <<>>
    BY <1>3 DEF Forwards, Receive, Working, runVars
  <2>2. k \in 1..stored /\ k \in Events
    BY <2>1, HeadIsStored DEF SInv
  <2>3. Covers(c, k - 1)
    BY <2>1 DEF Gapless, NoGap
  <2> HIDE DEF k
  <2>4. ASSUME NEW n \in 1..k PROVE StoredAt(n) = StoredAt(k) \/ StoredAt(n) <= position[c]
    <3>1. CASE n = k
      BY <3>1
    <3>2. CASE n # k
      <4>1. n \in 1..(k - 1)
        BY <1>1, <2>2, <3>2
      <4> QED  BY <2>1, <2>3, <4>1 DEF Covers, Covered
    <3> QED  BY <3>1, <3>2
  <2> QED  BY <1>1, <2>1, <2>2, <2>4, TimeTypes, SentInOrder
<1>4. CASE PageLoads
  <2>1. /\ shown' = {[n |-> n, at |-> StoredAt(n)] : n \in 1..stored}
        /\ cursor' = IF stored = 0 THEN 0 ELSE StoredAt(stored)
        /\ stored' = stored
    BY <1>4 DEF PageLoads, runVars
  <2>2. ASSUME NEW n \in 1..stored PROVE Truncated(StoredAt(n)) = StoredAt(n)
    BY <1>1, <2>2, TimeTypes, TimeOfEvent
  <2>3. \A d \in shown' : d.n \in 1..stored /\ Truncated(d.at) = StoredAt(d.n)
    BY <2>1, <2>2
  <2>4. IF stored = 0 THEN cursor' = 0 ELSE cursor' <= IngestedAt(stored)
    BY <1>1, <2>1, TimeTypes
  <2>5. ASSUME NEW n \in 1..stored PROVE \E d \in shown' : StoredAt(d.n) = StoredAt(n)
    <3>1. [n |-> n, at |-> StoredAt(n)] \in shown'
      BY <2>1
    <3> QED  BY <3>1
  <2> QED
    BY <2>1, <2>3, <2>4, <2>5
       DEF PageComplete, NothingBehindCursor, ShowsTime, StoredAt, IngestedAt
<1>5. CASE StoreEvent \/ RunStep \/ RunCancelled \/ UNCHANGED vars
  <2>1. UNCHANGED pageVars /\ (stored' = stored \/ stored' = stored + 1)
    BY <1>5 DEF StoreEvent, RunStep, Publish, Publishing, Published, RunCancelled, vars, runVars
  <2> QED  BY <1>1, <2>1, StoreMissesNothing DEF pageVars
<1>6. ASSUME NEW c \in Conns,
             \/ Subscribes(c) \/ SubscribeFails(c) \/ Lists(c) \/ ListFails(c) \/ BackfillEnds(c)
             \/ Skips(c) \/ WriteFails(c) \/ ReadFails(c) \/ SubscriptionEnds(c)
             \/ Unsubscribes(c) \/ FinishesClose(c) \/ HandlerEnds(c) \/ IdleCloses(c)
      PROVE  PageComplete'
  <2>1. UNCHANGED <<pageVars, runVars>>
    BY <1>6 DEF Subscribes, SubscribeFails, Lists, ListFails, BackfillEnds, Skips,
       WriteFails, ReadFails, SubscriptionEnds, Unsubscribes, FinishesClose, HandlerEnds,
       IdleCloses
  <2> QED  BY <1>1, <2>1, StoreMissesNothing DEF pageVars, runVars
<1>7. CASE Connects \/ PageIsClosed \/ LinkBreaks \/ PageStalls \/ PageLeaves
  <2>1. UNCHANGED <<shown, cursor, stored>> /\ page # "new" /\ page' # "new"
    BY <1>7 DEF Connects, PageIsClosed, LinkBreaks, PageStalls, PageLeaves, PageGoes, runVars
  <2> QED  BY <1>1, <2>1, StoreMissesNothing
<1> QED  BY <1>2, <1>3, <1>4, <1>5, <1>6, <1>7 DEF Next, HandlerStep, PageStep

\* No handler has a gap before it, and no page one behind its cursor.
THEOREM CompleteHolds == Spec => []Complete
<1>1. Init => Complete
  BY DEF Init, Complete, Gapless, Working, PageComplete, NothingBehindCursor
<1>2. SInv /\ SInv' /\ Complete /\ [Next]_vars => Complete'
  <2> SUFFICES ASSUME SInv, SInv', Complete, [Next]_vars, config'.SlowConsumerPolicy = "block"
               PROVE  Gapless' /\ PageComplete'
    BY DEF Complete
  <2>1. config.SlowConsumerPolicy = "block" /\ Gapless /\ PageComplete
    BY ChannelsChange DEF Complete, SInv
  <2>2. PageComplete'
    BY <2>1, PageMissesNothing
  <2>3. Gapless'
    BY <2>1, HandlersMissNothing, RunMissesNothing, PageDisturbsNone DEF Next
  <2> QED  BY <2>2, <2>3
<1> QED  BY <1>1, <1>2, CursorsAgree, PTL DEF Spec

\* Under the blocking policy the page shows every time of the store up to its
\* cursor, whatever connections broke, overlapped or stalled in between, and
\* however much of the times the store loses.
THEOREM NothingIsMissed == Spec => []NothingBehindCursor
<1>1. Complete => NothingBehindCursor
  BY DEF Complete, PageComplete, NothingBehindCursor
<1> QED  BY <1>1, CompleteHolds, PTL

\* Event n shares its time with no other event of the store.
HasOwnTime(n) == \A m \in 1..stored : StoredAt(m) = StoredAt(n) => m = n

\* The page shows all events up to its cursor whose time is their own.
OwnTimesShown ==
  config.SlowConsumerPolicy = "block" =>
    \A n \in 1..stored :
      page # "new" /\ StoredAt(n) <= cursor /\ HasOwnTime(n) => \E e \in shown : e.n = n

\* Every event that has its time in the store for itself, and so every event if
\* no two are of the same millisecond, is on the page once the cursor is past it.
THEOREM OwnTimesAreShown == Spec => []OwnTimesShown
<1>1. Complete => OwnTimesShown
  <2> SUFFICES ASSUME Complete, config.SlowConsumerPolicy = "block", NEW n \in 1..stored,
                      page # "new", StoredAt(n) <= cursor, HasOwnTime(n)
               PROVE  \E e \in shown : e.n = n
    BY DEF OwnTimesShown
  <2>1. PageComplete
    BY DEF Complete
  <2>2. PICK e \in shown : StoredAt(e.n) = StoredAt(n)
    BY <2>1 DEF PageComplete, NothingBehindCursor, ShowsTime
  <2>3. e.n \in 1..stored
    BY <2>1 DEF PageComplete
  <2> QED  BY <2>2, <2>3 DEF HasOwnTime
<1> QED  BY <1>1, CompleteHolds, PTL
=============================================================================
