---------------------------- MODULE SessionProofs ----------------------------
(***************************************************************************)
(* Theorems about Session.                                                 *)
(***************************************************************************)
EXTENDS Session, TLAPS

Events == 1..Idle

LEMMA SequenceFacts ==
  ASSUME NEW X, NEW s \in Seq(X)
  PROVE  /\ Len(s) \in Nat
         /\ \A e \in X : Append(s, e) \in Seq(X) /\ Len(Append(s, e)) = Len(s) + 1
         /\ s # <<>> => Head(s) \in X /\ Tail(s) \in Seq(X) /\ Len(Tail(s)) = Len(s) - 1
OBVIOUS

LEMMA EmptySequence == ASSUME NEW X PROVE <<>> \in Seq(X) /\ Len(<<>>) = 0
OBVIOUS

LEMMA EventNumbers ==
  /\ MaxEvents \in Nat /\ Idle \in Events /\ Lines \subseteq Events /\ 0 \notin Events
  /\ Idle \notin Lines /\ Buffer \in Nat \ {0}
BY SessionAssumption DEF Idle, Events, Lines
-----------------------------------------------------------------------------
(* Types *)

LEMMA TypeInit == Init => TypeOK
<1>1. <<>> \in Seq(Events) /\ Len(<<>>) = 0
  BY EmptySequence
<1>2. Init => runtime = "codex" \/ runtime = "github"
  BY SessionAssumption DEF Init
<1>3. Init => pump \in IF runtime = "codex" THEN PumpPlaces ELSE HandlerPlaces
  BY <1>2 DEF Init, PumpPlaces, HandlerPlaces
<1>4. Init => hand \in IF pump \in {"send", "called", "offer"} THEN Events ELSE {0}
  BY <1>2 DEF Init
<1>5. Init => run \in {"prompt", "reading"} /\ said \in 0..MaxEvents /\ huge \in 0..MaxEvents
  BY EventNumbers DEF Init
<1>6. Init => pipe \in Seq(Events) /\ chan \in Seq(Events) /\ got \in Seq(Events) /\ Len(chan) = 0
  BY <1>1 DEF Init
<1>7. Init => Len(chan) <= Buffer
  BY <1>6, EventNumbers
<1> QED
  BY <1>3, <1>4, <1>5, <1>6, <1>7 DEF Init, TypeOK, Events

\* What the agent does, and what becomes of its context.
LEMMA AgentType ==
  TypeOK /\ (AgentStep \/ ContextKills \/ DeadlinePasses \/ CallerReturns) => TypeOK'
<1> SUFFICES ASSUME TypeOK, AgentStep \/ ContextKills \/ DeadlinePasses \/ CallerReturns
             PROVE  TypeOK'
  OBVIOUS
<1>1. CASE AgentSays
  <2>1. said' \in Lines /\ said' \in Events
    BY <1>1, EventNumbers DEF AgentSays, TypeOK, Lines, Events, Idle
  <2>2. pipe' \in Seq(Events)
    BY <1>1, <2>1, SequenceFacts DEF AgentSays, TypeOK, Events
  <2>3. malformed' \subseteq Lines /\ huge' \in 0..MaxEvents
    BY <1>1, <2>1, EventNumbers DEF AgentSays, TypeOK, Lines
  <2> QED
    BY <1>1, <2>1, <2>2, <2>3, EventNumbers
       DEF AgentSays, TypeOK, pumpVars, chanVars, runVars, Events, Lines
<1>2. CASE AgentIsDone
  <2>1. pipe' \in Seq(Events)
    <3>1. pipe' = pipe \/ pipe' = Append(pipe, Idle)
      BY <1>2 DEF AgentIsDone
    <3>2. pipe \in Seq(Events)
      BY DEF TypeOK, Events
    <3> QED  BY <3>1, <3>2, EventNumbers, SequenceFacts
  <2>2. /\ agent' = "done"
        /\ UNCHANGED <<runtime, deadline, said, malformed, huge, pump, hand, reaped, chan,
                       closed, run, outcome, got, late, ctxDone, detached, dropped>>
    BY <1>2 DEF AgentIsDone, pumpVars, chanVars, runVars
  <2> QED  BY <2>1, <2>2 DEF TypeOK, Events
<1>3. CASE AgentCrashes
  BY <1>3 DEF AgentCrashes, TypeOK, pumpVars, chanVars, runVars
<1>4. CASE ContextKills
  BY <1>4 DEF ContextKills, TypeOK, pumpVars, chanVars, runVars
<1>5. CASE DeadlinePasses \/ CallerReturns
  BY <1>5 DEF DeadlinePasses, CallerReturns, ContextEnds, TypeOK,
     agentVars, pumpVars, chanVars, runVars
<1> QED  BY <1>1, <1>2, <1>3, <1>4, <1>5 DEF AgentStep

LEMMA PumpType == TypeOK /\ PumpStep => TypeOK'
<1> SUFFICES ASSUME TypeOK, PumpStep PROVE TypeOK'
  OBVIOUS
<1> USE DEF PumpGoes, runVars, PumpPlaces, HandlerPlaces
<1>1. CASE PumpReads
  <2>1. hand' \in Events /\ pipe' \in Seq(Events)
    BY <1>1, SequenceFacts DEF PumpReads, TypeOK, Events
  <2> QED  BY <1>1, <2>1 DEF PumpReads, TypeOK, chanVars, Events
<1>2. CASE PumpSkips
  <2>1. pipe' \in Seq(Events)
    BY <1>2, SequenceFacts DEF PumpSkips, TypeOK, Events
  <2> QED  BY <1>2, <2>1 DEF PumpSkips, TypeOK, chanVars, Events
<1>3. CASE PumpStopsReading
  BY <1>3 DEF PumpStopsReading, TypeOK, chanVars
<1>4. ASSUME NEW e \in Events, Send(e)
      PROVE  chan' \in Seq(Events) /\ Len(chan') <= Buffer
  BY <1>4, SequenceFacts, EventNumbers DEF Send, HasRoom, TypeOK, Events
<1>5. CASE PumpSends
  <2>1. hand \in Events
    BY <1>5 DEF PumpSends, TypeOK, Events
  <2>2. chan' \in Seq(Events) /\ Len(chan') <= Buffer
    BY <1>4, <1>5, <2>1 DEF PumpSends
  <2> QED  BY <1>5, <2>2 DEF PumpSends, TypeOK, Events
<1>6. CASE PumpIsCancelled
  BY <1>6 DEF PumpIsCancelled, Killed, TypeOK, chanVars
<1>7. CASE PumpDrains
  BY <1>7 DEF PumpDrains, TypeOK, chanVars
<1>8. CASE PumpWaits
  <2>1. pump' \in {"idle", "close"}
    BY <1>8 DEF PumpWaits
  <2> QED  BY <1>8, <2>1 DEF PumpWaits, TypeOK, chanVars
<1>9. CASE PumpSendsIdle
  <2>1. chan' \in Seq(Events) /\ Len(chan') <= Buffer
    BY <1>4, <1>9, EventNumbers DEF PumpSendsIdle
  <2> QED  BY <1>9, <2>1 DEF PumpSendsIdle, TypeOK, Events
<1>10. CASE PumpOmitsIdle
  BY <1>10 DEF PumpOmitsIdle, TypeOK, chanVars
<1>11. CASE PumpCloses
  BY <1>11 DEF PumpCloses, TypeOK
<1> QED
  BY <1>1, <1>2, <1>3, <1>5, <1>6, <1>7, <1>8, <1>9, <1>10, <1>11 DEF PumpStep

LEMMA HandlerType == TypeOK /\ HandlerStep => TypeOK'
<1> SUFFICES ASSUME TypeOK, HandlerStep PROVE TypeOK'
  OBVIOUS
<1> USE DEF PumpGoes, HandlerReturns, agentVars, runVars, PumpPlaces, HandlerPlaces
<1>1. CASE HandlerIsCalled
  <2>1. Head(pipe) \in Events /\ pipe' \in Seq(Events)
    BY <1>1, SequenceFacts DEF HandlerIsCalled, TypeOK, Events
  <2>2. /\ pump' \in {"listen", "called"}
        /\ hand' \in IF pump' \in {"send", "called", "offer"} THEN Events ELSE {0}
    BY <1>1, <2>1 DEF HandlerIsCalled, TypeOK
  <2>3. UNCHANGED <<runtime, agentVars, chanVars, runVars, reaped, ctxDone, detached, dropped>>
    BY <1>1 DEF HandlerIsCalled
  <2> QED  BY <1>1, <2>1, <2>2, <2>3 DEF HandlerIsCalled, TypeOK, chanVars, Events
<1>2. CASE HandlerChecks
  BY <1>2 DEF HandlerChecks, TypeOK, chanVars
<1>3. ASSUME pump = "offer" PROVE hand \in Events
  BY <1>3 DEF TypeOK, Events
<1>4. CASE HandlerSends
  <2>1. chan' \in Seq(Events) /\ Len(chan') <= Buffer
    BY <1>3, <1>4, SequenceFacts, EventNumbers DEF HandlerSends, Send, HasRoom, TypeOK, Events
  <2> QED  BY <1>4, <2>1 DEF HandlerSends, TypeOK, Events
<1>5. CASE HandlerGivesUp
  BY <1>5 DEF HandlerGivesUp, TypeOK
<1>6. CASE HandlerDrops
  BY <1>3, <1>6 DEF HandlerDrops, TypeOK, Events
<1> QED  BY <1>1, <1>2, <1>4, <1>5, <1>6 DEF HandlerStep

LEMMA RunType == TypeOK /\ RunStep => TypeOK'
<1> SUFFICES ASSUME TypeOK, RunStep PROVE TypeOK'
  OBVIOUS
<1> USE DEF Leaves, agentVars, pumpVars
<1>1. CASE PromptSent \/ PromptFails \/ CreateRunFails
  BY <1>1 DEF PromptSent, PromptFails, CreateRunFails, TypeOK, chanVars
<1>2. CASE ChannelClosed \/ ContextDone
  BY <1>2 DEF ChannelClosed, ContextDone, TypeOK, chanVars
<1>3. ASSUME chan # <<>>
      PROVE  /\ Head(chan) \in Events /\ Tail(chan) \in Seq(Events) /\ Len(Tail(chan)) <= Buffer
             /\ Append(got, Head(chan)) \in Seq(Events)
  BY <1>3, SequenceFacts, EventNumbers DEF TypeOK, Events
<1>4. CASE TakesEvent
  BY <1>3, <1>4 DEF TakesEvent, TypeOK, Events
<1>5. CASE StoreFails
  BY <1>3, <1>5 DEF StoreFails, TypeOK, Events
<1> QED  BY <1>1, <1>2, <1>4, <1>5 DEF RunStep

LEMMA StopType == TypeOK /\ StopStep => TypeOK'
<1> SUFFICES ASSUME TypeOK, StopStep PROVE TypeOK'
  OBVIOUS
<1>1. CASE StopKills \/ StopDetaches \/ StopCloses
  BY <1>1 DEF StopKills, StopDetaches, StopCloses, Killed, TypeOK, agentVars, pumpVars, chanVars
<1>2. CASE StopJoins
  BY <1>2, EmptySequence DEF StopJoins, Killed, TypeOK, chanVars, PumpPlaces, HandlerPlaces
<1> QED  BY <1>1, <1>2 DEF StopStep

LEMMA TypeStep == TypeOK /\ [Next]_vars => TypeOK'
<1>1. TypeOK /\ UNCHANGED vars => TypeOK'
  BY DEF TypeOK, vars, agentVars, pumpVars, chanVars, runVars
<1> QED  BY <1>1, AgentType, PumpType, HandlerType, RunType, StopType DEF Next

\* Every variable of a session has its type.
THEOREM TypeCorrect == Spec => []TypeOK
BY TypeInit, TypeStep, PTL DEF Spec
-----------------------------------------------------------------------------
(* Sequences of events *)

Contents(s) == {s[i] : i \in 1..Len(s)}

Sorted(s) == \A i, j \in 1..Len(s) : i < j => s[i] < s[j]

LEMMA EmptyContents == Contents(<<>>) = {} /\ Sorted(<<>>)
BY DEF Contents, Sorted

LEMMA AppendContents ==
  ASSUME NEW s \in Seq(Events), NEW e \in Events
  PROVE  /\ Contents(Append(s, e)) = Contents(s) \union {e}
         /\ Sorted(s) /\ (\A x \in Contents(s) : x < e) => Sorted(Append(s, e))
<1>1. /\ Len(s) \in Nat /\ Len(Append(s, e)) = Len(s) + 1
      /\ \A i \in 1..Len(s) : Append(s, e)[i] = s[i]
      /\ Append(s, e)[Len(s) + 1] = e
  OBVIOUS
<1>2. 1..(Len(s) + 1) = 1..Len(s) \union {Len(s) + 1}
  BY <1>1
<1>3. Contents(Append(s, e)) = Contents(s) \union {e}
  BY <1>1, <1>2 DEF Contents
<1>4. ASSUME Sorted(s), \A x \in Contents(s) : x < e PROVE Sorted(Append(s, e))
  <2> SUFFICES ASSUME NEW i \in 1..(Len(s) + 1), NEW j \in 1..(Len(s) + 1), i < j
               PROVE  Append(s, e)[i] < Append(s, e)[j]
    BY <1>1 DEF Sorted
  <2>1. i \in 1..Len(s) /\ s[i] \in Contents(s)
    BY <1>1 DEF Contents
  <2> QED  BY <1>1, <1>2, <1>4, <2>1 DEF Sorted
<1> QED  BY <1>3, <1>4

LEMMA TailContents ==
  ASSUME NEW s \in Seq(Events), s # <<>>
  PROVE  /\ Head(s) \in Events
         /\ Contents(s) = {Head(s)} \union Contents(Tail(s))
         /\ Sorted(s) => Sorted(Tail(s)) /\ \A e \in Contents(Tail(s)) : Head(s) < e
<1>1. /\ Len(s) \in Nat \ {0} /\ Len(Tail(s)) = Len(s) - 1 /\ Head(s) = s[1]
      /\ s[1] \in Events
      /\ \A i \in 1..(Len(s) - 1) : Tail(s)[i] = s[i + 1]
  OBVIOUS
<1>2. ASSUME NEW e \in Contents(s) PROVE e = Head(s) \/ e \in Contents(Tail(s))
  <2>1. PICK i \in 1..Len(s) : e = s[i]
    BY DEF Contents
  <2>2. i # 1 => i - 1 \in 1..(Len(s) - 1) /\ Tail(s)[i - 1] = s[i]
    BY <1>1
  <2> QED  BY <1>1, <2>1, <2>2 DEF Contents
<1>3. ASSUME NEW e \in Contents(Tail(s))
      PROVE  \E i \in 2..Len(s) : e = s[i]
  <2>1. PICK i \in 1..(Len(s) - 1) : e = Tail(s)[i]
    BY <1>1 DEF Contents
  <2> QED  BY <1>1, <2>1
<1>4. Contents(s) = {Head(s)} \union Contents(Tail(s))
  BY <1>1, <1>2, <1>3 DEF Contents
<1>5. Sorted(s) => \A e \in Contents(Tail(s)) : Head(s) < e
  BY <1>1, <1>3 DEF Sorted
<1>6. Sorted(s) => Sorted(Tail(s))
  BY <1>1 DEF Sorted
<1> QED  BY <1>1, <1>4, <1>5, <1>6

LEMMA ContentsInEvents == ASSUME NEW s \in Seq(Events) PROVE Contents(s) \subseteq Events
BY DEF Contents
-----------------------------------------------------------------------------
(* Where the goroutines are *)

Places ==
  /\ closed \/ run = "close" => pump = "ended"
  /\ pump \in {"idle", "close", "ended"} => agent # "working"
  /\ pump = "drain" => ctxDone
  /\ run \in {"prompt", "reading"} => outcome = "none" /\ ~detached
  /\ run \in {"prompt", "reading"} /\ runtime = "github" => ~closed /\ pump # "ended"

PInv == TypeOK /\ Places

LEMMA PlacesInit == Init => Places
BY DEF Init, Places

LEMMA PlacesStep == PInv /\ [Next]_vars => Places'
<1> SUFFICES ASSUME PInv, [Next]_vars PROVE Places'
  OBVIOUS
<1> USE DEF PInv, Places
<1>1. CASE AgentStep \/ ContextKills \/ DeadlinePasses \/ CallerReturns
  BY <1>1 DEF AgentStep, AgentSays, AgentIsDone, AgentCrashes, ContextKills,
     DeadlinePasses, CallerReturns, ContextEnds, agentVars, pumpVars, chanVars, runVars
<1>2. CASE PumpStep
  <2>0. pump # "ended" /\ (pump = "close" => runtime = "codex")
    BY <1>2 DEF PumpStep, PumpReads, PumpSkips, PumpStopsReading, PumpSends, PumpIsCancelled,
       PumpDrains, PumpWaits, PumpSendsIdle, PumpOmitsIdle, PumpCloses, TypeOK, HandlerPlaces
  <2>1. CASE PumpReads \/ PumpSkips \/ PumpStopsReading \/ PumpSends
    BY <2>0, <2>1 DEF PumpReads, PumpSkips, PumpStopsReading, PumpSends, PumpGoes, runVars, chanVars
  <2>2. CASE PumpIsCancelled \/ PumpDrains
    BY <2>0, <2>2 DEF PumpIsCancelled, PumpDrains, Killed, PumpGoes, runVars, chanVars
  <2>3. CASE PumpWaits
    <3>1. pump' \in {"idle", "close"} /\ agent # "working"
          /\ UNCHANGED <<runtime, agent, chanVars, runVars, ctxDone, detached>>
      BY <2>3 DEF PumpWaits, PumpGoes
    <3> QED  BY <2>0, <3>1 DEF runVars, chanVars
  <2>4. CASE PumpSendsIdle \/ PumpOmitsIdle \/ PumpCloses
    BY <2>0, <2>4 DEF PumpSendsIdle, PumpOmitsIdle, PumpCloses, PumpGoes, runVars, chanVars,
       TypeOK, HandlerPlaces
  <2> QED  BY <1>2, <2>1, <2>2, <2>3, <2>4 DEF PumpStep
<1>3. CASE HandlerStep
  BY <1>3 DEF HandlerStep, HandlerIsCalled, HandlerChecks, HandlerSends, HandlerGivesUp,
     HandlerDrops, HandlerReturns, PumpGoes, agentVars, chanVars, runVars
<1>4. CASE RunStep
  BY <1>4 DEF RunStep, PromptSent, PromptFails, CreateRunFails, TakesEvent, StoreFails,
     ChannelClosed, ContextDone, Leaves, agentVars, pumpVars, chanVars
<1>5. CASE StopStep
  BY <1>5 DEF StopStep, StopKills, StopDetaches, StopJoins, StopCloses, Killed,
     agentVars, pumpVars, chanVars
<1>6. CASE UNCHANGED vars
  BY <1>6 DEF vars, agentVars, pumpVars, chanVars, runVars
<1> QED  BY <1>1, <1>2, <1>3, <1>4, <1>5, <1>6 DEF Next

THEOREM PlacesHold == Spec => []PInv
BY TypeInit, TypeStep, PlacesInit, PlacesStep, PTL DEF Spec, PInv

\* Nobody sends on a closed channel: neither the pump, which closes it itself,
\* nor a handler of GitHub, which stop has joined before it closes.
THEOREM NoSendOnClosed == Spec => []NeverSendsOnClosed
<1>1. PInv => NeverSendsOnClosed
  BY DEF PInv, Places, NeverSendsOnClosed
<1> QED  BY <1>1, PlacesHold, PTL
-----------------------------------------------------------------------------
(* The order of the events *)

\* The pump, or the handler, will still read the pipe.
Taking == pump \in {"scan", "send", "listen", "called", "offer"}

Known(e) == e \in 1..said \/ (e = Idle /\ agent # "working")

Last == Stream!Latest

ChanOrder == Sorted(chan) /\ \A e \in Contents(chan) : Known(e) /\ Last < e

PipeOrder ==
  Taking =>
    /\ Sorted(pipe)
    /\ \A e \in Contents(pipe) :
         Known(e) /\ Last < e /\ \A x \in Contents(chan) : x < e

HandOrder ==
  hand # 0 =>
    /\ Known(hand) /\ Last < hand
    /\ \A x \in Contents(chan) : x < hand
    /\ \A e \in Contents(pipe) : hand < e

LastKnown == Last = 0 \/ Known(Last)

\* The idle event of Codex comes from the pump, when it has read everything.
IdleIsLast ==
  runtime = "codex" =>
    /\ hand # Idle /\ Idle \notin Contents(pipe)
    /\ pump \notin {"close", "ended"} => Last # Idle /\ Idle \notin Contents(chan)

Order == ChanOrder /\ PipeOrder /\ HandOrder /\ LastKnown /\ IdleIsLast

LEMMA KnownFacts ==
  ASSUME TypeOK, NEW e, Known(e)
  PROVE  e \in Events /\ (e # Idle => e < Idle) /\ (agent = "working" => e < said + 1 /\ e < Idle)
BY EventNumbers DEF TypeOK, Known, Events, Idle

LEMMA LastAfter ==
  ASSUME TypeOK, NEW e \in Events, got' = Append(got, e)
  PROVE  Last' = e
<1>1. Len(got) \in Nat /\ Append(got, e) # <<>> /\ Len(Append(got, e)) = Len(got) + 1
      /\ Append(got, e)[Len(got) + 1] = e
  BY DEF TypeOK, Events
<1> QED  BY <1>1 DEF Last, Stream!Latest

LEMMA OrderInit == Init => Order
<1> SUFFICES ASSUME Init PROVE Order
  OBVIOUS
<1>1. Contents(pipe) = {} /\ Contents(chan) = {} /\ Sorted(pipe) /\ Sorted(chan)
  BY EmptyContents DEF Init
<1>2. Last = 0 /\ hand = 0
  BY DEF Init, Last, Stream!Latest
<1> QED
  BY <1>1, <1>2, EventNumbers
     DEF Order, ChanOrder, PipeOrder, HandOrder, LastKnown, IdleIsLast, Events

OInv == PInv /\ Order

\* A step that leaves the events alone, and after which the agent is not back
\* at work, keeps their order.
LEMMA OrderStays ==
  ASSUME OInv, UNCHANGED <<runtime, said, got, chan>>,
         agent' = "working" => agent = "working",
         \/ UNCHANGED <<pump, pipe, hand>>
         \/ hand' = 0 /\ pump' \notin {"scan", "send", "listen", "called", "offer"}
            /\ (pump \in {"close", "ended"} => pump' \in {"close", "ended"})
            /\ (pipe' = pipe \/ pipe' = <<>>)
         \/ UNCHANGED <<pipe, hand>> /\ pump = "called" /\ pump' = "offer"
  PROVE  Order'
<1>1. Last' = Last
  BY DEF Last, Stream!Latest
<1>2. \A e : Known(e) => Known(e)'
  BY DEF Known
<1>3. Contents(<<>>) = {}
  BY EmptyContents
<1>4. CASE UNCHANGED <<pump, pipe, hand>>
  BY <1>1, <1>2, <1>4
     DEF OInv, Order, ChanOrder, PipeOrder, HandOrder, LastKnown, IdleIsLast, Taking
<1>5. CASE hand' = 0 /\ pump' \notin {"scan", "send", "listen", "called", "offer"}
            /\ (pump \in {"close", "ended"} => pump' \in {"close", "ended"})
            /\ (pipe' = pipe \/ pipe' = <<>>)
  <2>1. ChanOrder' /\ PipeOrder' /\ HandOrder' /\ LastKnown'
    BY <1>1, <1>2, <1>5
       DEF OInv, Order, ChanOrder, PipeOrder, HandOrder, LastKnown, Taking
  <2>2. IdleIsLast'
    BY <1>1, <1>3, <1>5, EventNumbers DEF OInv, Order, IdleIsLast, Events
  <2> QED  BY <2>1, <2>2 DEF Order
<1>6. CASE UNCHANGED <<pipe, hand>> /\ pump = "called" /\ pump' = "offer"
  BY <1>1, <1>2, <1>6
     DEF OInv, Order, ChanOrder, PipeOrder, HandOrder, LastKnown, IdleIsLast, Taking
<1> QED  BY <1>4, <1>5, <1>6

LEMMA OrderAgent == OInv /\ AgentStep => Order'
<1> SUFFICES ASSUME OInv, AgentStep PROVE Order'
  OBVIOUS
<1> USE DEF OInv, PInv
<1>0. pipe \in Seq(Events)
  BY DEF TypeOK, Events
<1>1. ASSUME agent = "working"
      PROVE  \A e \in Contents(chan) : e < said + 1 /\ e < Idle
  BY <1>1, KnownFacts DEF Order, ChanOrder
<1>2. CASE AgentSays
  <2>0. PICK n : n = said + 1
    OBVIOUS
  <2>1. /\ pipe' = Append(pipe, n) /\ said' = n /\ n \in Events
        /\ n # Idle /\ n \in Nat /\ n = said' /\ said \in Nat /\ agent = "working"
        /\ UNCHANGED <<runtime, agent, pump, hand, chan, got>>
    BY <1>2, <2>0, EventNumbers DEF AgentSays, TypeOK, Events, Idle, pumpVars, chanVars, runVars
  <2>2. Contents(pipe') = Contents(pipe) \union {n}
    BY <1>0, <2>1, AppendContents
  <2>3. Last' = Last /\ (Last = 0 \/ Known(Last)) /\ Last < n
    BY <2>0, <2>1, KnownFacts DEF Last, Stream!Latest, Order, LastKnown
  <2>4. \A e : Known(e) => Known(e)'
    BY <2>0, <2>1 DEF Known
  <2>5. Known(n)'
    BY <2>0, <2>1 DEF Known
  <2>6. ChanOrder' /\ LastKnown'
    BY <2>1, <2>3, <2>4 DEF Order, ChanOrder, LastKnown
  <2>7. PipeOrder'
    <3> SUFFICES ASSUME Taking PROVE PipeOrder'
      BY <2>1 DEF PipeOrder, Taking
    <3>1. \A e \in Contents(pipe) : e < n
      BY <2>0, <2>1, KnownFacts DEF Order, PipeOrder
    <3>2. Sorted(pipe')
      BY <1>0, <2>1, <3>1, AppendContents DEF Order, PipeOrder
    <3> QED
      BY <1>1, <2>0, <2>1, <2>2, <2>3, <2>4, <2>5, <3>2 DEF Order, PipeOrder
  <2>8. HandOrder'
    <3>1. hand # 0 => hand < n
      BY <2>0, <2>1, KnownFacts DEF Order, HandOrder
    <3> QED  BY <2>1, <2>2, <2>3, <2>4, <3>1 DEF Order, HandOrder
  <2>9. IdleIsLast'
    BY <2>1, <2>2, <2>3 DEF Order, IdleIsLast
  <2> QED  BY <2>6, <2>7, <2>8, <2>9 DEF Order
<1>3. CASE AgentIsDone
  <2>1. /\ agent = "working" /\ agent' = "done"
        /\ UNCHANGED <<runtime, said, pump, hand, chan, got>>
    BY <1>3 DEF AgentIsDone, pumpVars, chanVars, runVars
  <2>2. CASE runtime = "codex"
    BY <1>3, <2>1, <2>2, OrderStays DEF AgentIsDone
  <2>3. CASE runtime # "codex"
    <3>1. pipe' = Append(pipe, Idle) /\ Idle \in Events
      BY <1>3, <2>3, EventNumbers DEF AgentIsDone
    <3>2. Contents(pipe') = Contents(pipe) \union {Idle}
      BY <1>0, <3>1, AppendContents
    <3>3. Last' = Last /\ (Last = 0 \/ Known(Last)) /\ Last < Idle
      BY <2>1, KnownFacts, EventNumbers DEF Last, Stream!Latest, Order, LastKnown, Events
    <3>4. (\A e : Known(e) => Known(e)') /\ Known(Idle)'
      BY <2>1 DEF Known, Idle
    <3>5. ChanOrder' /\ LastKnown'
      BY <2>1, <3>3, <3>4 DEF Order, ChanOrder, LastKnown
    <3>6. PipeOrder'
      <4> SUFFICES ASSUME Taking PROVE PipeOrder'
        BY <2>1 DEF PipeOrder, Taking
      <4>1. \A e \in Contents(pipe) : e < Idle
        BY <2>1, KnownFacts DEF Order, PipeOrder
      <4>2. Sorted(pipe')
        BY <1>0, <3>1, <4>1, AppendContents DEF Order, PipeOrder
      <4> QED
        BY <1>1, <2>1, <3>2, <3>3, <3>4, <4>2 DEF Order, PipeOrder
    <3>7. HandOrder'
      <4>1. hand # 0 => hand < Idle
        BY <2>1, KnownFacts DEF Order, HandOrder
      <4> QED  BY <2>1, <3>2, <3>3, <3>4, <4>1 DEF Order, HandOrder
    <3>8. IdleIsLast'
      BY <2>1, <2>3 DEF IdleIsLast
    <3> QED  BY <3>5, <3>6, <3>7, <3>8 DEF Order
  <2> QED  BY <2>2, <2>3
<1>4. CASE AgentCrashes
  BY <1>4, OrderStays DEF AgentCrashes, pumpVars, chanVars, runVars
<1> QED  BY <1>2, <1>3, <1>4 DEF AgentStep

\* So does one that passes over the first event of the pipe.
LEMMA OrderSkips ==
  ASSUME OInv, pipe # <<>>, pipe' = Tail(pipe), hand = 0, Taking, Taking',
         UNCHANGED <<runtime, said, got, chan, agent, hand>>
  PROVE  Order'
<1>1. pipe \in Seq(Events)
  BY DEF OInv, PInv, TypeOK, Events
<1>2. Contents(pipe') \subseteq Contents(pipe) /\ (Sorted(pipe) => Sorted(pipe'))
  BY <1>1, TailContents
<1>3. Last' = Last
  BY DEF Last, Stream!Latest
<1>4. \A e : Known(e) <=> Known(e)'
  BY DEF Known
<1>5. ChanOrder' /\ LastKnown'
  BY <1>3, <1>4 DEF OInv, Order, ChanOrder, LastKnown, Known
<1>6. PipeOrder' /\ HandOrder'
  BY <1>2, <1>3, <1>4 DEF OInv, Order, PipeOrder, HandOrder
<1>7. IdleIsLast'
  BY <1>2, <1>3 DEF OInv, Order, IdleIsLast, Taking
<1> QED  BY <1>5, <1>6, <1>7 DEF Order

\* And one that sends the event in the hand.
LEMMA OrderSends ==
  ASSUME OInv, pump \in {"send", "offer"}, chan' = Append(chan, hand), hand' = 0, Taking',
         UNCHANGED <<runtime, said, got, agent, pipe>>
  PROVE  Order'
<1>0. chan \in Seq(Events) /\ hand \in Events /\ hand # 0
  BY EventNumbers DEF OInv, PInv, TypeOK, Events
<1>1. Contents(chan') = Contents(chan) \union {hand}
  BY <1>0, AppendContents
<1>2. Sorted(chan')
  BY <1>0, AppendContents DEF OInv, Order, ChanOrder, HandOrder
<1>3. Last' = Last
  BY DEF Last, Stream!Latest
<1>4. \A e : Known(e) <=> Known(e)'
  BY DEF Known
<1>5. ChanOrder' /\ LastKnown'
  BY <1>0, <1>1, <1>2, <1>3, <1>4 DEF OInv, Order, ChanOrder, HandOrder, LastKnown, Known
<1>6. PipeOrder' /\ HandOrder'
  BY <1>0, <1>1, <1>3, <1>4 DEF OInv, Order, PipeOrder, HandOrder, Taking
<1>7. IdleIsLast'
  BY <1>0, <1>1, <1>3, EventNumbers DEF OInv, Order, IdleIsLast, Taking, Events
<1> QED  BY <1>5, <1>6, <1>7 DEF Order

LEMMA OrderPump == OInv /\ PumpStep => Order'
<1> SUFFICES ASSUME OInv, PumpStep PROVE Order'
  OBVIOUS
<1> USE DEF OInv, PInv
<1>0. pipe \in Seq(Events) /\ chan \in Seq(Events)
  BY DEF TypeOK, Events
<1>1. ASSUME PumpGoes(pump') PROVE UNCHANGED <<runtime, said, got>> /\ Last' = Last
  BY <1>1 DEF PumpGoes, runVars, Last, Stream!Latest
<1>2. CASE PumpReads
  <2>1. /\ hand' = Head(pipe) /\ hand' # 0 /\ pipe' = Tail(pipe) /\ pipe # <<>> /\ hand = 0
        /\ pump = "scan" /\ UNCHANGED <<runtime, said, agent, chan, got, malformed, huge>> /\ Last' = Last
        /\ pump' = "send" /\ Head(pipe) \in Events
    BY <1>0, <1>2, TailContents, EventNumbers
       DEF PumpReads, PumpGoes, runVars, chanVars, Last, Stream!Latest, TypeOK
  <2>2. Contents(pipe) = {Head(pipe)} \union Contents(pipe')
    BY <1>0, <2>1, TailContents
  <2>3. Sorted(pipe') /\ \A e \in Contents(pipe') : Head(pipe) < e
    BY <1>0, <2>1, TailContents DEF Order, PipeOrder, Taking
  <2>4. \A e : Known(e) <=> Known(e)'
    BY <2>1 DEF Known
  <2>5. Known(hand)' /\ Known(Last)' = Known(Last)
    <3>1. Known(Head(pipe))
      BY <2>1, <2>2 DEF Order, PipeOrder, Taking
    <3> QED  BY <2>1, <3>1 DEF Known
  <2>6. PipeOrder'
    BY <2>1, <2>2, <2>3, <2>4 DEF Order, PipeOrder, Taking
  <2>7. HandOrder'
    BY <2>1, <2>2, <2>3, <2>5 DEF Order, PipeOrder, HandOrder, Taking
  <2>8. ChanOrder' /\ LastKnown'
    BY <2>1, <2>4, <2>5 DEF Order, ChanOrder, LastKnown
  <2>9. IdleIsLast'
    BY <2>1, <2>2 DEF Order, IdleIsLast
  <2> QED  BY <2>6, <2>7, <2>8, <2>9 DEF Order
<1>3. CASE PumpSkips
  BY <1>0, <1>3, OrderSkips DEF PumpSkips, PumpGoes, runVars, chanVars, TypeOK, Taking
<1>4. CASE PumpStopsReading \/ PumpIsCancelled \/ PumpDrains \/ PumpOmitsIdle
  BY <1>4, OrderStays DEF PumpStopsReading, PumpIsCancelled, PumpDrains, PumpOmitsIdle,
     PumpGoes, Killed, runVars, chanVars, TypeOK
<1>5. CASE PumpWaits
  <2>1. pump' \in {"idle", "close"} /\ pump = "wait"
        /\ UNCHANGED <<runtime, said, got, agent, pipe, hand, chan>>
    BY <1>5 DEF PumpWaits, PumpGoes, runVars, chanVars
  <2> QED  BY <2>1, OrderStays DEF TypeOK
<1>6. CASE PumpCloses
  BY <1>6, OrderStays DEF PumpCloses, PumpGoes, runVars, TypeOK
<1>7. CASE PumpSends
  BY <1>7, OrderSends DEF PumpSends, PumpGoes, Send, runVars, TypeOK, HandlerPlaces, Taking
<1>8. CASE PumpSendsIdle
  <2>1. /\ chan' = Append(chan, Idle) /\ hand = 0 /\ hand' = 0 /\ Last' = Last
        /\ pump = "idle" /\ pump' = "close" /\ runtime = "codex"
        /\ UNCHANGED <<runtime, said, agent, pipe, got>>
    BY <1>8 DEF PumpSendsIdle, PumpGoes, Send, runVars, Last, Stream!Latest, TypeOK, HandlerPlaces
  <2>2. Contents(chan') = Contents(chan) \union {Idle}
    BY <1>0, <2>1, AppendContents, EventNumbers
  <2>3. (\A e : Known(e) <=> Known(e)') /\ Known(Idle)'
    BY <2>1 DEF Known, Places, Idle
  <2>4. Last < Idle /\ \A e \in Contents(chan) : e < Idle
    BY <2>1, KnownFacts, EventNumbers DEF Order, IdleIsLast, ChanOrder, LastKnown, Events
  <2>5. Sorted(chan')
    BY <1>0, <2>1, <2>4, AppendContents, EventNumbers DEF Order, ChanOrder
  <2>6. ChanOrder' /\ LastKnown'
    BY <2>1, <2>2, <2>3, <2>4, <2>5 DEF Order, ChanOrder, LastKnown, Known
  <2>7. PipeOrder' /\ HandOrder' /\ IdleIsLast'
    BY <2>1, EventNumbers DEF Order, PipeOrder, HandOrder, IdleIsLast, Taking, Events
  <2> QED  BY <2>6, <2>7 DEF Order
<1> QED
  BY <1>2, <1>3, <1>4, <1>5, <1>6, <1>7, <1>8 DEF PumpStep

LEMMA OrderHandler == OInv /\ HandlerStep => Order'
<1> SUFFICES ASSUME OInv, HandlerStep PROVE Order'
  OBVIOUS
<1> USE DEF OInv, PInv
<1>0. pipe \in Seq(Events) /\ chan \in Seq(Events)
  BY DEF TypeOK, Events
<1>1. CASE HandlerIsCalled
  <2>0. /\ pump = "listen" /\ pipe # <<>> /\ pipe' = Tail(pipe) /\ hand = 0 /\ runtime # "codex"
        /\ UNCHANGED <<runtime, said, agent, chan, got>>
    BY <1>1 DEF HandlerIsCalled, PumpGoes, runVars, chanVars, TypeOK, PumpPlaces
  <2>1. CASE Head(pipe) \in malformed
    BY <1>1, <2>0, <2>1, OrderSkips DEF HandlerIsCalled, PumpGoes, Taking
  <2>2. CASE Head(pipe) \notin malformed
    <3>1. hand' = Head(pipe) /\ pump' = "called" /\ Last' = Last
      BY <1>1, <2>0, <2>2 DEF HandlerIsCalled, PumpGoes, Last, Stream!Latest
    <3>2. Contents(pipe) = {Head(pipe)} \union Contents(pipe')
      BY <1>0, <2>0, TailContents
    <3>3. Sorted(pipe') /\ \A e \in Contents(pipe') : Head(pipe) < e
      BY <1>0, <2>0, TailContents DEF Order, PipeOrder, Taking
    <3>4. \A e : Known(e) <=> Known(e)'
      BY <2>0 DEF Known
    <3>5. Known(hand)' /\ Known(Last)' = Known(Last)
      <4>1. Known(Head(pipe))
        BY <2>0, <3>2 DEF Order, PipeOrder, Taking
      <4> QED  BY <2>0, <3>1, <4>1 DEF Known
    <3>6. PipeOrder'
      BY <2>0, <3>1, <3>2, <3>3, <3>4 DEF Order, PipeOrder, Taking
    <3>7. HandOrder'
      BY <2>0, <3>1, <3>2, <3>3, <3>5 DEF Order, PipeOrder, HandOrder, Taking
    <3>8. ChanOrder' /\ LastKnown' /\ IdleIsLast'
      BY <2>0, <3>1, <3>4, <3>5 DEF Order, ChanOrder, LastKnown, IdleIsLast
    <3> QED  BY <3>6, <3>7, <3>8 DEF Order
  <2> QED  BY <2>1, <2>2
<1>2. CASE HandlerChecks
  BY <1>2, OrderStays DEF HandlerChecks, PumpGoes, chanVars, runVars
<1>3. CASE HandlerSends
  BY <1>3, OrderSends DEF HandlerSends, Send, HandlerReturns, agentVars, runVars, Taking
<1>4. CASE HandlerGivesUp \/ HandlerDrops
  <2>1. /\ hand' = 0 /\ pump \in {"called", "offer"} /\ pump' = "listen" /\ runtime # "codex"
        /\ UNCHANGED <<runtime, said, agent, chan, got, pipe>>
    BY <1>4 DEF HandlerGivesUp, HandlerDrops, HandlerReturns, agentVars, runVars, TypeOK, PumpPlaces
  <2>2. Last' = Last /\ \A e : Known(e) <=> Known(e)'
    BY <2>1 DEF Last, Stream!Latest, Known
  <2> QED
    BY <2>1, <2>2
       DEF Order, ChanOrder, PipeOrder, HandOrder, LastKnown, IdleIsLast, Taking, Known
<1> QED  BY <1>1, <1>2, <1>3, <1>4 DEF HandlerStep

LEMMA OrderRun == OInv /\ RunStep => Order'
<1> SUFFICES ASSUME OInv, RunStep PROVE Order'
  OBVIOUS
<1> USE DEF OInv, PInv
<1>0. chan \in Seq(Events)
  BY DEF TypeOK, Events
<1>1. CASE PromptSent \/ PromptFails \/ CreateRunFails \/ ChannelClosed \/ ContextDone
  BY <1>1, OrderStays DEF PromptSent, PromptFails, CreateRunFails, ChannelClosed, ContextDone,
     Leaves, agentVars, pumpVars, chanVars
<1>2. ASSUME chan # <<>>, chan' = Tail(chan), UNCHANGED <<runtime, agentVars, pipe, pumpVars>>,
             Last' = Last \/ Last' = Head(chan)
      PROVE  Order'
  <2>1. UNCHANGED <<runtime, agent, said, pipe, pump, hand>>
    BY <1>2 DEF agentVars, pumpVars
  <2>2. /\ Contents(chan) = {Head(chan)} \union Contents(chan') /\ Sorted(chan')
        /\ \A e \in Contents(chan') : Head(chan) < e
    BY <1>0, <1>2, TailContents DEF Order, ChanOrder
  <2>3. Head(chan) \in Contents(chan) /\ Known(Head(chan)) /\ Last < Head(chan)
    BY <2>2 DEF Order, ChanOrder
  <2>4. \A e : Known(e) <=> Known(e)'
    BY <2>1 DEF Known
  <2>5. PICK h : h = Last'
    OBVIOUS
  <2>6. /\ h = 0 \/ Known(h)
        /\ \A e \in Contents(chan') : h < e
        /\ Taking => \A e \in Contents(pipe) : h < e
        /\ hand # 0 => h < hand
        /\ runtime = "codex" /\ pump \notin {"close", "ended"} => h # Idle
    BY <1>2, <2>2, <2>3, <2>5
       DEF Order, ChanOrder, PipeOrder, HandOrder, LastKnown, IdleIsLast
  <2>7. ChanOrder' /\ LastKnown'
    BY <2>1, <2>2, <2>4, <2>5, <2>6 DEF Order, ChanOrder, LastKnown, Known
  <2>8. PipeOrder' /\ HandOrder'
    BY <2>1, <2>2, <2>4, <2>5, <2>6 DEF Order, PipeOrder, HandOrder, Taking, Known
  <2>9. IdleIsLast'
    BY <2>1, <2>2, <2>5, <2>6 DEF Order, IdleIsLast
  <2> QED  BY <2>7, <2>8, <2>9 DEF Order
<1>3. CASE TakesEvent
  <2>1. Head(chan) \in Events
    BY <1>0, <1>3, TailContents DEF TakesEvent
  <2>2. Last' = Head(chan)
    BY <1>3, <2>1, LastAfter DEF TakesEvent
  <2> QED  BY <1>2, <1>3, <2>2 DEF TakesEvent
<1>4. CASE StoreFails
  BY <1>2, <1>4 DEF StoreFails, Last, Stream!Latest
<1> QED  BY <1>1, <1>3, <1>4 DEF RunStep

LEMMA OrderStep == OInv /\ [Next]_vars => Order'
<1> SUFFICES ASSUME OInv, [Next]_vars PROVE Order'
  OBVIOUS
<1>1. CASE ContextKills \/ DeadlinePasses \/ CallerReturns
  BY <1>1, OrderStays DEF ContextKills, DeadlinePasses, CallerReturns, ContextEnds,
     agentVars, pumpVars, chanVars, runVars
<1>2. CASE StopStep
  <2>1. CASE StopKills \/ StopDetaches \/ StopCloses
    BY <2>1, OrderStays DEF StopKills, StopDetaches, StopCloses, Killed,
       agentVars, pumpVars, chanVars
  <2>2. CASE StopJoins
    BY <2>2, OrderStays DEF StopJoins, Killed, chanVars, OInv, PInv, TypeOK
  <2> QED  BY <1>2, <2>1, <2>2 DEF StopStep
<1>3. CASE UNCHANGED vars
  BY <1>3, OrderStays DEF vars, agentVars, pumpVars, chanVars, runVars
<1> QED
  BY <1>1, <1>2, <1>3, OrderAgent, OrderPump, OrderHandler, OrderRun DEF Next

THEOREM OrderHolds == Spec => []OInv
BY TypeInit, TypeStep, PlacesInit, PlacesStep, OrderInit, OrderStep, PTL DEF Spec, PInv, OInv
-----------------------------------------------------------------------------
(* A session is a stream *)

Reading == run \in {"prompt", "reading"}

LEMMA StreamStep == OInv /\ [Next]_vars => [Stream!Next]_(Stream!vars)
<1> SUFFICES ASSUME OInv, [Next]_vars PROVE [Stream!Next]_(Stream!vars)
  OBVIOUS
<1> USE DEF OInv, PInv
<1>1. ASSUME UNCHANGED <<said, agent, got>>, UNCHANGED run \/ Reading' = Reading \/ (Reading /\ ~Reading')
      PROVE  [Stream!Next]_(Stream!vars)
  BY <1>1 DEF Stream!Next, Stream!Leave, Stream!vars, Reading
<1>2. ASSUME UNCHANGED <<said, got>>, Reading' = Reading, agent' = agent \/ agent' # "working"
      PROVE  [Stream!Next]_(Stream!vars)
  BY <1>2 DEF Stream!Next, Stream!Finish, Stream!vars, Reading
<1>3. CASE AgentSays
  BY <1>3 DEF AgentSays, Stream!Next, Stream!Say, runVars
<1>4. CASE AgentIsDone \/ AgentCrashes \/ ContextKills
  BY <1>2, <1>4 DEF AgentIsDone, AgentCrashes, ContextKills, runVars, Reading
<1>5. CASE PumpStep
  <2>1. UNCHANGED <<said, got, run>> /\ (agent' = agent \/ agent' # "working")
    BY <1>5 DEF PumpStep, PumpReads, PumpSkips, PumpStopsReading, PumpSends, PumpIsCancelled,
       PumpDrains, PumpWaits, PumpSendsIdle, PumpOmitsIdle, PumpCloses, PumpGoes, Killed, runVars
  <2> QED  BY <1>2, <2>1 DEF Reading
<1>6. CASE HandlerStep
  <2>1. UNCHANGED <<said, agent, got, run>>
    BY <1>6 DEF HandlerStep, HandlerIsCalled, HandlerChecks, HandlerSends, HandlerGivesUp,
       HandlerDrops, HandlerReturns, PumpGoes, agentVars, runVars
  <2> QED  BY <1>1, <2>1 DEF Reading
<1>7. CASE TakesEvent
  <2>0. chan \in Seq(Events) /\ chan # <<>>
    BY <1>7 DEF TakesEvent, TypeOK, Events
  <2>1. Head(chan) \in Contents(chan) /\ Head(chan) \in Events
    BY <2>0, TailContents
  <2>2. Known(Head(chan)) /\ Last < Head(chan)
    BY <2>1 DEF Order, ChanOrder
  <2>3. CASE Head(chan) = Idle
    <3>1. agent # "working"
      BY <2>2, <2>3, EventNumbers DEF Known, Idle, TypeOK
    <3>2. Stream!ReceiveIdle
      BY <1>7, <2>2, <2>3, <3>1
         DEF TakesEvent, Leaves, agentVars, Stream!ReceiveIdle, Stream!Idle, Idle, Last
    <3> QED  BY <3>2 DEF Stream!Next
  <2>4. CASE Head(chan) # Idle
    <3>1. Head(chan) \in 1..said
      BY <2>2, <2>4 DEF Known
    <3>2. Stream!Receive
      BY <1>7, <2>2, <2>4, <3>1 DEF TakesEvent, agentVars, Stream!Receive, Last
    <3> QED  BY <3>2 DEF Stream!Next
  <2> QED  BY <2>3, <2>4
<1>8. CASE PromptSent \/ PromptFails \/ CreateRunFails \/ StoreFails \/ ChannelClosed \/ ContextDone
  BY <1>1, <1>8 DEF PromptSent, PromptFails, CreateRunFails, StoreFails, ChannelClosed,
     ContextDone, Leaves, agentVars, Reading
<1>9. CASE StopStep
  <2>1. /\ UNCHANGED <<said, got>> /\ Reading' = Reading
        /\ agent' = agent \/ agent' # "working"
    BY <1>9 DEF StopStep, StopKills, StopDetaches, StopJoins, StopCloses, Killed, agentVars, Reading
  <2> QED  BY <1>2, <2>1
<1>10. CASE DeadlinePasses \/ CallerReturns
  BY <1>1, <1>10 DEF DeadlinePasses, CallerReturns, ContextEnds, agentVars, runVars
<1>11. CASE UNCHANGED vars
  BY <1>1, <1>11 DEF vars, agentVars, runVars
<1> QED
  BY <1>3, <1>4, <1>5, <1>6, <1>7, <1>8, <1>9, <1>10, <1>11 DEF Next, AgentStep, RunStep

\* Both runtimes give a run what AgentStream promises, for channels and pipes
\* of every size.
THEOREM SessionIsStream == Spec => FollowsStream
<1>1. Init => Stream!Init
  BY DEF Init, Stream!Init
<1>2. OInv /\ [Next]_vars => [Stream!Next]_(Stream!vars)
  BY StreamStep
<1> QED  BY <1>1, <1>2, OrderHolds, PTL DEF Spec, FollowsStream, Stream!Spec
-----------------------------------------------------------------------------
(* The idle event of Codex *)

Ended == pump \in {"idle", "close", "ended"}

Earned ==
  runtime = "codex" /\ (Idle \in Contents(got) \/ Idle \in Contents(chan) \/ pump = "idle") =>
    reaped /\ Ended /\ (agent = "done" \/ ScanFailed)

EInv == PInv /\ Order /\ Earned

LEMMA EarnedInit == Init => Earned
<1>1. Init => Contents(got) = {} /\ Contents(chan) = {}
  BY EmptyContents DEF Init
<1> QED  BY <1>1 DEF Init, Earned

\* A step that brings no idle event and leaves alone what the pump has found.
LEMMA EarnedStays ==
  ASSUME EInv, UNCHANGED <<runtime, huge>>,
         Idle \in Contents(got)' => Idle \in Contents(got) \/ Idle \in Contents(chan),
         Idle \in Contents(chan)' => Idle \in Contents(chan) \/ pump = "idle",
         pump' = "idle" => pump = "idle",
         reaped => reaped', Ended => Ended', agent = "done" => agent' = "done",
         runtime = "codex" /\ Ended => pipe' = pipe
  PROVE  Earned'
BY DEF EInv, Earned, ScanFailed

LEMMA EarnedStep == EInv /\ [Next]_vars => Earned'
<1> SUFFICES ASSUME EInv, [Next]_vars PROVE Earned'
  OBVIOUS
<1> USE DEF EInv, PInv
<1>0. chan \in Seq(Events) /\ got \in Seq(Events)
  BY DEF TypeOK, Events
<1>1. CASE AgentStep \/ ContextKills \/ DeadlinePasses \/ CallerReturns
  <2>1. /\ UNCHANGED <<runtime, pump, reaped, got, chan>>
        /\ agent = "done" => UNCHANGED <<agent, huge, pipe>>
        /\ Ended => UNCHANGED <<huge, pipe>>
        /\ UNCHANGED huge \/ ~Ended
    BY <1>1 DEF AgentStep, AgentSays, AgentIsDone, AgentCrashes, ContextKills, DeadlinePasses,
       CallerReturns, ContextEnds, agentVars, pumpVars, chanVars, runVars, Places, Ended
  <2> QED  BY <2>1 DEF Earned, Ended, ScanFailed
<1>2. ASSUME NEW e \in Events, chan' = Append(chan, e), UNCHANGED got
      PROVE  /\ Contents(chan)' = Contents(chan) \union {e}
             /\ Contents(got)' = Contents(got)
  BY <1>0, <1>2, AppendContents
<1>3. CASE PumpStep
  <2>1. CASE PumpReads \/ PumpSkips \/ PumpStopsReading \/ PumpIsCancelled \/ PumpDrains \/ PumpOmitsIdle \/ PumpCloses
    <3>1. /\ UNCHANGED <<runtime, huge, got, chan, reaped>>
          /\ pump' # "idle" /\ (agent = "done" => agent' = "done")
          /\ Ended => Ended' /\ pipe' = pipe
      BY <2>1 DEF PumpReads, PumpSkips, PumpStopsReading, PumpIsCancelled, PumpDrains,
         PumpOmitsIdle, PumpCloses, PumpGoes, Killed, chanVars, runVars, Ended
    <3> QED  BY <3>1, EarnedStays
  <2>2. CASE PumpSends
    <3>1. hand \in Events /\ runtime = "codex"
      BY <2>2 DEF PumpSends, TypeOK, Events, HandlerPlaces
    <3>2. Contents(chan)' = Contents(chan) \union {hand} /\ Contents(got)' = Contents(got) /\ hand # Idle
      BY <1>2, <2>2, <3>1 DEF PumpSends, PumpGoes, Send, runVars, Order, IdleIsLast
    <3> QED  BY <2>2, <3>2, EarnedStays DEF PumpSends, PumpGoes, Ended
  <2>3. CASE PumpWaits
    <3>1. PICK ok \in ProcessOk : PumpGoes(IF ok \/ ScanFailed THEN "idle" ELSE "close")
      BY <2>3 DEF PumpWaits
    <3>2. ok => agent = "done"
      BY <3>1 DEF ProcessOk
    <3>3. /\ UNCHANGED <<runtime, huge, got, chan, pipe, agent>> /\ reaped' /\ pump = "wait"
          /\ pump' \in {"idle", "close"} /\ (pump' = "idle" => agent = "done" \/ ScanFailed)
      BY <2>3, <3>1, <3>2 DEF PumpWaits, PumpGoes, chanVars, runVars
    <3> QED  BY <3>3 DEF Earned, Ended, ScanFailed
  <2>4. CASE PumpSendsIdle
    <3>1. Contents(chan)' = Contents(chan) \union {Idle} /\ Contents(got)' = Contents(got)
      BY <1>2, <2>4, EventNumbers DEF PumpSendsIdle, PumpGoes, Send, runVars
    <3> QED  BY <2>4, <3>1 DEF PumpSendsIdle, PumpGoes, Earned, Ended, ScanFailed
  <2> QED  BY <1>3, <2>1, <2>2, <2>3, <2>4 DEF PumpStep
<1>4. CASE HandlerStep
  <2>1. runtime # "codex" /\ runtime' = runtime
    BY <1>4 DEF HandlerStep, HandlerIsCalled, HandlerChecks, HandlerSends, HandlerGivesUp,
       HandlerDrops, HandlerReturns, PumpGoes, TypeOK, PumpPlaces
  <2> QED  BY <2>1 DEF Earned
<1>5. CASE PromptSent \/ PromptFails \/ CreateRunFails \/ ChannelClosed \/ ContextDone
  <2>1. UNCHANGED <<runtime, agent, huge, pipe, pump, reaped, chan, got>>
    BY <1>5 DEF PromptSent, PromptFails, CreateRunFails, ChannelClosed, ContextDone,
       Leaves, agentVars, pumpVars, chanVars
  <2> QED  BY <2>1 DEF Earned, Ended, ScanFailed
<1>6. ASSUME chan # <<>>, chan' = Tail(chan), UNCHANGED <<runtime, agentVars, pipe, pumpVars>>,
             got' = got \/ got' = Append(got, Head(chan))
      PROVE  Earned'
  <2>1. Head(chan) \in Events /\ Contents(chan) = {Head(chan)} \union Contents(chan')
    BY <1>0, <1>6, TailContents
  <2>2. Contents(got') \subseteq Contents(got) \union {Head(chan)}
    BY <1>0, <1>6, <2>1, AppendContents
  <2>3. UNCHANGED <<runtime, agent, huge, pipe, pump, reaped>>
    BY <1>6 DEF agentVars, pumpVars
  <2> QED  BY <2>1, <2>2, <2>3 DEF Earned, Ended, ScanFailed
<1>7. CASE TakesEvent \/ StoreFails
  BY <1>6, <1>7 DEF TakesEvent, StoreFails
<1>8. CASE StopStep
  <2>1. CASE StopKills \/ StopDetaches \/ StopCloses
    <3>1. UNCHANGED <<runtime, huge, pipe, pump, reaped, chan, got>> /\ (agent = "done" => agent' = "done")
      BY <2>1 DEF StopKills, StopDetaches, StopCloses, Killed, agentVars, pumpVars, chanVars
    <3> QED  BY <3>1 DEF Earned, Ended, ScanFailed
  <2>2. CASE StopJoins
    <3>1. runtime # "codex" /\ runtime' = runtime
      BY <2>2 DEF StopJoins, TypeOK, PumpPlaces
    <3> QED  BY <3>1 DEF Earned
  <2> QED  BY <1>8, <2>1, <2>2 DEF StopStep
<1>9. CASE UNCHANGED vars
  <2>1. UNCHANGED <<runtime, agent, huge, pipe, pump, reaped, chan, got>>
    BY <1>9 DEF vars, agentVars, pumpVars, chanVars, runVars
  <2> QED  BY <2>1 DEF Earned, Ended, ScanFailed
<1> QED
  BY <1>1, <1>3, <1>4, <1>5, <1>7, <1>8, <1>9 DEF Next, RunStep

THEOREM EarnedHolds == Spec => []EInv
<1>1. Init => Earned
  BY EarnedInit
<1>2. OInv /\ Earned /\ [Next]_vars => Earned'
  BY EarnedStep DEF OInv, EInv
<1> QED  BY <1>1, <1>2, OrderHolds, PTL DEF Spec, OInv, EInv

\* No run of Codex ends by an idle event that its process has not earned.
THEOREM IdleEarned == Spec => []IdleIsEarned
<1>1. EInv => IdleIsEarned
  <2> SUFFICES ASSUME EInv, runtime = "codex", Stored(Idle)
               PROVE  reaped /\ (agent = "done" \/ ScanFailed)
    BY DEF IdleIsEarned
  <2>1. got \in Seq(Events)
    BY DEF EInv, PInv, TypeOK, Events
  <2>2. Idle \in Contents(got)
    BY <2>1 DEF Stored, Contents
  <2> QED  BY <2>2 DEF EInv, Earned
<1> QED  BY <1>1, EarnedHolds, PTL
-----------------------------------------------------------------------------
(* The record of the run *)

Accounted(n) == n \in Contents(got) \/ Skipped(n) \/ n \in dropped

Underway(n) == n \in Contents(chan) \/ n = hand \/ n \in Contents(pipe)

\* While the run reads, under a live context, no event is lost on the way.
NothingLost ==
  Reading /\ ~ctxDone => \A n \in 1..said : Accounted(n) \/ Underway(n)

\* What the pump leaves in the pipe when it waits for the process is lost to a
\* line that the scanner does not hold.
Unread ==
  runtime = "codex" /\ pump \in {"wait", "idle", "close", "ended"} /\ ~ctxDone =>
    /\ \A e \in Contents(pipe) : Skipped(e)
    /\ agent = "working" => huge # 0

Complete ==
  outcome \in {"idle", "closed"} /\ ~late =>
    agent # "working" /\ \A n \in 1..said : Accounted(n)

Record == NothingLost /\ Unread /\ Complete /\ huge <= said

RecInv == OInv /\ Record

LEMMA RecordInit == Init => Record
<1>1. Init => Contents(pipe) = {} /\ 1..said = {}
  BY EmptyContents DEF Init
<1> QED  BY <1>1 DEF Init, Record, NothingLost, Unread, Complete

\* A step that loses nothing, keeps the run reading or not, and tells the pump
\* nothing new.
LEMMA RecordStays ==
  ASSUME RecInv, UNCHANGED <<runtime, said, malformed, huge, outcome, late>>,
         Reading' => Reading, ctxDone => ctxDone',
         agent' = "working" => agent = "working",
         \A n \in 1..said : Accounted(n) => Accounted(n)',
         Reading /\ ~ctxDone' =>
           \A n \in 1..said : Underway(n) => Underway(n)' \/ Accounted(n)',
         runtime = "codex" /\ pump' \in {"wait", "idle", "close", "ended"} /\ ~ctxDone' =>
           pump \in {"wait", "idle", "close", "ended"} /\ pipe' = pipe
  PROVE  Record'
<1>1. \A n : Skipped(n)' = Skipped(n)
  BY DEF Skipped
<1>2. NothingLost'
  BY DEF RecInv, Record, NothingLost
<1>3. Unread'
  BY <1>1 DEF RecInv, Record, Unread
<1>4. Complete'
  BY DEF RecInv, Record, Complete
<1> QED  BY <1>2, <1>3, <1>4 DEF RecInv, Record

LEMMA RecordSays == RecInv /\ AgentSays => Record'
<1> SUFFICES ASSUME RecInv, AgentSays PROVE Record'
  OBVIOUS
<1> USE DEF RecInv, OInv, PInv
<1>0. PICK m : m = said + 1
  OBVIOUS
<1>1. /\ agent = "working" /\ pipe' = Append(pipe, m) /\ said' = m /\ m \in Events /\ said \in Nat
      /\ huge \in Nat /\ malformed \subseteq malformed' /\ (huge # 0 => huge' = huge)
      /\ huge' <= m
      /\ UNCHANGED <<runtime, agent, pump, hand, chan, got, ctxDone, dropped, run, outcome, late>>
  BY <1>0, EventNumbers DEF AgentSays, TypeOK, Events, Idle, pumpVars, chanVars, runVars, Record
<1>2. Contents(pipe)' = Contents(pipe) \union {m}
  BY <1>1, AppendContents DEF TypeOK, Events
<1>3. \A n : Skipped(n) => Skipped(n)'
  BY <1>1 DEF Skipped
<1>4. \A n : Accounted(n) => Accounted(n)'
  BY <1>1, <1>3 DEF Accounted
<1>5. 1..said' = 1..said \union {m}
  BY <1>0, <1>1
<1>6. NothingLost'
  BY <1>1, <1>2, <1>4, <1>5 DEF Record, NothingLost, Underway, Reading
<1>7. Unread'
  <2> SUFFICES ASSUME runtime = "codex", pump \in {"wait", "idle", "close", "ended"}, ~ctxDone
               PROVE  huge' # 0 /\ \A e \in Contents(pipe)' : Skipped(e)'
    BY <1>1 DEF Unread
  <2>1. huge # 0 /\ \A e \in Contents(pipe) : Skipped(e)
    BY <1>1 DEF Record, Unread
  <2>2. Skipped(m)'
    BY <1>0, <1>1, <2>1 DEF Skipped, Record
  <2> QED  BY <1>1, <1>2, <1>3, <2>1, <2>2
<1>8. Complete'
  BY <1>1 DEF Record, Complete
<1> QED  BY <1>1, <1>6, <1>7, <1>8 DEF Record

LEMMA RecordPump == RecInv /\ PumpStep => Record'
<1> SUFFICES ASSUME RecInv, PumpStep PROVE Record'
  OBVIOUS
<1> USE DEF RecInv, OInv, PInv
<1>0. pipe \in Seq(Events) /\ chan \in Seq(Events)
  BY DEF TypeOK, Events
<1>1. UNCHANGED <<runtime, said, malformed, huge, outcome, late, got, run, ctxDone, dropped>>
      /\ (agent' = "working" => agent = "working")
  BY DEF PumpStep, PumpReads, PumpSkips, PumpStopsReading, PumpSends, PumpIsCancelled,
     PumpDrains, PumpWaits, PumpSendsIdle, PumpOmitsIdle, PumpCloses, PumpGoes, Killed, runVars
<1>2. (Reading' => Reading) /\ \A n : Accounted(n)' = Accounted(n) /\ Skipped(n)' = Skipped(n)
  BY <1>1 DEF Reading, Accounted, Skipped
<1>3. CASE PumpReads \/ PumpSkips
  <2>1. /\ pipe # <<>> /\ pipe' = Tail(pipe) /\ hand = 0 /\ pump' \in {"scan", "send"} /\ chan' = chan
        /\ hand' = Head(pipe) \/ (hand' = 0 /\ Head(pipe) \in malformed)
    BY <1>3 DEF PumpReads, PumpSkips, PumpGoes, chanVars, TypeOK
  <2>2. Contents(pipe) = {Head(pipe)} \union Contents(pipe)'
    BY <1>0, <2>1, TailContents
  <2>3. \A n \in 1..said : Underway(n) => Underway(n)' \/ Accounted(n)
    BY <2>1, <2>2 DEF Underway, Accounted, Skipped
  <2> QED  BY <1>1, <1>2, <2>1, <2>3, RecordStays
<1>4. CASE PumpStopsReading
  <2>1. pump' = "wait" /\ UNCHANGED <<agent, pipe, hand, chan>> /\ pump = "scan"
        /\ IF pipe = <<>> THEN agent # "working" ELSE Head(pipe) = huge
    BY <1>4 DEF PumpStopsReading, PumpGoes, chanVars
  <2>2. CASE pipe = <<>>
    <3>1. Contents(pipe) = {}
      BY <2>2, EmptyContents
    <3> QED
      BY <1>1, <1>2, <2>1, <2>2, <3>1 DEF Record, NothingLost, Underway, Unread, Complete
  <2>3. CASE pipe # <<>>
    <3>1. Head(pipe) \in Events /\ Contents(pipe) = {Head(pipe)} \union Contents(Tail(pipe))
          /\ \A e \in Contents(Tail(pipe)) : Head(pipe) < e
      BY <1>0, <2>1, <2>3, TailContents DEF Order, PipeOrder, Taking
    <3>2. huge # 0 /\ \A e \in Contents(pipe) : huge <= e
      BY <1>0, <2>1, <2>3, <3>1, ContentsInEvents, EventNumbers DEF Events
    <3>3. \A e \in Contents(pipe) : Skipped(e)
      BY <3>2 DEF Skipped
    <3> QED
      BY <1>1, <1>2, <2>1, <3>2, <3>3 DEF Record, NothingLost, Underway, Unread, Complete
  <2> QED  BY <2>2, <2>3
<1>5. CASE PumpSends
  <2>1. chan' = Append(chan, hand) /\ hand \in Events /\ pipe' = pipe /\ pump' = "scan"
    BY <1>5 DEF PumpSends, PumpGoes, Send, TypeOK, Events
  <2>2. Contents(chan)' = Contents(chan) \union {hand}
    BY <1>0, <2>1, AppendContents
  <2>3. \A n \in 1..said : Underway(n) => Underway(n)'
    BY <2>1, <2>2 DEF Underway
  <2> QED  BY <1>1, <1>2, <2>1, <2>3, RecordStays
<1>6. CASE PumpIsCancelled \/ PumpDrains
  <2>1. ctxDone
    BY <1>6 DEF PumpIsCancelled, PumpDrains, Places
  <2> QED  BY <1>1, <1>2, <2>1, RecordStays
<1>7. CASE PumpWaits \/ PumpOmitsIdle \/ PumpCloses
  <2>1. UNCHANGED <<pipe, hand, chan>> /\ pump \in {"wait", "idle", "close"}
    BY <1>7 DEF PumpWaits, PumpOmitsIdle, PumpCloses, PumpGoes, chanVars
  <2>2. \A n : Underway(n)' = Underway(n)
    BY <2>1 DEF Underway
  <2> QED  BY <1>1, <1>2, <2>1, <2>2, RecordStays
<1>8. CASE PumpSendsIdle
  <2>1. UNCHANGED <<pipe, hand>> /\ pump = "idle" /\ chan' = Append(chan, Idle)
    BY <1>8 DEF PumpSendsIdle, PumpGoes, Send
  <2>2. Contents(chan)' = Contents(chan) \union {Idle}
    BY <1>0, <2>1, AppendContents, EventNumbers
  <2>3. \A n : Underway(n) => Underway(n)'
    BY <2>1, <2>2 DEF Underway
  <2> QED  BY <1>1, <1>2, <2>1, <2>3, RecordStays
<1> QED
  BY <1>3, <1>4, <1>5, <1>6, <1>7, <1>8 DEF PumpStep

LEMMA RecordHandler == RecInv /\ HandlerStep => Record'
<1> SUFFICES ASSUME RecInv, HandlerStep PROVE Record'
  OBVIOUS
<1> USE DEF RecInv, OInv, PInv
<1>0. pipe \in Seq(Events) /\ chan \in Seq(Events)
  BY DEF TypeOK, Events
<1>1. /\ UNCHANGED <<runtime, agent, said, malformed, huge, outcome, late, got, run, ctxDone>>
      /\ dropped \subseteq dropped' /\ runtime # "codex"
  BY DEF HandlerStep, HandlerIsCalled, HandlerChecks, HandlerSends, HandlerGivesUp,
     HandlerDrops, HandlerReturns, PumpGoes, agentVars, runVars, TypeOK, PumpPlaces
<1>2. (Reading' => Reading) /\ \A n : Accounted(n) => Accounted(n)'
  BY <1>1 DEF Reading, Accounted, Skipped
<1>3. ASSUME Reading /\ ~ctxDone => \A n \in 1..said : Underway(n) => Underway(n)' \/ Accounted(n)'
      PROVE  Record'
  BY <1>1, <1>2, <1>3, RecordStays
<1>4. CASE HandlerIsCalled
  <2>1. /\ pipe # <<>> /\ pipe' = Tail(pipe) /\ hand = 0 /\ chan' = chan
        /\ hand' = Head(pipe) \/ Head(pipe) \in malformed
    BY <1>4 DEF HandlerIsCalled, PumpGoes, chanVars, TypeOK
  <2>2. Contents(pipe) = {Head(pipe)} \union Contents(pipe)'
    BY <1>0, <2>1, TailContents
  <2>3. \A n \in 1..said : n = Head(pipe) => n = hand' \/ Accounted(n)
    BY <2>1 DEF Accounted, Skipped
  <2>4. \A n \in 1..said : Underway(n) => Underway(n)' \/ Accounted(n)
    BY <2>1, <2>2, <2>3 DEF Underway
  <2> QED  BY <1>2, <1>3, <2>4
<1>5. CASE HandlerChecks
  <2>1. \A n : Underway(n)' = Underway(n)
    BY <1>5 DEF HandlerChecks, chanVars, Underway
  <2> QED  BY <1>3, <2>1
<1>6. CASE HandlerSends
  <2>1. chan' = Append(chan, hand) /\ hand \in Events /\ pipe' = pipe
    BY <1>6 DEF HandlerSends, HandlerReturns, Send, TypeOK, Events
  <2>2. Contents(chan)' = Contents(chan) \union {hand}
    BY <1>0, <2>1, AppendContents
  <2>3. \A n \in 1..said : Underway(n) => Underway(n)'
    BY <2>1, <2>2 DEF Underway
  <2> QED  BY <1>3, <2>3
<1>7. CASE HandlerGivesUp
  <2>1. ~(Reading /\ ~ctxDone)
    BY <1>7 DEF HandlerGivesUp, Places, Reading
  <2> QED  BY <1>3, <2>1
<1>8. CASE HandlerDrops
  <2>1. UNCHANGED <<chan, pipe>> /\ dropped' = dropped \union {hand}
    BY <1>8 DEF HandlerDrops, HandlerReturns
  <2>2. \A n : Underway(n) => Underway(n)' \/ Accounted(n)'
    BY <2>1 DEF Underway, Accounted
  <2> QED  BY <1>3, <2>2
<1> QED  BY <1>4, <1>5, <1>6, <1>7, <1>8 DEF HandlerStep

LEMMA RecordRun == RecInv /\ RunStep => Record'
<1> SUFFICES ASSUME RecInv, RunStep PROVE Record'
  OBVIOUS
<1> USE DEF RecInv, OInv, PInv
<1>0. chan \in Seq(Events) /\ got \in Seq(Events) /\ said \in Nat
  BY DEF TypeOK, Events
<1>1. UNCHANGED <<runtime, agent, said, malformed, huge, pump, hand, pipe, ctxDone, dropped>>
  BY DEF RunStep, PromptSent, PromptFails, CreateRunFails, TakesEvent, StoreFails,
     ChannelClosed, ContextDone, agentVars, pumpVars
<1>2. \A n : Skipped(n)' = Skipped(n)
  BY <1>1 DEF Skipped
<1>3. Unread' /\ huge' <= said'
  BY <1>1, <1>2 DEF Record, Unread
<1>4. CASE PromptSent
  BY <1>1, <1>2, <1>3, <1>4
     DEF PromptSent, chanVars, Record, NothingLost, Complete, Reading, Accounted, Underway
<1>5. CASE PromptFails \/ CreateRunFails \/ StoreFails \/ ContextDone
  <2>1. outcome' \notin {"idle", "closed"} /\ ~Reading'
    BY <1>5 DEF PromptFails, CreateRunFails, StoreFails, ContextDone, Leaves, Reading
  <2> QED  BY <1>3, <2>1 DEF Record, NothingLost, Complete
\* The loop ends and nothing is underway: the record is complete.
<1>6. ASSUME Reading, ~Reading', UNCHANGED <<late, ctxDone>> \/ late' = ctxDone,
             \A n : n \in Contents(got) => n \in Contents(got)',
             agent # "working",
             ~ctxDone => \A n \in 1..said : ~Underway(n) \/ Skipped(n),
             late' = ctxDone
      PROVE  Record'
  <2>1. Complete'
    BY <1>1, <1>2, <1>6 DEF Record, NothingLost, Complete, Accounted
  <2> QED  BY <1>3, <1>6, <2>1 DEF Record, NothingLost
<1>7. ASSUME ~Taking, Reading, ~ctxDone
      PROVE  hand = 0 /\ \A e \in Contents(pipe) : Skipped(e)
  <2>1. hand = 0
    BY <1>7 DEF Taking, TypeOK
  <2>2. runtime = "codex" /\ pump \in {"wait", "idle", "close", "ended"}
    BY <1>7, SessionAssumption
       DEF Taking, TypeOK, Places, Reading, PumpPlaces, HandlerPlaces
  <2> QED  BY <1>7, <2>1, <2>2 DEF Record, Unread
<1>8. CASE ChannelClosed
  <2>1. /\ run = "reading" /\ closed /\ chan = <<>> /\ late' = ctxDone /\ got' = got /\ ~Reading' /\ Reading
    BY <1>8 DEF ChannelClosed, Leaves, Reading
  <2>2. pump = "ended" /\ agent # "working" /\ ~Taking
    BY <2>1 DEF Places, Taking
  <2>3. Contents(chan) = {}
    BY <2>1, EmptyContents
  <2>4. ~ctxDone => \A n \in 1..said : ~Underway(n) \/ Skipped(n)
    BY <1>0, <1>7, <2>1, <2>2, <2>3 DEF Underway
  <2> QED  BY <1>6, <2>1, <2>2, <2>4
<1>9. CASE TakesEvent
  <2>1. /\ chan # <<>> /\ ~ctxDone /\ got' = Append(got, Head(chan)) /\ chan' = Tail(chan)
        /\ Reading
    BY <1>9 DEF TakesEvent, Reading
  <2>2. /\ Head(chan) \in Events /\ Contents(chan) = {Head(chan)} \union Contents(chan)'
        /\ \A e \in Contents(chan)' : Head(chan) < e
    BY <1>0, <2>1, TailContents DEF Order, ChanOrder
  <2>3. Contents(got)' = Contents(got) \union {Head(chan)}
    BY <1>0, <2>1, <2>2, AppendContents
  <2>4. CASE Head(chan) # Idle
    <3>1. UNCHANGED <<run, outcome, late>>
      BY <1>9, <2>4 DEF TakesEvent
    <3>2. \A n : Accounted(n) => Accounted(n)'
      BY <1>1, <1>2, <2>3 DEF Accounted
    <3>3. \A n : Underway(n) => Underway(n)' \/ Accounted(n)'
      BY <1>1, <2>2, <2>3 DEF Underway, Accounted
    <3> QED  BY <1>1, <3>1, <3>2, <3>3, RecordStays DEF Reading
  <2>5. CASE Head(chan) = Idle
    <3>1. late' = ctxDone /\ ~Reading'
      BY <1>9, <2>5 DEF TakesEvent, Leaves, Reading, TypeOK
    <3>2. Known(Idle) /\ \A n \in 1..said : n < Idle /\ n # 0
      BY <2>2, <2>5, EventNumbers DEF Order, ChanOrder, TypeOK, Idle
    <3>3. agent # "working"
      BY <3>2 DEF Known
    <3>4. ASSUME NEW n \in 1..said PROVE ~Underway(n) \/ Skipped(n)
      <4>1. n < Idle /\ n # 0 /\ ~(Idle < n) /\ n # Idle
        BY <1>0, <3>2, <3>4, EventNumbers DEF Idle
      <4>2. n \notin Contents(chan)
        BY <2>2, <2>5, <4>1
      <4>3. CASE Taking
        BY <2>2, <2>5, <4>1, <4>2, <4>3 DEF Order, PipeOrder, HandOrder, Underway
      <4>4. CASE ~Taking
        BY <1>7, <2>1, <4>1, <4>2, <4>4 DEF Underway
      <4> QED  BY <4>3, <4>4
    <3> QED  BY <1>6, <2>1, <2>3, <3>1, <3>3, <3>4
  <2> QED  BY <2>4, <2>5
<1> QED  BY <1>4, <1>5, <1>8, <1>9 DEF RunStep

LEMMA RecordStep == RecInv /\ [Next]_vars => Record'
<1> SUFFICES ASSUME RecInv, [Next]_vars PROVE Record'
  OBVIOUS
<1> USE DEF RecInv, OInv, PInv
<1>1. ASSUME UNCHANGED <<runtime, said, malformed, huge, outcome, late, got, dropped, pump, hand, chan>>,
             Reading' => Reading, ctxDone => ctxDone', agent' = "working" => agent = "working",
             runtime = "codex" \/ Reading => pipe' = pipe
      PROVE  Record'
  <2>1. \A n : Accounted(n)' = Accounted(n)
    BY <1>1 DEF Accounted, Skipped
  <2>2. Reading => \A n : Underway(n)' = Underway(n)
    BY <1>1 DEF Underway
  <2> QED  BY <1>1, <2>1, <2>2, RecordStays
<1>2. CASE AgentIsDone
  <2>1. CASE runtime = "codex"
    BY <1>1, <1>2, <2>1 DEF AgentIsDone, pumpVars, chanVars, runVars, Reading
  <2>2. CASE runtime # "codex"
    <3>1. /\ pipe' = Append(pipe, Idle) /\ agent' = "done"
          /\ UNCHANGED <<runtime, said, malformed, huge, outcome, late, got, dropped, pump, hand, chan, run, ctxDone>>
      BY <1>2, <2>2 DEF AgentIsDone, pumpVars, chanVars, runVars
    <3>2. Contents(pipe)' = Contents(pipe) \union {Idle}
      BY <3>1, AppendContents, EventNumbers DEF TypeOK, Events
    <3>3. \A n : Accounted(n)' = Accounted(n) /\ (Underway(n) => Underway(n)')
      BY <3>1, <3>2 DEF Accounted, Skipped, Underway
    <3> QED  BY <2>2, <3>1, <3>3, RecordStays DEF Reading
  <2> QED  BY <2>1, <2>2
<1>3. CASE AgentCrashes \/ ContextKills \/ DeadlinePasses \/ CallerReturns
  BY <1>1, <1>3 DEF AgentCrashes, ContextKills, DeadlinePasses, CallerReturns, ContextEnds,
     agentVars, pumpVars, chanVars, runVars, Reading
<1>4. CASE StopKills \/ StopDetaches \/ StopCloses
  BY <1>1, <1>4 DEF StopKills, StopDetaches, StopCloses, Killed, agentVars, pumpVars, chanVars, Reading
<1>5. CASE StopJoins
  <2>1. /\ UNCHANGED <<runtime, said, malformed, huge, outcome, late, got, dropped, hand, chan, ctxDone>>
        /\ runtime # "codex" /\ ~Reading /\ ~Reading' /\ (agent' = "working" => agent = "working")
    BY <1>5 DEF StopJoins, Killed, chanVars, Reading, TypeOK, PumpPlaces
  <2>2. \A n : Accounted(n)' = Accounted(n)
    BY <2>1 DEF Accounted, Skipped
  <2> QED  BY <2>1, <2>2, RecordStays
<1>6. CASE UNCHANGED vars
  BY <1>1, <1>6 DEF vars, agentVars, pumpVars, chanVars, runVars, Reading
<1> QED
  BY <1>2, <1>3, <1>4, <1>5, <1>6, RecordSays, RecordPump, RecordHandler, RecordRun
     DEF Next, AgentStep, StopStep

THEOREM RecordHolds == Spec => []RecInv
<1>1. RecInv /\ [Next]_vars => Record'
  BY RecordStep
<1> QED  BY <1>1, RecordInit, OrderHolds, PTL DEF Spec, RecInv

\* Whatever the sizes of the channel and of the pipe: a run that its session
\* ended has stored every event that it does not declare lost.
THEOREM RecordComplete == Spec => []RecordIsComplete
<1>1. RecInv => RecordIsComplete
  <2> SUFFICES ASSUME RecInv, outcome \in {"idle", "closed"}, ~late, NEW n \in 1..said
               PROVE  Stored(n) \/ Skipped(n) \/ n \in dropped
    BY DEF RecordIsComplete
  <2>1. got \in Seq(Events)
    BY DEF RecInv, OInv, PInv, TypeOK, Events
  <2>2. n \in Contents(got) => Stored(n)
    BY <2>1 DEF Stored, Contents
  <2> QED  BY <2>2 DEF RecInv, Record, Complete, Accounted
<1> QED  BY <1>1, RecordHolds, PTL
-----------------------------------------------------------------------------
(* How a timeout can be lost *)

\* Only a deadline kills the agent of a run that reads, and what ended before
\* any deadline is not killed later.
KilledInv ==
  /\ Reading /\ agent = "killed" => ctxDone
  /\ outcome \in {"idle", "closed"} /\ ~late => agent \notin {"working", "killed"}
  /\ outcome = "idle" => ~late

LEMMA KilledStep ==
  ASSUME OInv, KilledInv, [Next]_vars PROVE KilledInv'
<1> USE DEF OInv, PInv, KilledInv, Reading
<1>1. CASE AgentStep \/ ContextKills \/ DeadlinePasses \/ CallerReturns
  BY <1>1 DEF AgentStep, AgentSays, AgentIsDone, AgentCrashes, ContextKills,
     DeadlinePasses, CallerReturns, ContextEnds, pumpVars, chanVars, runVars, agentVars
<1>2. CASE PumpStep
  <2>1. /\ UNCHANGED <<run, outcome, late, ctxDone>>
        /\ agent' = agent \/ (ctxDone /\ agent = "working" /\ agent' = "killed")
    BY <1>2 DEF PumpStep, PumpReads, PumpSkips, PumpStopsReading, PumpSends, PumpIsCancelled,
       PumpDrains, PumpWaits, PumpSendsIdle, PumpOmitsIdle, PumpCloses, PumpGoes, Killed,
       runVars
  <2> QED  BY <2>1
<1>3. CASE HandlerStep
  <2>1. UNCHANGED <<agent, run, outcome, late, ctxDone>>
    BY <1>3 DEF HandlerStep, HandlerIsCalled, HandlerChecks, HandlerSends, HandlerGivesUp,
       HandlerDrops, HandlerReturns, PumpGoes, agentVars, runVars
  <2> QED  BY <2>1
<1>4. CASE PromptSent \/ PromptFails \/ CreateRunFails \/ StoreFails \/ ContextDone
  BY <1>4 DEF Places, PromptSent, PromptFails, CreateRunFails, StoreFails, ContextDone,
     Leaves, agentVars
\* An idle event is in the channel only when the agent no longer works.
<1>5. CASE TakesEvent
  <2>1. /\ Reading /\ ~ctxDone /\ outcome = "none"
        /\ UNCHANGED <<agent, ctxDone>>
    BY <1>5 DEF TakesEvent, Places, agentVars
  <2>2. CASE Head(chan) = Idle
    <3>1. chan \in Seq(Events) /\ chan # <<>>
      BY <1>5 DEF TakesEvent, TypeOK, Events
    <3>2. Idle \in Contents(chan)
      BY <2>2, <3>1, TailContents
    <3>3. agent # "working"
      <4>1. Idle \in 1..said \/ agent # "working"
        BY <3>2 DEF Order, ChanOrder, Known
      <4>2. Idle \notin 1..said
        BY SessionAssumption DEF TypeOK, Idle
      <4> QED  BY <4>1, <4>2
    <3>4. outcome' = "idle" /\ late' = ctxDone /\ run' \in {"kill", "cancel"}
      BY <1>5, <2>2 DEF TakesEvent, Leaves
    <3> QED  BY <2>1, <3>3, <3>4
  <2>3. CASE Head(chan) # Idle
    <3>1. UNCHANGED <<run, outcome, late>>
      BY <1>5, <2>3 DEF TakesEvent
    <3> QED  BY <2>1, <3>1
  <2> QED  BY <2>2, <2>3
\* The pump closes the channel when it has waited for its process.
<1>6. CASE ChannelClosed
  <2>1. /\ Reading /\ agent # "working"
        /\ UNCHANGED <<agent, ctxDone>>
        /\ outcome' = "closed" /\ late' = ctxDone /\ run' \in {"kill", "cancel"}
    BY <1>6 DEF ChannelClosed, Leaves, Places, agentVars
  <2> QED  BY <2>1
<1>7. CASE StopStep
  <2>1. /\ ~Reading /\ ~Reading' /\ UNCHANGED <<outcome, late>>
        /\ agent' = agent \/ agent = "working"
    BY <1>7 DEF StopStep, StopKills, StopDetaches, StopJoins, StopCloses, Killed, agentVars
  <2> QED  BY <2>1
<1>8. CASE UNCHANGED vars
  BY <1>8 DEF vars, agentVars, runVars
<1> QED
  BY <1>1, <1>2, <1>3, <1>4, <1>5, <1>6, <1>7, <1>8 DEF Next, RunStep

\* A killed agent makes a success only in one way: the deadline had passed when
\* the loop took the closed channel for the end.  An idle event never does.
THEOREM TimeoutsAreLostToTheClose ==
  Spec => [](~TimeoutIsRecorded => outcome = "closed" /\ late)
<1>1. Init => KilledInv
  BY DEF Init, KilledInv
<1>2. KilledInv => (~TimeoutIsRecorded => outcome = "closed" /\ late)
  BY DEF KilledInv, TimeoutIsRecorded
<1> QED  BY <1>1, <1>2, KilledStep, OrderHolds, PTL DEF Spec
=============================================================================
