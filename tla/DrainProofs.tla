---------------------------- MODULE DrainProofs ----------------------------
(***************************************************************************)
(* What a drain guarantees for any number of waiting requests, items and   *)
(* failing calls: a wait that found the service idle, outside the window   *)
(* between Tick's draining check and its count, stays right, and a service *)
(* ended by a drain loses nothing.                                         *)
(***************************************************************************)
EXTENDS Drain, TLAPS

\* The count is 1 exactly while the run counts; who waits has set draining.
CountInv ==
  /\ active = IF Counted THEN 1 ELSE 0
  /\ \A w \in Waiters : answer[w] # "none" => draining
  /\ loop \in {"claim", "claimAgent", "start", "run", "complete"} => queue > 0
  /\ main # "serving" => cancelled
  /\ loop = "stopped" => cancelled
  /\ ~storeOpen => cancelled
  /\ cancelled <=> cause # "none"
  /\ cause = "loop" => loop = "stopped"
  /\ cause = "wait" => FoundIdle # {}

\* A drain is the only thing that may end, or has ended, the service.
OnlyDrains == faults = 0 /\ ~early /\ cause \in {"none", "loop", "wait"}

\* Item and agent agree with the place in Tick.
ClaimInv ==
  OnlyDrains =>
    /\ loop # "rollback"
    /\ loop \in {"check", "select", "tick", "stopped", "list", "claim"} =>
         item = "pending" /\ agent = "idle"
    /\ loop = "claimAgent" => agent = "idle"
    /\ loop \in {"release", "finish"} => item = "pending"
    /\ loop = "finish" => agent = "idle"

\* The inductive invariant.
DInv == TypeOK /\ CountInv /\ IdleIsStable /\ ClaimInv
-----------------------------------------------------------------------------
(* Initial states *)

LEMMA DInvInit == Init => DInv
<1> SUFFICES ASSUME Init PROVE DInv
  OBVIOUS
<1>1. TypeOK
  <2>1. 0 \in 0..MaxFaults
    BY DrainAssumption
  <2> QED  BY <2>1 DEF Init, TypeOK, Claiming, Counted
<1>2. CountInv
  BY DEF Init, CountInv, Counted
<1>3. IdleIsStable
  BY DEF Init, IdleIsStable, Claiming, Counted
<1>4. ClaimInv
  BY DEF Init, ClaimInv
<1> QED  BY <1>1, <1>2, <1>3, <1>4 DEF DInv
-----------------------------------------------------------------------------
(* Steps *)

\* A claim or a run that nothing but a drain can disturb is not disturbed.
LEMMA Undisturbed ==
  ASSUME DInv, OnlyDrains, Claiming \/ Counted
  PROVE  ~cancelled /\ storeOpen
<1>1. cause # "loop"
  BY DEF DInv, CountInv, Claiming, Counted
<1>2. cause # "wait"
  BY DEF DInv, CountInv, IdleIsStable, OnlyDrains
<1> QED  BY <1>1, <1>2 DEF DInv, CountInv, OnlyDrains

LEMMA DrainCallFaults ==
  ASSUME TypeOK, NEW d, CallSucceeds(d) \/ CallFails(d)
  PROVE  faults' \in 0..MaxFaults /\ (faults' = 0 => faults = 0)
BY DrainAssumption DEF TypeOK, CallSucceeds, CallFails

LEMMA EndedByType ==
  ASSUME TypeOK, NEW c \in {"loop", "wait", "signal", "server"}, EndedBy(c)
  PROVE  cancelled' \in BOOLEAN /\ cause' \in {"none", "loop", "wait", "signal", "server"}
BY DEF TypeOK, EndedBy

\* Every step keeps the types.
LEMMA DrainTypeStep == TypeOK /\ CountInv /\ [Next]_vars => TypeOK'
<1> SUFFICES ASSUME TypeOK, CountInv, [Next]_vars PROVE TypeOK'
  OBVIOUS
<1> USE DEF stopVars, docVars, historyVars, tickVars, outsideVars, Claiming, Counted
<1>0. CASE LoopEnds
  BY <1>0, EndedByType DEF TypeOK, LoopEnds, RequestShutdown
<1>1. CASE LoopWaits \/ LoopCancelled \/ LoopTicks \/ TickSkips \/ TickStarts
  BY <1>1 DEF TypeOK, LoopWaits, LoopCancelled, LoopTicks, TickSkips, TickStarts
<1>2. CASE TickFinds \/ TickFindsNothing
  BY <1>2, DrainCallFaults DEF TypeOK, TickFinds, TickFindsNothing
<1>3. CASE ClaimItem \/ ClaimItemFails \/ ClaimAgent \/ ClaimAgentFails \/ Rollback
  BY <1>3, DrainCallFaults
     DEF TypeOK, ClaimItem, ClaimItemFails, ClaimAgent, ClaimAgentFails, Rollback
<1>4. CASE StartRun \/ RunEnds \/ FinishRun
  BY <1>4 DEF TypeOK, CountInv, StartRun, RunEnds, FinishRun
<1>5. CASE CompleteItem
  <2>1. queue - 1 \in 0..MaxItems
    BY <1>5, DrainAssumption DEF TypeOK, CountInv, CompleteItem
  <2> QED  BY <1>5, <2>1, DrainCallFaults DEF TypeOK, CompleteItem
<1>6. CASE ReleaseAgent
  BY <1>6, DrainCallFaults DEF TypeOK, ReleaseAgent
<1>7. CASE Restart
  BY <1>7 DEF TypeOK, Restart
<1>8. ASSUME NEW w \in Waiters, WaiterStep(w) PROVE TypeOK'
  <2>1. CASE RestartWaits(w)
    BY <2>1 DEF TypeOK, RestartWaits
  <2>2. CASE WaitReturns(w)
    <3>1. early' \in BOOLEAN
      BY <2>2 DEF WaitReturns
    <3> QED  BY <2>2, <3>1 DEF TypeOK, WaitReturns
  <2>3. CASE WaitTimesOut(w) \/ Answer(w)
    BY <2>3 DEF TypeOK, WaitTimesOut, Answer
  <2>4. CASE Drained(w)
    BY <2>4, EndedByType DEF TypeOK, Drained, RequestShutdown
  <2> QED  BY <1>8, <2>1, <2>2, <2>3, <2>4 DEF WaiterStep
<1>9. CASE MainStep
  <2>1. CASE MainWakes \/ MainShutsDown \/ MainExits
    BY <2>1 DEF TypeOK, MainWakes, MainShutsDown, MainExits
  <2>2. CASE MainStops
    BY <2>2 DEF TypeOK, MainStops
  <2>3. CASE ShutdownExpires
    BY <2>3 DEF TypeOK, ShutdownExpires
  <2>4. CASE MainCloses
    <3>1. storeOpen' \in BOOLEAN
      BY <2>4, Zenon DEF MainCloses
    <3> QED  BY <2>4, <3>1 DEF TypeOK, MainCloses
  <2> QED  BY <1>9, <2>1, <2>2, <2>3, <2>4 DEF MainStep
<1>10. CASE UNCHANGED vars
  BY <1>10 DEF TypeOK, vars
<1>11. CASE Signal \/ ServerFails
  BY <1>11, EndedByType DEF TypeOK, Signal, ServerFails
<1> QED
  BY <1>0, <1>1, <1>2, <1>3, <1>4, <1>5, <1>6, <1>7, <1>8, <1>9, <1>10, <1>11
     DEF Next, LoopStep
-----------------------------------------------------------------------------
LEMMA CountStep == TypeOK /\ CountInv /\ [Next]_vars => CountInv'
<1> SUFFICES ASSUME TypeOK, CountInv, [Next]_vars PROVE CountInv'
  OBVIOUS
<1> USE DEF stopVars, docVars, historyVars, tickVars, outsideVars, Counted, CountInv,
           FoundIdle
<1>1. CASE LoopEnds
  BY <1>1 DEF LoopEnds, RequestShutdown, EndedBy
<1>2. CASE LoopWaits \/ LoopCancelled \/ LoopTicks \/ TickSkips \/ TickStarts
  BY <1>2 DEF LoopWaits, LoopCancelled, LoopTicks, TickSkips, TickStarts
<1>3. CASE TickFinds \/ TickFindsNothing
  BY <1>3 DEF TickFinds, TickFindsNothing
<1>4. CASE ClaimItem \/ ClaimItemFails \/ ClaimAgent \/ ClaimAgentFails \/ Rollback
  BY <1>4 DEF ClaimItem, ClaimItemFails, ClaimAgent, ClaimAgentFails, Rollback
<1>5. CASE StartRun \/ RunEnds \/ FinishRun
  BY <1>5 DEF StartRun, RunEnds, FinishRun
<1>6. CASE CompleteItem \/ ReleaseAgent
  BY <1>6 DEF CompleteItem, ReleaseAgent
<1>7. CASE Restart
  BY <1>7 DEF Restart
<1>8. ASSUME NEW w \in Waiters, WaiterStep(w) PROVE CountInv'
  <2>1. CASE RestartWaits(w)
    BY <2>1 DEF TypeOK, RestartWaits
  <2>2. CASE WaitReturns(w)
    BY <2>2 DEF TypeOK, WaitReturns
  <2>3. CASE WaitTimesOut(w) \/ Answer(w)
    BY <2>3 DEF TypeOK, WaitTimesOut, Answer
  <2>4. CASE Drained(w)
    BY <2>4 DEF TypeOK, Drained, RequestShutdown, EndedBy
  <2> QED  BY <1>8, <2>1, <2>2, <2>3, <2>4 DEF WaiterStep
<1>9. CASE MainStep
  BY <1>9 DEF MainStep, MainWakes, MainStops, MainShutsDown, ShutdownExpires,
              MainCloses, MainExits
<1>10. CASE Signal \/ ServerFails
  BY <1>10 DEF Signal, ServerFails, EndedBy
<1>11. CASE UNCHANGED vars
  BY <1>11 DEF vars
<1> QED
  BY <1>1, <1>2, <1>3, <1>4, <1>5, <1>6, <1>7, <1>8, <1>9, <1>10, <1>11 DEF Next, LoopStep
-----------------------------------------------------------------------------
LEMMA IdleStep == TypeOK /\ CountInv /\ IdleIsStable /\ [Next]_vars => IdleIsStable'
<1> SUFFICES ASSUME TypeOK, CountInv, IdleIsStable, [Next]_vars PROVE IdleIsStable'
  OBVIOUS
<1> USE DEF stopVars, docVars, historyVars, tickVars, outsideVars, Counted, Claiming,
           IdleIsStable
<1>1. FoundIdle # {} => draining
  BY DEF CountInv, FoundIdle
<1>2. ASSUME LoopStep PROVE IdleIsStable'
  <2>1. UNCHANGED <<answer, early>>
    BY <1>2 DEF LoopStep, LoopEnds, LoopWaits, LoopCancelled, LoopTicks, TickSkips, TickStarts,
       TickFinds, TickFindsNothing, ClaimItem, ClaimItemFails, ClaimAgent, ClaimAgentFails,
       Rollback, StartRun, RunEnds, CompleteItem, ReleaseAgent, FinishRun
  <2>2. UNCHANGED FoundIdle
    BY <2>1 DEF FoundIdle
  <2>3. Claiming' \/ Counted' => Claiming \/ Counted \/ ~draining
    BY <1>2 DEF LoopStep, LoopEnds, LoopWaits, LoopCancelled, LoopTicks, TickSkips, TickStarts,
       TickFinds, TickFindsNothing, ClaimItem, ClaimItemFails, ClaimAgent, ClaimAgentFails,
       Rollback, StartRun, RunEnds, CompleteItem, ReleaseAgent, FinishRun
  <2> QED  BY <1>1, <2>1, <2>2, <2>3
<1>3. ASSUME NEW w \in Waiters, WaitReturns(w) PROVE IdleIsStable'
  <2>1. ~Counted
    BY <1>3 DEF WaitReturns, CountInv
  <2>2. ~early' => ~Claiming
    BY <1>3 DEF WaitReturns
  <2>3. UNCHANGED loop
    BY <1>3 DEF WaitReturns
  <2> QED  BY <2>1, <2>2, <2>3
<1>4. ASSUME NEW w \in Waiters,
             RestartWaits(w) \/ WaitTimesOut(w) \/ Drained(w) \/ Answer(w)
      PROVE  IdleIsStable'
  <2>1. UNCHANGED <<loop, early>>
    BY <1>4 DEF RestartWaits, WaitTimesOut, Drained, Answer
  <2>2. FoundIdle' \subseteq FoundIdle
    BY <1>4 DEF TypeOK, FoundIdle, RestartWaits, WaitTimesOut, Drained, Answer
  <2> QED  BY <2>1, <2>2
<1>5. CASE Restart \/ MainStep \/ Signal \/ ServerFails \/ UNCHANGED vars
  <2>1. UNCHANGED <<loop, answer, early>>
    BY <1>5 DEF Restart, MainStep, MainWakes, MainStops, MainShutsDown, ShutdownExpires,
                MainCloses, MainExits, Signal, ServerFails, vars
  <2> QED  BY <2>1 DEF FoundIdle
<1> QED
  BY <1>2, <1>3, <1>4, <1>5 DEF Next, WaiterStep

\* Whoever else may have ended the service, it stays so; a fault is not undone.
LEMMA OnlyDrainsBefore == DInv /\ [Next]_vars /\ OnlyDrains' => OnlyDrains
<1> SUFFICES ASSUME DInv, [Next]_vars, OnlyDrains' PROVE OnlyDrains
  OBVIOUS
<1> USE DEF stopVars, docVars, historyVars, tickVars, outsideVars, DInv, OnlyDrains
<1>1. ASSUME LoopStep PROVE OnlyDrains
  <2>1. faults' = 0 => faults = 0
    BY <1>1, DrainCallFaults
       DEF LoopStep, LoopEnds, LoopWaits, LoopCancelled, LoopTicks, TickSkips, TickStarts,
       TickFinds, TickFindsNothing, ClaimItem, ClaimItemFails, ClaimAgent, ClaimAgentFails,
       Rollback, StartRun, RunEnds, CompleteItem, ReleaseAgent, FinishRun
  <2>2. CASE LoopEnds
    BY <2>2 DEF LoopEnds, RequestShutdown, EndedBy, CountInv
  <2>3. CASE ~LoopEnds
    <3>1. UNCHANGED <<early, cause>>
      BY <1>1, <2>3 DEF LoopStep, LoopWaits, LoopCancelled, LoopTicks, TickSkips, TickStarts,
       TickFinds, TickFindsNothing, ClaimItem, ClaimItemFails, ClaimAgent, ClaimAgentFails,
       Rollback, StartRun, RunEnds, CompleteItem, ReleaseAgent, FinishRun
    <3> QED  BY <2>1, <3>1
  <2> QED  BY <2>2, <2>3
<1>2. ASSUME NEW w \in Waiters, WaiterStep(w) PROVE OnlyDrains
  <2>1. CASE RestartWaits(w) \/ WaitTimesOut(w) \/ Answer(w)
    BY <2>1 DEF RestartWaits, WaitTimesOut, Answer
  <2>2. CASE WaitReturns(w)
    <3>1. ~early
      BY <2>2, Zenon DEF WaitReturns
    <3> QED  BY <2>2, <3>1 DEF WaitReturns
  <2>3. CASE Drained(w)
    BY <2>3 DEF Drained, RequestShutdown, EndedBy, CountInv
  <2> QED  BY <1>2, <2>1, <2>2, <2>3 DEF WaiterStep
<1>3. CASE Restart \/ MainStep \/ UNCHANGED vars
  BY <1>3 DEF Restart, MainStep, MainWakes, MainStops, MainShutsDown, ShutdownExpires,
              MainCloses, MainExits, vars
<1>4. CASE Signal \/ ServerFails
  BY <1>4 DEF Signal, ServerFails, EndedBy
<1> QED
  BY <1>1, <1>2, <1>3, <1>4 DEF Next

LEMMA ClaimStep == DInv /\ [Next]_vars => ClaimInv'
<1> SUFFICES ASSUME DInv, [Next]_vars, OnlyDrains' PROVE ClaimInv'
  BY DEF ClaimInv
<1> USE DEF stopVars, docVars, historyVars, tickVars, outsideVars
<1>1. OnlyDrains
  BY OnlyDrainsBefore
<1>2. Claiming \/ Counted => ~cancelled /\ storeOpen
  BY <1>1, Undisturbed
<1>3. ASSUME Claiming \/ Counted, NEW d \in {cancelled, cancelled /\ ~detached}
      PROVE  ~CallFails(d)
  <2>1. ~d
    BY <1>2, <1>3
  <2> QED  BY <1>2, <1>3, <2>1 DEF CallFails, OnlyDrains, DInv, TypeOK
<1>4. CASE LoopEnds \/ LoopWaits \/ LoopCancelled \/ LoopTicks \/ TickSkips \/ TickStarts
  BY <1>1, <1>4 DEF ClaimInv, DInv, LoopEnds, LoopWaits, LoopCancelled, LoopTicks, TickSkips,
                    TickStarts
<1>5. CASE TickFinds \/ TickFindsNothing
  BY <1>1, <1>5 DEF ClaimInv, DInv, TickFinds, TickFindsNothing
<1>6. CASE ClaimItem \/ ClaimAgent
  BY <1>1, <1>6 DEF ClaimInv, DInv, ClaimItem, ClaimAgent
<1>7. CASE ClaimItemFails \/ ClaimAgentFails
  BY <1>3, <1>7 DEF ClaimItemFails, ClaimAgentFails, Claiming
<1>8. CASE Rollback
  BY <1>1, <1>8 DEF ClaimInv, DInv, Rollback
<1>9. CASE StartRun \/ RunEnds \/ FinishRun
  BY <1>1, <1>9 DEF ClaimInv, DInv, StartRun, RunEnds, FinishRun
<1>10. CASE CompleteItem
  <2>1. ~CallFails(cancelled /\ ~detached)
    BY <1>3, <1>10 DEF CompleteItem, Counted
  <2> QED  BY <1>1, <1>10, <2>1 DEF ClaimInv, DInv, CompleteItem
<1>11. CASE ReleaseAgent
  <2>1. ~CallFails(cancelled /\ ~detached)
    BY <1>3, <1>11 DEF ReleaseAgent, Counted
  <2> QED  BY <1>1, <1>11, <2>1 DEF ClaimInv, DInv, ReleaseAgent
<1>12. ASSUME NEW w \in Waiters, WaiterStep(w) PROVE ClaimInv'
  BY <1>1, <1>12 DEF ClaimInv, DInv, WaiterStep, RestartWaits, WaitReturns, WaitTimesOut,
                     Drained, Answer
<1>13. CASE Restart \/ MainStep \/ Signal \/ ServerFails \/ UNCHANGED vars
  BY <1>1, <1>13 DEF ClaimInv, DInv, Restart, MainStep, MainWakes, MainStops, MainShutsDown,
                     ShutdownExpires, MainCloses, MainExits, Signal, ServerFails, vars
<1> QED
  BY <1>4, <1>5, <1>6, <1>7, <1>8, <1>9, <1>10, <1>11, <1>12, <1>13 DEF Next, LoopStep
-----------------------------------------------------------------------------
LEMMA DInvStep == DInv /\ [Next]_vars => DInv'
BY DrainTypeStep, CountStep, IdleStep, ClaimStep DEF DInv

\* DInv holds of every behaviour.
THEOREM DInvHolds == Spec => []DInv
BY DInvInit, DInvStep, PTL DEF Spec

\* Types of every variable; no two runs are ever counted at once.
THEOREM DrainTypeCorrect == Spec => []TypeOK
<1>1. DInv => TypeOK
  BY DEF DInv
<1> QED  BY <1>1, DInvHolds, PTL

\* A wait that found the service idle outside the window stays right.
THEOREM IdleStaysIdle == Spec => []IdleIsStable
<1>1. DInv => IdleIsStable
  BY DEF DInv
<1> QED  BY <1>1, DInvHolds, PTL

\* A service ended by a drain, with no wait in that window, has no item in
\* progress and no busy agent.
THEOREM DrainsAreClean == Spec => []DrainLosesNothing
<1>1. DInv => DrainLosesNothing
  BY DEF DInv, ClaimInv, OnlyDrains, DrainLosesNothing
<1> QED  BY <1>1, DInvHolds, PTL
\* Who is still unanswered after server.Shutdown has returned, it gave up on.
AnswerInv == main \in {"close", "wait", "exited"} /\ ~expired => Unanswered = {}

LEMMA AnswerStep == TypeOK /\ AnswerInv /\ [Next]_vars => AnswerInv'
<1> SUFFICES ASSUME TypeOK, AnswerInv, [Next]_vars PROVE AnswerInv'
  OBVIOUS
<1> USE DEF stopVars, docVars, historyVars, tickVars, outsideVars, AnswerInv, Unanswered
<1>1. CASE LoopStep \/ Restart \/ Signal \/ ServerFails \/ UNCHANGED vars
  <2>1. UNCHANGED <<answer, expired>> /\ (UNCHANGED main \/ main' = "stop")
    BY <1>1 DEF LoopStep, LoopEnds, LoopWaits, LoopCancelled, LoopTicks, TickSkips, TickStarts,
       TickFinds, TickFindsNothing, ClaimItem, ClaimItemFails, ClaimAgent, ClaimAgentFails,
       Rollback, StartRun, RunEnds, CompleteItem, ReleaseAgent, FinishRun,
       Restart, Signal, ServerFails, vars
  <2> QED  BY <2>1
<1>2. ASSUME NEW w \in Waiters, RestartWaits(w) PROVE AnswerInv'
  BY <1>2 DEF RestartWaits, Accepting
<1>3. ASSUME NEW w \in Waiters,
             WaitReturns(w) \/ WaitTimesOut(w) \/ Drained(w) \/ Answer(w)
      PROVE  AnswerInv'
  <2>1. w \in Unanswered /\ UNCHANGED <<main, expired>>
    BY <1>3 DEF WaitReturns, WaitTimesOut, Drained, Answer
  <2> QED  BY <2>1
<1>4. CASE MainStep
  <2>1. UNCHANGED answer
    BY <1>4 DEF MainStep, MainWakes, MainStops, MainShutsDown, ShutdownExpires, MainCloses,
                MainExits
  <2> QED
    BY <1>4, <2>1 DEF MainStep, MainWakes, MainStops, MainShutsDown, ShutdownExpires,
                      MainCloses, MainExits
<1> QED
  BY <1>1, <1>2, <1>3, <1>4 DEF Next, WaiterStep

\* A process that ends has answered every request that asked for a wait, unless
\* server.Shutdown ran out of time.
THEOREM NobodyIsLeftWaiting == Spec => []WaitersAreAnswered
<1>1. Init => AnswerInv
  BY DEF Init, AnswerInv
<1>2. DInv => TypeOK
  BY DEF DInv
<1>3. AnswerInv => WaitersAreAnswered
  BY DEF AnswerInv, WaitersAreAnswered
<1> QED  BY <1>1, <1>2, <1>3, AnswerStep, DInvHolds, PTL DEF Spec
-----------------------------------------------------------------------------
(* A drain goes straight to its end *)

LEMMA DrainingStays ==
  ASSUME draining, Next PROVE draining'
<1> USE DEF stopVars, docVars, historyVars, tickVars, outsideVars
<1>1. CASE LoopStep
  BY <1>1, Zenon
     DEF LoopStep, LoopEnds, LoopWaits, LoopCancelled, LoopTicks, TickSkips, TickStarts,
         TickFinds, TickFindsNothing, ClaimItem, ClaimItemFails, ClaimAgent,
         ClaimAgentFails, Rollback, StartRun, RunEnds, CompleteItem, ReleaseAgent,
         FinishRun, RequestShutdown
<1>2. CASE Restart \/ \E w \in Waiters : WaiterStep(w)
  BY <1>2, Zenon
     DEF Restart, WaiterStep, RestartWaits, WaitReturns, WaitTimesOut, Drained, Answer,
         RequestShutdown
<1>3. CASE MainStep \/ Signal \/ ServerFails
  BY <1>3, Zenon
     DEF MainStep, MainWakes, MainStops, MainShutsDown, ShutdownExpires, MainCloses,
         MainExits, Signal, ServerFails
<1> QED  BY <1>1, <1>2, <1>3 DEF Next

LEMMA StraightStep ==
  ASSUME CountInv, draining, Next
  PROVE  loop' = loop \/ StepsFrom(loop') < StepsFrom(loop)
<1>1. CASE LoopEnds
  BY <1>1 DEF StepsFrom, LoopEnds
<1>2. CASE LoopCancelled
  BY <1>2 DEF StepsFrom, LoopCancelled
<1>3. CASE LoopTicks
  BY <1>3 DEF StepsFrom, LoopTicks
<1>4. CASE TickSkips
  BY <1>4 DEF StepsFrom, TickSkips
<1>5. CASE TickFinds
  BY <1>5 DEF StepsFrom, TickFinds
<1>6. CASE TickFindsNothing
  BY <1>6 DEF StepsFrom, TickFindsNothing
<1>7. CASE ClaimItem
  BY <1>7 DEF StepsFrom, ClaimItem
<1>8. CASE ClaimItemFails
  BY <1>8 DEF StepsFrom, ClaimItemFails
<1>9. CASE ClaimAgent
  BY <1>9 DEF StepsFrom, ClaimAgent
<1>10. CASE ClaimAgentFails
  BY <1>10 DEF StepsFrom, ClaimAgentFails
<1>11. CASE Rollback
  BY <1>11 DEF StepsFrom, Rollback
<1>12. CASE StartRun
  BY <1>12 DEF StepsFrom, StartRun
<1>13. CASE RunEnds
  BY <1>13 DEF StepsFrom, RunEnds
<1>14. CASE CompleteItem
  BY <1>14 DEF StepsFrom, CompleteItem
<1>15. CASE ReleaseAgent
  BY <1>15 DEF StepsFrom, ReleaseAgent
<1>16. CASE FinishRun
  BY <1>16 DEF StepsFrom, FinishRun
\* Between two rounds nothing is counted, so the loop does not wait for a tick.
<1>17. ~LoopWaits
  BY DEF CountInv, Counted, LoopWaits
<1>18. ~TickStarts
  BY DEF TickStarts
<1>19. CASE Restart \/ (\E w \in Waiters : WaiterStep(w)) \/ MainStep \/ Signal \/ ServerFails
  <2>1. loop' = loop
    BY <1>19 DEF Restart, WaiterStep, RestartWaits, WaitReturns, WaitTimesOut, Drained,
                 Answer, MainStep, MainWakes, MainStops, MainShutsDown, ShutdownExpires,
                 MainCloses, MainExits, Signal, ServerFails, tickVars
  <2> QED  BY <2>1
<1> QED
  BY <1>1, <1>2, <1>3, <1>4, <1>5, <1>6, <1>7, <1>8, <1>9, <1>10, <1>11, <1>12, <1>13, <1>14, <1>15, <1>16, <1>17, <1>18, <1>19
     DEF Next, LoopStep

\* Once draining, the loop ends after at most the round it is in: eleven steps,
\* whatever is still to be done.
THEOREM DrainsGoStraight == Spec => DrainIsStraight
<1>1. DInv /\ [Next]_vars =>
        [draining => draining' /\ (loop' = loop \/ StepsFrom(loop') < StepsFrom(loop))]_vars
  BY StraightStep, DrainingStays DEF DInv
<1> QED  BY <1>1, DInvHolds, PTL DEF Spec, DrainIsStraight
-----------------------------------------------------------------------------
(* How the cleanup of a cancelled run can be lost *)

\* What a detached context has written while the store was open.
CleanInv ==
  detached /\ faults = 0 /\ storeOpen =>
    /\ loop \in {"release", "finish"} => item = "pending"
    /\ loop = "finish" => agent = "idle"

LEMMA CleanStep ==
  ASSUME TypeOK, CleanInv, [Next]_vars PROVE CleanInv'
<1> USE DEF stopVars, docVars, historyVars, tickVars, outsideVars
<1>1. CASE LoopEnds \/ LoopWaits \/ LoopCancelled \/ LoopTicks \/ TickSkips \/ TickStarts
  BY <1>1 DEF CleanInv, LoopEnds, LoopWaits, LoopCancelled, LoopTicks, TickSkips, TickStarts
<1>2. CASE TickFinds \/ TickFindsNothing \/ ClaimItem \/ ClaimItemFails \/ ClaimAgent
           \/ ClaimAgentFails \/ Rollback
  BY <1>2 DEF CleanInv, TickFinds, TickFindsNothing, ClaimItem, ClaimItemFails, ClaimAgent,
              ClaimAgentFails, Rollback
<1>3. CASE StartRun \/ RunEnds \/ FinishRun
  BY <1>3 DEF CleanInv, StartRun, RunEnds, FinishRun
<1>4. CASE CompleteItem
  <2>1. loop' = "release" /\ UNCHANGED <<detached, storeOpen>>
    BY <1>4 DEF CompleteItem
  <2>2. CASE item' = "pending"
    BY <2>1, <2>2 DEF CleanInv
  <2>3. CASE CallFails(cancelled /\ ~detached)
    <3>1. detached /\ storeOpen => faults' > 0
      BY <2>3 DEF TypeOK, CallFails
    <3> QED  BY <2>1, <3>1 DEF CleanInv
  <2> QED  BY <1>4, <2>2, <2>3 DEF CompleteItem
<1>5. CASE ReleaseAgent
  <2>1. loop = "release" /\ UNCHANGED <<detached, storeOpen, item>>
    BY <1>5 DEF ReleaseAgent
  <2>2. faults' = 0 => faults = 0
    BY <1>5 DEF TypeOK, ReleaseAgent, CallSucceeds, CallFails
  <2>3. CASE agent' = "idle"
    BY <2>1, <2>2, <2>3 DEF CleanInv
  <2>4. CASE CallFails(cancelled /\ ~detached)
    <3>1. detached /\ storeOpen => faults' > 0
      BY <2>4 DEF TypeOK, CallFails
    <3> QED  BY <2>1, <3>1 DEF CleanInv
  <2> QED  BY <1>5, <2>3, <2>4 DEF ReleaseAgent
<1>6. CASE Restart \/ \E w \in Waiters : WaiterStep(w)
  BY <1>6 DEF CleanInv, Restart, WaiterStep, RestartWaits, WaitReturns, WaitTimesOut,
              Drained, Answer
<1>7. CASE MainStep \/ Signal \/ ServerFails
  BY <1>7 DEF CleanInv, MainStep, MainWakes, MainStops, MainShutsDown, ShutdownExpires,
              MainCloses, MainExits, Signal, ServerFails
<1>8. CASE UNCHANGED vars
  BY <1>8 DEF CleanInv, vars
<1> QED
  BY <1>1, <1>2, <1>3, <1>4, <1>5, <1>6, <1>7, <1>8 DEF Next, LoopStep

\* As long as no call fails, only a store that App.Run has closed too early keeps
\* the writes after a cancelled run from it.
THEOREM CleanupNeedsTheStore ==
  Spec => [](~CleanupIsStored => ~storeOpen)
<1>1. Init => CleanInv
  BY DEF Init, CleanInv
<1>2. CleanInv => (~CleanupIsStored => ~storeOpen)
  BY DEF CleanInv, CleanupIsStored
<1>3. DInv => TypeOK
  BY DEF DInv
<1> QED  BY <1>1, <1>2, <1>3, CleanStep, DInvHolds, PTL DEF Spec
=============================================================================
