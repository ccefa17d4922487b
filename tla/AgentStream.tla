----------------------------- MODULE AgentStream -----------------------------
(***************************************************************************)
(* What a run may rely on when it reads a session: the agent's events come *)
(* in the order in which the agent sent them, none twice and none made up, *)
(* and the idle event comes last, once the agent is no longer at work.     *)
(* Events may be missing.                                                  *)
(***************************************************************************)
EXTENDS Naturals, Sequences

CONSTANT MaxEvents \* bound: events of the agent

VARIABLES
  said,    \* events that the agent has sent
  working, \* the agent is at work
  got,     \* events that the run has stored, in order
  reading  \* the run still reads the session

vars == <<said, working, got, reading>>

Idle == MaxEvents + 1

Latest == IF got = <<>> THEN 0 ELSE got[Len(got)]

Init ==
  /\ said = 0
  /\ working = TRUE
  /\ got = <<>>
  /\ reading = TRUE

Say ==
  /\ working
  /\ said < MaxEvents
  /\ said' = said + 1
  /\ UNCHANGED <<working, got, reading>>

Finish ==
  /\ working
  /\ working' = FALSE
  /\ UNCHANGED <<said, got, reading>>

Receive ==
  /\ reading
  /\ \E n \in 1..said : Latest < n /\ got' = Append(got, n)
  /\ UNCHANGED <<said, working, reading>>

ReceiveIdle ==
  /\ reading
  /\ ~working
  /\ Latest < Idle
  /\ got' = Append(got, Idle)
  /\ reading' = FALSE
  /\ UNCHANGED <<said, working>>

Leave ==
  /\ reading
  /\ reading' = FALSE
  /\ UNCHANGED <<said, working, got>>

Next == Say \/ Finish \/ Receive \/ ReceiveIdle \/ Leave

Spec == Init /\ [][Next]_vars
=============================================================================
