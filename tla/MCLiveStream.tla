---------------------------- MODULE MCLiveStream ----------------------------
(***************************************************************************)
(* LiveStream for TLC.  The service builds its bus as in Blocking, with a  *)
(* larger buffer; AllPolicies adds the other things that the bus offers.   *)
(* TwoEvents loses a part of the first time in a store of Resolution 2.    *)
(***************************************************************************)
EXTENDS LiveStream

Config(slowConsumerPolicy, maxSubscribers, idleTimeout) ==
  [SlowConsumerPolicy |-> slowConsumerPolicy, BufferSize |-> 1,
   MaxSubscribersPerSession |-> maxSubscribers, IdleTimeout |-> idleTimeout]

Blocking == {Config("block", 0, FALSE)}
AllPolicies ==
  Blocking \union {Config("drop_oldest", 1, FALSE), Config("drop_latest", 1, TRUE)}

TwoEvents == <<3, 4>>
=============================================================================
