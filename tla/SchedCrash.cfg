SPECIFICATION TriesSpec
CONSTANTS
  None = None
  MaxBatches = 2
  NumItems = 2
  MaxAgents = 2
  MaxRetries = 2
  BatchRequests = {r1}
  BatchOps = {"restart"}
  AgentRequests = {}
  MaxFaults = 1
  MaxRestarts = 1
  r1 = r1
INVARIANTS TriesAreCapped NoRerunAfterSuccess OneItemPerFailure OneAgentPerFailure
PROPERTIES ItemsFollowLifecycle
