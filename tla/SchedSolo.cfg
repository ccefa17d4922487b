SPECIFICATION FairSpec
CONSTANTS
  None = None
  MaxBatches = 2
  NumItems = 2
  MaxAgents = 2
  MaxRetries = 2
  BatchRequests = {}
  BatchOps = {}
  AgentRequests = {q1}
  q1 = q1
  MaxFaults = 0
  MaxRestarts = 0
PROPERTIES EveryBatchSettles
