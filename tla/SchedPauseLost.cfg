SPECIFICATION Spec
CONSTANTS
  None = None
  MaxBatches = 1
  NumItems = 2
  MaxAgents = 1
  MaxRetries = 2
  BatchRequests = {r1}
  BatchOps = {"pause"}
  AgentRequests = {}
  MaxFaults = 0
  MaxRestarts = 0
  r1 = r1
PROPERTIES PauseOutlastsRun
