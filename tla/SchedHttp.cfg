SPECIFICATION Spec
CONSTANTS
  None = None
  MaxBatches = 1
  NumItems = 2
  MaxAgents = 1
  MaxRetries = 2
  BatchRequests = {r1, r2}
  BatchOps = {"pause", "resume", "restart"}
  AgentRequests = {}
  MaxFaults = 1
  MaxRestarts = 1
  r1 = r1
  r2 = r2
SYMMETRY RequestSymmetry
INVARIANTS TypeOK ItemsInOrder StatusMatchesItems DoneMeansSucceeded
