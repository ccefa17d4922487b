SPECIFICATION FairRepositorySpec
CONSTANTS
  None = None
  MaxRepositories = 1
  MaxBatches = 1
  NumItems = 1
  MaxAgents = 1
  MaxRetries = 2
  BatchRequests = {r1, r2}
  BatchOps = {"pause", "resume", "restart"}
  AgentRequests = {}
  MaxFaults = 1
  MaxRestarts = 1
  r1 = r1
  r2 = r2
CHECK_DEADLOCK FALSE
INVARIANTS RepositoryTypeOK SealedIsQuiet
PROPERTIES DeletedForGood OrphansSettle
