SPECIFICATION FairSpec
CONSTANTS
  Job = {j1}
  Owner = {o1, o2}
  NoOwner = NoOwner
  NoJob = NoJob
  LeaseMs = 2
  RetryDelay = 1
  MaxLag = 1
  Isolated = {}
  MaxAttempts = 2
  MaxFaults = 1
  FaultKinds = {"crash", "stop", "renew", "write", "delivery", "stall"}
  ExecErrors = {"store", "network", "fatal"}
PROPERTIES
  EventuallyFinished
  ImplementsQueue
