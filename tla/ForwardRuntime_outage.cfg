SPECIFICATION Spec
CONSTANTS
  Job = {j1}
  Owner = {o1, o2}
  NoOwner = NoOwner
  NoJob = NoJob
  LeaseMs = 2
  RetryDelay = 1
  MaxLag = 1
  Isolated = {}
  MaxAttempts = 2
  MaxFaults = 2
  FaultKinds = {"write"}
  ExecErrors = {}
INVARIANTS
  TurnNeverRunsTwice
