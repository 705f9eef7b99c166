SPECIFICATION FairSpec
CONSTANTS
  e1 = e1
  e2 = e2
  Hook = {1, 2}
  Effect = {e1, e2}
  Resend = {e1}
  Pred <- Chain
  NoEffect = NoEffect
  NoItem = NoItem
  Owner = {p1, p2}
  NoOwner = NoOwner
  LeaseMs = 2
  RetryMs = 1
  ResendMs = 3
  MaxAttempts = 2
  MaxActive = 2
  DeliveryMs = 1
  MaxFaults = 2
  FaultKinds = {"storage", "crash", "stall"}
CONSTRAINT OneTable
INVARIANTS
  TypeOK
  HooksInOrder
  EachClaimRunsOnce
  EffectsInOrder
  SentAtMostOnce
PROPERTIES
  EndIsFinal
  EveryRowEnds
