SPECIFICATION StorageSpec
CONSTANTS
  Call = {c1, c2}
  Transactional = {c1}
  NoCall = NoCall
  Conn = {k1, k2}
  PoolLimit = 1
  Write = {r1, r2, r3, b1, b2, b3, b4}
  BestEffort = {b1, b2, b3, b4}
  Concurrency = 2
  Limit = 2
INVARIANTS
  TypeOK
  DefiniteErrorAppliedNothing
  PooledIsClean
  LentToOneLiveCall
  NoSlotIdleOrLeaked
  ReceiptsNeverDropped
PROPERTIES
  StartsInOrder
  EverythingEnds
CHECK_DEADLOCK FALSE
