SPECIFICATION MemorySpec
CONSTANTS
  Event = {e1, e2}
  Maintainer = {t1, t2}
  MaxEpisodes = 2
  MaxMemories = 3
  MaxEvents = 2
  MinEvents = 1
  PendingLimit = 2
  MaxOperations = 1
  MaxRestarts = 1
CHECK_DEADLOCK FALSE
INVARIANT DeletedStaysDeleted
