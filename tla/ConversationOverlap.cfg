SPECIFICATION FairSpec
CONSTANTS
  m1 = m1  m2 = m2  m3 = m3
  Turns = {m1, m2}
  MaxFaults = 1
  MaxCrashes = 1
CHECK_DEADLOCK FALSE
INVARIANTS OnlyTheSaidIsRecorded OneEndPerTurn
PROPERTIES SaidBeforeItIsDigested TurnsEnd
