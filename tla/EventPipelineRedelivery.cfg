SPECIFICATION FairSpec
CONSTANTS
  e1 = e1  e2 = e2  e3 = e3
  npc = npc  world = world
  closeness = closeness  pressure = pressure
  c1 = c1  c2 = c2  c3 = c3
  Events = {e1, e2}
  Subscribers = {world}
  Keys = {pressure}
  Calls = {c1, c2, c3}
  SubscriptionsFor <- OneEngine
  Writes <- OneWrites
  EventOf <- Redelivery
  DirectWriters = {}
  MaxCommitAttempts = 2
  MaxAttempts = 2
  MaxCrashes = 1
CHECK_DEADLOCK FALSE
INVARIANTS EffectOnce RecordsAgree OnlyCommittedRunsChangeState
PROPERTIES CallsEnd
