SPECIFICATION Spec
CONSTANTS
  e1 = e1  e2 = e2  e3 = e3
  npc = npc  world = world
  closeness = closeness  pressure = pressure
  c1 = c1  c2 = c2  c3 = c3
  Events = {e1, e2, e3}
  Subscribers = {npc, world}
  Keys = {closeness, pressure}
  Calls = {c1, c2, c3}
  SubscriptionsFor <- TwoEngines
  Writes <- TwoWrites
  EventOf <- ThreeEvents
  DirectWriters = {npc}
  MaxCommitAttempts = 2
  MaxAttempts = 3
  MaxCrashes = 1
CHECK_DEADLOCK FALSE
INVARIANTS NoLostUpdate
PROPERTIES ImplementsLedger
