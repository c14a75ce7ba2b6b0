SPECIFICATION Spec
CONSTANTS
  MinHours = 1
  Multiplier = 2
  MaxUnanswered = 2
  Horizon = 6
  MaxDeliberations = 3
  MaxFaults = 1
  MaxCrashes = 1
CHECK_DEADLOCK FALSE
INVARIANT ReplyClearsTheBacklog
