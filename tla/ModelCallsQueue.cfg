SPECIFICATION FairSpec
CONSTANTS
  reply = reply  appraisal = appraisal  memory = memory  diary = diary
  Jobs = {reply, appraisal, memory, diary}
  Rank <- PriorityOf
  Cancellable = {diary}
  Capacity = 1
  MaxAttempts = 2
CHECK_DEADLOCK FALSE
PROPERTIES NobodyIsOvertaken EveryCallEnds
