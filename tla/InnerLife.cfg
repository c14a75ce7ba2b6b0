SPECIFICATION InnerSpec
CONSTANTS
  \* ProactiveContact
  MinHours = 1
  Multiplier = 2
  MaxUnanswered = 2
  Horizon = 6
  MaxDeliberations = 3
  MaxFaults = 1
  MaxCrashes = 1
  \* Memory
  Event = {e1, e2}
  Maintainer = {t1, t2}
  MaxEpisodes = 2
  MaxMemories = 3
  MaxEvents = 2
  MinEvents = 1
  PendingLimit = 2
  MaxOperations = 1
  MaxRestarts = 1
  \* Recall
  Recollection = {m1}
  Call = {c1, c2}
  Salience <- SalienceOf
  MaxForgettings = 1
  \* Bond
  Silences = {0, 4}
  MaxSilence = 5
  MaxBondEvents = 5
  RequiredEvents = 4
  TraitEvidence = 3
  RelationshipLimit = 5
  AttachmentLimit = 15
  \* Feelings
  Gaps = {0, 1, 48}
  MaxFelt = 3
  EmotionLimit = 60
  MoodLimit = 20
  NeedsLimit = 250
  \* Reply
  Topic = {reading}
  Question = {what}
  Window = 2
  MaxTurns = 3
CHECK_DEADLOCK FALSE
INVARIANTS
  SilenceIsBounded SilenceWidens
  RememberedOnce DestroyedIsInASnapshot PractisedOncePerUse
  TrustIsOnlyEarned NeedsAreNeverRefused
  SaidWasKnown RetractionEndsOnNoQuestion
