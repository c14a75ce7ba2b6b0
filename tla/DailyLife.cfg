SPECIFICATION DailySpec
CONSTANTS
  narrative = narrative  mood = mood  story = story  valence = valence
  growth_engine = growth_engine  mood_engine = mood_engine  admin = admin
  Domains = {narrative, mood}
  Keys = {story, valence}
  DomainOf <- DomainOfKeys
  Modules = {growth_engine, mood_engine, admin}
  OwnerOf <- OwnersOf
  AdminWriter = admin
  Consolidation = {growth_engine}
  Deep = {narrative}
  Policy <- PolicyOf
  Numbers = {0, 1, 3}
  MaxProposals = 2
  MaxVersion = 3
  MaxHours = 2  MaxActivities = 2  MaxStops = 1  Gain = 2  Recovery = 4
  NapHours = 1  MainHours = 1
  Statement = {"k1", "k2", "k3", "k4"}
  Gap = {"g1", "g2"}
  From <- PublicFrom
  Until <- PublicUntil
  Leaning <- LeaningOf
  PeriodEnd = 2  CoverageWindow = 1  RetryAfter = 2  ExposuresPerBlock = 2
  MaxMoment = 4  MaxSearches = 2  MaxKnowledgeStops = 1
  Adaptation = {"curiosity", "openness"}
  ValueName = {"direction", "benevolence", "security"}
  Trait = {"openness"}
  Leads <- LeadsOf
  Share = 12  ValueStep = 2  ThemeStep = 5  ThemeLimit = 2
  MinPattern = 2  MinEvidence = 1  MinArbitrated = 2  EvidenceBeforeChange = 2
  MaxRead = 2  MaxLifeChanges = 2  MaxRuns = 3  MaxRetold = 3
  Npc = {"n"}
  Valence = {"good"}
  Cooldown = 1  PromoteAt = 2
  DistantAfter = 1  DormantAfter = 2  ReconnectedWithin = 1
  MaxMoments = 2  MaxInteractions = 3  MaxRepeats = 1  MaxSocietyStops = 1
CHECK_DEADLOCK FALSE
INVARIANTS
  StoredWithinBounds
  OneThingAtATime DayIsAccountedFor
  PromotionsAreEarned PromotionSurvivesAStop
  NothingFromTheFuture AnswersAreAccountedFor
PROPERTIES EveryChangeIsArbitrated DeepStateIsGated
