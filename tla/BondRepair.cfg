SPECIFICATION BondSpec
CONSTANTS
  Silences = {0}
  MaxSilence = 5
  MaxBondEvents = 6
  RequiredEvents = 5
  TraitEvidence = 3
  RelationshipLimit = 5
  AttachmentLimit = 15
CHECK_DEADLOCK FALSE
INVARIANT TrustComesBack
