SPECIFICATION FairSpec
CONSTANTS
  Kinds = {"connection", "subscription"}
  QueueSize = 2
  MaxPublications = 3
  MaxIncoming = 2
INVARIANTS
  NoSilentGap
  CleanEndIsTheApplications
  RenewalGoesOn
PROPERTIES
  EndIsDelivered
CHECK_DEADLOCK FALSE
