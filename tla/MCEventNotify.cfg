CONSTANTS
  s1 = s1
  s2 = s2
  s3 = s3
  NoSession = NoSession
  Sessions <- ThreeSessions
  Stalled <- OneStalled
  MaxVersion = 3
SPECIFICATION FairSpec
INVARIANTS
  TypeOK
  NobodyIsSkipped
PROPERTY StallDoesNotStarve
CHECK_DEADLOCK FALSE
