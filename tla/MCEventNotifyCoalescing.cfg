CONSTANTS
  s1 = s1
  s2 = s2
  s3 = s3
  NoSession = NoSession
  Sessions <- ThreeSessions
  Stalled <- OneStalled
  MaxVersion = 2
SPECIFICATION Spec
INVARIANT SubscribersAreCurrent
CHECK_DEADLOCK FALSE
