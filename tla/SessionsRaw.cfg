SPECIFICATION FairSpec
CONSTANTS
  s1 = s1
  s2 = s2
  Session <- TwoSessions
  SEMVMX = 2
PROPERTY RawTerminates
