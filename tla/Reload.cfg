SPECIFICATION FairSpec
CONSTANTS
  s1 = s1
  s2 = s2
  Session <- TwoSessions
  Daemon = daemon
  MaxEdits = 2
INVARIANTS DaemonHasReadIt RunsItsConfiguration DaemonConfigurationIsGood
PROPERTY AcknowledgedReachesDaemon
CHECK_DEADLOCK FALSE
