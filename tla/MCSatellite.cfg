SPECIFICATION FairSpec
CONSTANTS
  NoMid = 0
  SessionInitTtl = 1
  TelemetryTtl = 0
  MaxMissingPerNack = 8
  MaxUp = 2
  MaxDown = 1
  Damage = {}
  SiChunks = 2
  TcChunks = 2
  SiListenCycles = 32
  NudgeCycles = {6, 10}
  TcMaxCycles = 14
  TcMaxQuietCycles = 3
  Timely = FALSE
  MaxSequence = 2
  MaxSessions = 1
  NackLists <- MCNackLists
INVARIANTS
  TypeOK
  SilenceIsBroken
  OneSendingPerRead
  EachConcludedOnce
PROPERTIES
  WaitingEnds
CHECK_DEADLOCK FALSE
