SPECIFICATION Spec
CONSTANTS
  NoMid = 0
  SessionInitTtl = 1
  TelemetryTtl = 0
  MaxMissingPerNack = 8
  WindowSize = 2
  MaxUp = 3
  MaxDown = 1
  Damage = {}
  SiChunks = 2
  TcChunks = 2
  SiListenCycles = 2
  NudgeCycles = {2}
  TcMaxCycles = 2
  TcMaxQuietCycles = 1
  Timely = FALSE
  MaxSequence = 1
  MaxSessions = 2
  DetectorInputs = {"frame", "telemetry"}
  Failures = {}
  Mishaps = {"satellite restart", "ground restart", "session expiry"}
INVARIANTS
  WindowFollowsLog
PROPERTIES
  ImplementsDelivery
  LostSessionsStayLost
