SPECIFICATION Spec
CONSTANTS
  NoMid = 0
  SessionInitTtl = 1
  TelemetryTtl = 0
  MaxMissingPerNack = 8
  WindowSize = 2
  MaxUp = 4
  MaxDown = 2
  Damage = {"lost"}
  SiChunks = 2
  TcChunks = 2
  SiListenCycles = 3
  NudgeCycles = {2}
  TcMaxCycles = 3
  TcMaxQuietCycles = 2
  Timely = TRUE
  MaxSequence = 2
  MaxSessions = 1
  DetectorInputs = {"telemetry"}
  Failures = {}
  Mishaps = {}
PROPERTY
  NackListSuffices
