SPECIFICATION Spec
CONSTANTS
  NoMid = 0
  SessionInitTtl = 1
  TelemetryTtl = 0
  MaxMissingPerNack = 8
  WindowSize = 2
  MaxUp = 3
  MaxDown = 1
  Damage = {"collision", "header"}
  SiChunks = 1
  TcChunks = 2
  SiListenCycles = 2
  NudgeCycles = {2}
  TcMaxCycles = 2
  TcMaxQuietCycles = 2
  Timely = TRUE
  MaxSequence = 2
  MaxSessions = 1
  DetectorInputs = {"frame", "telemetry"}
  Failures = {"log"}
  Mishaps = {}
INVARIANTS
  NothingFinishedIsHeld
PROPERTIES
  ImplementsDelivery
