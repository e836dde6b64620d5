SPECIFICATION Spec
CONSTANTS
  NoMid = 0
  SessionInitTtl = 1
  TelemetryTtl = 0
  MaxMissingPerNack = 8
  WindowSize = 2
  MaxUp = 4
  MaxDown = 2
  Damage = {"lost"}
  SiChunks = 2
  TcChunks = 2
  SiListenCycles = 2
  NudgeCycles = {1}
  TcMaxCycles = 3
  TcMaxQuietCycles = 2
  Timely = FALSE
  MaxSequence = 2
  MaxSessions = 1
  DetectorInputs = {"frame", "telemetry"}
  Failures = {"port"}
  Mishaps = {}
INVARIANTS
  TypeOK
  AcksAreEarned
PROPERTIES
  ImplementsDelivery
