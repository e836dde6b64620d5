SPECIFICATION FairSpec
CONSTANTS
  NoMid = 0
  SessionInitTtl = 2
  TelemetryTtl = 1
  MaxMissingPerNack = 2
  Keys <- MCKeys
  Chunks <- MCChunks
INVARIANTS
  TypeOK
  CompleteMeansNoGap
  BufferIsItsHistory
PROPERTIES
  HandedOverWasHeard
  DroppedForAReason
  AbandonedBuffersGo
