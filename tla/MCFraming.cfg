SPECIFICATION Spec
CONSTANTS
  ByteSize = 8
  FRAME_START = 6
  FRAME_END = 7
  FRAME_ESC = 5
  FRAME_ESC_XOR = 4
  LenBytes = 2
  MaxLength = 7
  Payloads <- MCPayloads
  MaxFrames = 4
INVARIANTS
  TypeOK
  ReadsDoNotMatter
  UndamagedArrives
  BeyondReachArrives
  HoldsPartOfOneFrame
CHECK_DEADLOCK FALSE
