SPECIFICATION Spec
CONSTANTS
  WindowSize = 3
  MaxInput = 8
  Inputs <- MCInputs
INVARIANTS
  TypeOK
  WindowMatchesHistory
  NoReplay
  OnlyReplaysRefused
  RecordAgreesWithCheck
  ArithmeticIsBits
PROPERTY
  ImplementsReplaySpec
