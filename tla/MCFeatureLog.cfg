SPECIFICATION Spec
CONSTANTS
  Starts <- MCStarts
  MaxSteps = 2
  GeneratedRows = 2
  Window = 2
INVARIANTS
  TypeOK
  FileIsItsHistory
  WindowsCoverAllButLast
  RowsNameFields
  SamplesAreNominal
  EnvelopeIsFlagged
