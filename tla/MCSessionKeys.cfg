SPECIFICATION Spec
CONSTANTS
  MaxPairs = 2
  MaxSessions = 2
  MaxMessages = 2
INVARIANTS
  TypeOK
  ReadIsWhatWasSent
  KeysAgree
