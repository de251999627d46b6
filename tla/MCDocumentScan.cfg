SPECIFICATION Spec
CONSTANTS
  Docs = {d1, d2}
  NoDoc = NoDoc
  Infected = {d2}
  MaxAttempts = 3
  MaxCrashes = 2
INVARIANTS IInv KeptUntilStored StoredWhole InfectedStaysOut
PROPERTY EveryDocumentEnds
CHECK_DEADLOCK FALSE
