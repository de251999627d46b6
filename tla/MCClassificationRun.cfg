SPECIFICATION Spec
CONSTANTS
  Runs = {k1}
  Docs = {d1, d2}
  Workers = {w1, w2}
  NoWorker = NoWorker
  NoRun = NoRun
  MaxAttempts = 2
  MaxLost = 2
INVARIANTS
  IInv
  OutputFits
PROPERTIES
  LateAnswersAreDropped
  EveryClassificationEnds
CHECK_DEADLOCK FALSE
