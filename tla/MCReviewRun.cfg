SPECIFICATION Spec
CONSTANTS
  w1 = w1
  w2 = w2
  Workers = {w1, w2}
  NoWorker = NoWorker
  MaxRuns = 2
  MaxRounds = 2
  MaxTurn = 1
  MaxAttempts = 2
INVARIANTS
  IInv
  OneLiveRunPerRound
PROPERTIES
  AnswersFitTheTurn
  TaskSpec
  EveryRunEnds
CHECK_DEADLOCK FALSE
