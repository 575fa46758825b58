CONSTANTS
  N = 4
  MaxWorkers = 3
SPECIFICATION Spec
INVARIANTS EveryTaskAccounted
PROPERTIES SweepEmptiesQueue ImplementsBatch BatchReturns
