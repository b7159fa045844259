CONSTANTS
  MaxDay = 2
  MaxTurns = 2
  MaxFaults = 0
SPECIFICATION Spec
INVARIANT EveryObservationSummarised
