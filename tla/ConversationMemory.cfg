CONSTANTS
  MaxDay = 3
  MaxTurns = 3
  MaxFaults = 2
SPECIFICATION Spec
INVARIANTS NoObservationTwice NoOrphanAnswer NoGapAfterStartup FilledIsComplete
PROPERTY RecordedStays
