CONSTANTS
  DesireTypes = {"curiosity", "reflect"}
  Announcers = {w}
  Topics <- SpelledTopics
  SqlLower <- SpelledLower
  CaseFold <- SpelledLower
  MaxSeeds = 2
  SeedPriorities = {1}
  MaxPending = 1
  MaxNoise = 2
  MaxRows = 3
  MaxFaults = 1
SPECIFICATION FairSpec
INVARIANTS OneSearching SearchingIsOwned NoDuplicateTopic
PROPERTIES AddedWithinCap TerminalIsFinal SearchEnds
