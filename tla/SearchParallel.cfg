CONSTANTS
  Texts = {"q1", "q2"}
  Topic = "topic"
  MaxItems = 4
  MaxWorkers = 2
  Raws <- MCRaws
  EditedTogether = 2
SPECIFICATION EngineSpec
CHECK_DEADLOCK FALSE
INVARIANTS ResultsFit ConfigFits RequestsInRange RetriesBounded
PROPERTY PipelineEnds
