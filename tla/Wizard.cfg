CONSTANTS
  Answers <- MCAnswers
  MaxPersonas = 2
  MaxQuestions = 2
  MaxFaults = 2
SPECIFICATION FairSpec
INVARIANTS GenerationIsAwaited AnswerFollowsQuestion RanPersonaSurvives SessionIsAsFrozen
PROPERTY GeneratingEnds
