CONSTANTS
  pg1 = pg1
  pg2 = pg2
  sg1 = sg1
  q1 = q1
  q2 = q2
  q3 = q3
  f1 = f1
  f2 = f2
  Default = Default
  Answer = Answer
  Nothing = Nothing
  PersonaGroups <- MCPersonaGroups
  ScenarioGroups <- MCScenarioGroups
  PersonaBodies <- MCPersonaBodies
  ScenarioBodies <- MCScenarioBodies
  Files <- MCFiles
  QuestionBodies <- MCQuestionBodies
  Questions <- MCQuestions
  FactKeys <- MCFactKeys
  Sectors <- MCSectors
  MinScenarios = 1
  MaxScenarios = 2
  MaxVersions <- MCVersions

SPECIFICATION Spec

INVARIANT ActivatesWithoutSurprise
