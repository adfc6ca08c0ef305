CONSTANTS
  r1 = r1
  r2 = r2
  alice = alice
  bob = bob
  s1 = s1
  s2 = s2
  q1 = q1
  q2 = q2
  q3 = q3
  f1 = f1
  f2 = f2
  f3 = f3
  yes = yes
  no = no
  blank = blank
  nothing = nothing
  Requests <- MCRequests
  Personas <- MCPersonas
  Scenarios <- MCScenarios
  Questions <- MCQuestions
  FactKeys <- MCFacts
  Values <- MCValues
  Blank = blank
  Nothing = nothing
  Contents <- MCContents

SYMMETRY MCSymmetry
SPECIFICATION Spec

INVARIANT ReconstructedStatusAgrees
INVARIANT CompleteCanBeSubmitted
PROPERTY PersonaFixedOnceAsked

CHECK_DEADLOCK FALSE
