CONSTANTS
  k1 = k1
  k2 = k2
  r1 = r1
  r2 = r2
  Keys <- MCKeys
  Scripts <- MCRuns
  MaxRows = 2
  MaxCrashes = 1

SPECIFICATION MigrationSpec

INVARIANT Protected
PROPERTY BackfilledTruthfully
PROPERTY Resumable

CHECK_DEADLOCK FALSE
