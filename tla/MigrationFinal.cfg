CONSTANTS
  k1 = k1
  k2 = k2
  r1 = r1
  r2 = r2
  Keys <- MCKeys
  Scripts <- MCRuns
  MaxRows = 3
  MaxCrashes = 1

SPECIFICATION MigrationSpec

PROPERTY MigratedForGood

CHECK_DEADLOCK FALSE
