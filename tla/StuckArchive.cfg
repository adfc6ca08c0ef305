CONSTANTS
  a1 = a1
  a2 = a2
  timer = timer
  cron = cron
  Records <- MCRecords
  HalfEnforced <- MCHalfEnforced
  Leftovers <- MCLeftovers
  Runs <- MCRuns
  Timer = timer
  Window = 1
  Grace = 1
  MaxLag = 1
  MaxFaults = 1

SPECIFICATION Spec

PROPERTY EveryClosedIsEnforced
