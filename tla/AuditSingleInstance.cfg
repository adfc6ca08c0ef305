CONSTANTS
  p1 = p1
  p2 = p2
  submit = submit
  decide = decide
  denied = denied
  unmask = unmask
  Instances <- MCOne
  Requests <- MCAll
  Transactional <- MCInTx
  Home <- MCSingle
  Writes <- MCWrites
  MaxAttempts = 2
  MaxReplays = 2

SPECIFICATION Spec

INVARIANT NoRaceOnOneInstance

CHECK_DEADLOCK FALSE
