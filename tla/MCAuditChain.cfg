CONSTANTS
  p1 = p1
  p2 = p2
  submit = submit
  decide = decide
  denied = denied
  unmask = unmask
  Instances <- MCTwo
  Requests <- MCAll
  Transactional <- MCInTx
  Home <- MCSpread
  Writes <- MCWrites
  MaxAttempts = 2
  MaxReplays = 2

SPECIFICATION Spec

INVARIANT ChainVerifies
INVARIANT EvidenceMatchesOutcome
PROPERTY CommitsOnCurrentSnapshot
PROPERTY ImplementsAuditLog
PROPERTY EverySettles

CHECK_DEADLOCK FALSE
