CONSTANTS
  l1 = l1
  l2 = l2
  l3 = l3
  r1 = r1
  r2 = r2
  c1 = c1
  c2 = c2
  None = None
  Logins <- MCThreeLogins
  Requests <- MCOneRequest
  Codes <- MCCodes
  Accounts <- MCFree
  Max = 2
  DemoMax = 2
  Idle = 2
  DemoIdle = 1
  Lifetime = 2
  MaxTime = 2
  MaxChanges = 1

SPECIFICATION Spec
SYMMETRY Symmetric

INVARIANT WithinLimit
PROPERTY EvictsOnlyForRoom

CHECK_DEADLOCK FALSE
