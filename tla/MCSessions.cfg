CONSTANTS
  l1 = l1
  l2 = l2
  l3 = l3
  r1 = r1
  r2 = r2
  c1 = c1
  c2 = c2
  None = None
  Logins <- MCTwoLogins
  Requests <- MCOneRequest
  Codes <- MCCodes
  Accounts <- MCAccounts
  Max = 1
  DemoMax = 2
  Idle = 2
  DemoIdle = 2
  Lifetime = 3
  MaxTime = 3
  MaxChanges = 1

SPECIFICATION Spec
SYMMETRY Symmetric

INVARIANT WithinLimit
INVARIANT CodeOpensOneSession
INVARIANT AcceptedWithOwnFactor
PROPERTY BlockedLoginSparesLive
PROPERTY EndedOnce

CHECK_DEADLOCK FALSE
