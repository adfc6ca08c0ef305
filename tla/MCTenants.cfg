CONSTANTS
  t1 = t1
  t2 = t2
  ann = ann
  bob = bob
  q1 = q1
  q2 = q2
  q3 = q3
  q4 = q4
  l1 = l1
  l2 = l2
  it = it
  fin = fin
  i1 = i1
  d1 = d1
  dom = dom
  Nobody = Nobody
  NoDomain = NoDomain
  NoSector = NoSector
  Tenants <- MCOneTenant
  Users <- MCUsers
  Founders <- MCFounder
  Home <- MCHomeOne
  Requests <- MCRequests
  Logins <- MCLogins
  Sectors <- MCSectors
  Domains <- Empty
  Items <- MCItems
  Datasets <- MCDatasets

SPECIFICATION TenantsSpec
SYMMETRY Symmetric

INVARIANT RolesFitPlan
INVARIANT NoStrandedSector
PROPERTY BoundOnce
