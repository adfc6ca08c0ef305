CONSTANTS
  t1 = t1
  t2 = t2
  ann = ann
  bob = bob
  q1 = q1
  q2 = q2
  q3 = q3
  q4 = q4
  l1 = l1
  l2 = l2
  it = it
  fin = fin
  i1 = i1
  d1 = d1
  dom = dom
  Nobody = Nobody
  NoDomain = NoDomain
  NoSector = NoSector
  Tenants <- MCTwoTenants
  Users <- MCUsers
  Founders <- MCUsers
  Home <- MCHomeTwo
  Requests <- MCTwoRequests
  Logins <- Empty
  Sectors <- MCSectors
  Domains <- MCDomains
  Items <- Empty
  Datasets <- Empty

SPECIFICATION TenantsSpec

INVARIANT DomainUnique
