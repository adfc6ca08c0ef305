CONSTANTS
  a1 = a1
  fin = fin
  ann = ann
  bob = bob
  guest = guest
  inspector = inspector
  v1 = v1
  v2 = v2
  r1 = r1
  Nobody = Nobody
  Assessments <- MCAssessments
  Departments <- MCDepartments
  Members <- MCMembers
  Guests <- MCGuests
  Visitors <- MCVisitors
  Accounts <- MCAccounts
  GuestRole <- MCGuestRole
  FeatureSets <- MCFeatureSets
  Requests <- MCRequests
  MaxCached = 1

SPECIFICATION Spec

INVARIANT ListShowsWhatOpens
INVARIANT ReportsStayInScope
PROPERTY RoutedWithinReach
