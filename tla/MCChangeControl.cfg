CONSTANTS
  k1 = k1
  d1 = d1
  r1 = r1
  r2 = r2
  ann = ann
  bob = bob
  cid = cid
  Nobody = Nobody
  NoExtra = "none"
  Keys <- MCKeys
  Sheets <- MCSheets
  Extras <- MCExtras
  Datasets <- MCDatasets
  Files <- MCFiles
  Admins <- MCAdmins
  Runs <- MCRuns
  MaxVersions = 2

SPECIFICATION Spec
SYMMETRY Symmetric

PROPERTY ImplementsFourEyes
INVARIANT AppliedIffActive

CHECK_DEADLOCK FALSE
