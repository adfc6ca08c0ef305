CONSTANTS
  g1 = g1
  ann = ann
  bob = bob
  cid = cid
  Nobody = Nobody
  Groups <- MCGroups
  Keys <- MCKeys
  Factors <- MCFactors
  Classes <- MCClasses
  Top = 10
  Rules <- MCRules
  FactKeys <- MCFactKeys
  FactSets <- MCFactSets
  Numeral <- MCNumeral
  FactorTables <- MCFactorTables
  RangeTables <- MCRangeTables
  Admins <- MCAdmins
  MaxVersions = 2

SPECIFICATION Spec
SYMMETRY Symmetric

INVARIANT MatrixFourEyes
INVARIANT RefinedIsExact
INVARIANT ResultIsDetermined

CHECK_DEADLOCK FALSE
