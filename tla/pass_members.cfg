SPECIFICATION PassSpec
CONSTANTS
  g1 = g1  g2 = g2  i1 = i1  i2 = i2  o1 = o1  c1 = c1  c2 = c2  s1 = s1  s2 = s2
  None = None
  Groups = {g1}
  Identities = {i1, i2}
  Organizations = {o1}
  RowIds = {c1, s1, s2}
  Calls = {c1}
  OrgOf <- MCOrgOf
  CreatorOf <- MCCreatorOf
  Pages <- MCTwoPages
  MaxFaults = 0
INVARIANTS PassRepairsUntouched SettledTuplesSurvive
CHECK_DEADLOCK FALSE
