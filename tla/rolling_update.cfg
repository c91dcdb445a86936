SPECIFICATION FairUpdateSpec
CONSTANTS
  g1 = g1  i1 = i1  i2 = i2  o1 = o1  c1 = c1  s1 = s1
  None = None
  Groups = {g1}
  Identities = {i1}
  Organizations = {o1}
  RowIds = {c1, s1}
  Calls = {c1}
  OrgOf <- MCOrgOf
  CreatorOf <- MCCreatorOf
  Pages <- MCOnePage
  MaxFaults = 0
INVARIANTS OneRemover RemoverIInv
PROPERTIES EventuallyRepaired
CHECK_DEADLOCK FALSE
