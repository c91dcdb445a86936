SPECIFICATION AckSpec
CONSTANTS
  g1 = g1  i1 = i1  o1 = o1  c1 = c1  c2 = c2  c3 = c3  s1 = s1
  Groups = {g1}
  Identities = {i1}
  Organizations = {o1}
  RowIds = {c1, c2, c3, s1}
  Calls = {c1, c2, c3}
  OrgOf <- MCOrgOf
  CreatorOf <- MCCreatorOf
  MaxFaults = 2
SYMMETRY Symmetry
INVARIANTS ServiceTypeOK EventsAreTrue GrantsWereValidated IInv DriftHasACause AcknowledgedMembersStay AcknowledgedRemovalsHold DriftIInv RemovalIInv AdditionIInv
CHECK_DEADLOCK FALSE
