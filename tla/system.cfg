SPECIFICATION FairStreamSpec
CONSTANTS
  g1 = g1  i1 = i1  o1 = o1  c1 = c1  c2 = c2  s1 = s1
  None = None
  Groups = {g1}
  Identities = {i1}
  Organizations = {o1}
  RowIds = {c1, c2, s1}
  Calls = {c1, c2}
  OrgOf <- MCOrgOf
  CreatorOf <- MCCreatorOf
  Pages <- MCOnePage
  MaxFaults = 1
INVARIANTS GrantsWereValidated EventsAreTrue SystemIInv AnnouncedOnce ConsumersAreRight ConsumersFit
PROPERTIES KeepsLedger EventuallyRepaired
CONSTRAINT RequestsInOrder
CHECK_DEADLOCK FALSE
