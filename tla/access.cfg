SPECIFICATION AccessSpec
CONSTANTS
  i1 = i1  i2 = i2  o1 = o1  o2 = o2  g1 = g1
  Absent = Absent
  Blank = Blank
  Cluster = Cluster
  People = {i1, i2}
  Organizations = {o1, o2}
  Groups = {g1}
  OrgOf <- MCOrgOf
  MaxEntries = 2
  MaxChanges = 2
SYMMETRY Symmetry
INVARIANTS ServedWasPermitted DenialsAreJustified BatchIsWhole
CHECK_DEADLOCK FALSE
