SPECIFICATION CatalogSpec
CONSTANTS
  o1 = o1  o2 = o2  g0 = g0
  Calls = {c1, c2, c3}
  Stored <- MCStored
  Requests <- MCRequests
  ValidNames = {"dev", "ops", "web"}
  Absent = Absent
  Blank = Blank
  MaxFaults = 1
INVARIANTS PlatformGroupsClashByName
SYMMETRY MCSymmetry
CHECK_DEADLOCK FALSE
