SPECIFICATION Spec
CONSTANTS
  None = None
  calc = calc
  chart = chart
  b1 = b1
  b2 = b2
  b3 = b3
  u1 = u1
  u2 = u2
  P1 = P1
  P3 = P3
  ComponentCatalog <- Catalog
  BugsOf <- BugLists
  Users = {u1, u2}
  Priorities = {P1, P3}
  MaxChanges = 3
SYMMETRY Symmetry
INVARIANTS ComponentsWholeOrAbsent ReportsStayTrue HistoryCoversListing
