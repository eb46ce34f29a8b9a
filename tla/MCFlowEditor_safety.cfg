SPECIFICATION Spec
CONSTANTS
  n1 = n1
  n2 = n2
  n3 = n3
  f1 = f1
  f2 = f2
  Nodes = {n1, n2, n3}
  NoNode = NoNode
  Flows = {f1, f2}
  Absent = Absent
  NoFlow = NoFlow
  Saved <- MCSaved
  Sanitized <- MCSanitized
  MaxInputs = 4
  MaxVisits = 2
INVARIANTS
  TypeOK
  DiagramsAreWellFormed
  SelectionIsDrawn
  UnmarkedIsSaved
PROPERTIES
  OnlyTheLastVisitShows
CHECK_DEADLOCK FALSE
