\* Everything that can go wrong, in any order.
SPECIFICATION Spec
CONSTANTS
  e1 = e1
  e2 = e2
  v1 = v1
  v2 = v2
  Entities = {e1, e2}
  Values = {v1}
  Absent = Absent
  NoFile = NoFile
  Flushers = {f1, Main}
  Main = Main
  MaxEdits = 2
  MaxCommits = 3
  Deletes = TRUE
  Syncs = {"kubernetes", "source"}
  Pulls = TRUE
  NetworkFails = TRUE
  MayStop = TRUE
SYMMETRY Interchangeable
INVARIANTS
  TypeOK
  DisconnectedIsShown
PROPERTIES
  WalkIsStable
  HistoriesGrow
  DivergedForGood
CHECK_DEADLOCK FALSE
