\* Refuted: a full sync that succeeds leaves the repository current.
SPECIFICATION Spec
CONSTANTS
  e1 = e1
  e2 = e2
  v1 = v1
  v2 = v2
  Entities = {e1}
  Values = {v1, v2}
  Absent = Absent
  NoFile = NoFile
  Flushers = {f1, Main}
  Main = Main
  MaxEdits = 1
  MaxCommits = 0
  Deletes = FALSE
  Syncs = {"kubernetes"}
  Pulls = FALSE
  NetworkFails = TRUE
  MayStop = FALSE
PROPERTY
  FullSyncPublishes
CHECK_DEADLOCK FALSE
