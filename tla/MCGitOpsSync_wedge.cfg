\* Refuted: a change made in Git is pulled back.
SPECIFICATION FairSpec
CONSTANTS
  e1 = e1
  e2 = e2
  v1 = v1
  v2 = v2
  Entities = {e1}
  Values = {v1, v2}
  Absent = Absent
  NoFile = NoFile
  Flushers = {f1, Main}
  Main = Main
  MaxEdits = 1
  MaxCommits = 1
  Deletes = FALSE
  Syncs = {"kubernetes"}
  Pulls = TRUE
  NetworkFails = FALSE
  MayStop = FALSE
PROPERTY
  ExternalChangesArePulled
CHECK_DEADLOCK FALSE
