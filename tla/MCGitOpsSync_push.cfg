\* Changes and syncs without pulls or failures; two flushes at a time.
SPECIFICATION FairSpec
CONSTANTS
  e1 = e1
  e2 = e2
  v1 = v1
  v2 = v2
  Entities = {e1}
  Values = {v1, v2}
  Absent = Absent
  NoFile = NoFile
  Flushers = {f1, f2, Main}
  Main = Main
  MaxEdits = 4
  MaxCommits = 0
  Deletes = TRUE
  Syncs = {"kubernetes", "source"}
  Pulls = FALSE
  NetworkFails = FALSE
  MayStop = FALSE
INVARIANT
  OutOfStepMeansPending
PROPERTY
  EditsReachGit
CHECK_DEADLOCK FALSE
