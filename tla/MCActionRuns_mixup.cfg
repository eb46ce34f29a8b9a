\* Refuted: two runs on one branch may follow one workflow run.
SPECIFICATION Spec
CONSTANTS
  r1 = r1
  r2 = r2
  r3 = r3
  w1 = w1
  w2 = w2
  Runs = {r1, r2}
  TypeOf <- TwoGitHub
  RefOf <- SameBranch
  Workflows = {w1, w2}
  Refs = {"main"}
  NoWorkflow = NoWorkflow
  Lookback = 0
  MaxClock = 1
  Notify = {}
  DbMayFail = FALSE
  MayCrash = FALSE
INVARIANT
  WaitsForItsOwnWorkflow
CHECK_DEADLOCK FALSE
