\* One run of each kind of action, notified in Teams; saves succeed and the
\* process stays up.
SPECIFICATION FairSpec
CONSTANTS
  r1 = r1
  r2 = r2
  r3 = r3
  w1 = w1
  w2 = w2
  Runs = {r1, r2, r3}
  TypeOf <- OneOfEach
  RefOf <- SameBranch
  Workflows = {w1}
  Refs = {"main"}
  NoWorkflow = NoWorkflow
  Lookback = 0
  MaxClock = 0
  Notify <- Outcomes
  DbMayFail = FALSE
  MayCrash = FALSE
INVARIANT
  AnnouncedIsStored
PROPERTIES
  EveryRunEnds
  EveryEndIsAnnounced
CHECK_DEADLOCK FALSE
