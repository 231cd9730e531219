SPECIFICATION FairSpec
CONSTANTS
  Jobs = {j1, j2, j3}
  NoJob = NoJob
  Threads = {d1, d2}
PROPERTY ImplementsQueue
PROPERTY ServedOrStuck
CHECK_DEADLOCK FALSE
