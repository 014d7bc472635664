SPECIFICATION FairSpec
CONSTANTS
  Client = {}
  Reader = {}
  Consumer = {}
  Sweeper = {x1}
  FlushWorker = {w1}
  Saver = {s1}
  Message = {m1}
  Nobody = Nobody
  Orphan = Orphan
  MaxSaves = 2
  MaxFaults = 0
  MaxCrashes = 0
PROPERTY SubmittedIsGraded
CHECK_DEADLOCK FALSE
