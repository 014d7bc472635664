SPECIFICATION FairSpec
CONSTANTS
  Client = {c1}
  Reader = {}
  Consumer = {k1}
  Sweeper = {}
  FlushWorker = {w1}
  Saver = {s1}
  Message = {m1, m2}
  Nobody = Nobody
  Orphan = Orphan
  MaxSaves = 1
  MaxFaults = 0
  MaxCrashes = 1
PROPERTY StreamedIsGraded
CHECK_DEADLOCK FALSE
