SPECIFICATION Spec
CONSTANTS
  Client = {c1}
  Reader = {r1}
  Consumer = {}
  Sweeper = {x1}
  FlushWorker = {w1}
  Saver = {s1}
  Message = {m1}
  Nobody = Nobody
  Orphan = Orphan
  MaxSaves = 1
  MaxFaults = 0
  MaxCrashes = 1
INVARIANTS DoneIsGraded ResultComplete
