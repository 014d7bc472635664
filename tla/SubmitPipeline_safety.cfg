SPECIFICATION Spec
CONSTANTS
  Client = {c1}
  Reader = {r1}
  Consumer = {k1}
  Sweeper = {}
  FlushWorker = {w1}
  Saver = {s1}
  Message = {m1}
  Nobody = Nobody
  Orphan = Orphan
  MaxSaves = 1
  MaxFaults = 1
  MaxCrashes = 0
INVARIANTS TypeOK DoneIsGraded ResultComplete
PROPERTY GradeNeverRegresses
