SPECIFICATION FairSpec
CONSTANTS
  q1 = q1
  q2 = q2
  s1 = s1
  s2 = s2
  Question = {q1, q2}
  Section = {s1, s2}
  SectionOf <- MCSectionOf
  Worker = {w1}
  Drainer = {d1}
  Nobody = Nobody
  Orphan = Orphan
  MaxPasses = 2
  MaxSaves = 2
  MaxFaults = 0
  MaxCrashes = 0
  LocksMayExpire = FALSE
INVARIANT BufferedIsTracked
PROPERTIES EventuallyStored DrainEnds
