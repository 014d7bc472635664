SPECIFICATION AttentiveSpec
CONSTANTS
  Question = {q1}
  Text = {x, Blank}
  Blank = Blank
  Autosave = {a1}
  Flow = {s1}
  ChunkSize = 1
  MaxEdits = 2
  MaxFaults = 1
PROPERTIES DirtySettles TimeUpLeaves SubmitEnds
CHECK_DEADLOCK FALSE
