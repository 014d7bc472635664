SPECIFICATION Spec
CONSTANTS
  Question = {q1, q2}
  Text = {x, y, Blank}
  Blank = Blank
  Autosave = {a1}
  Flow = {s1}
  ChunkSize = 1
  MaxEdits = 2
  MaxFaults = 1
SYMMETRY Symmetry
INVARIANTS TypeOK SavedIsStored SubmitCarriesAnswers NoSilentLoss BadgeHonest
CHECK_DEADLOCK FALSE
