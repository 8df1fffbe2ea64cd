SPECIFICATION Spec
CONSTANTS
  w1 = w1
  w2 = w2
  e1 = e1
  e2 = e2
  a1 = a1
  m1 = m1
  Writes = {w1, w2}
  Edits = {e1, e2}
  Expecting = {e1}
  Appends = {a1}
  Moves = {m1}
  MaxTime = 1
  Base = Base
  None = None
  Rest = Rest
PROPERTIES
  EditsWhatItExpected
CHECK_DEADLOCK FALSE
