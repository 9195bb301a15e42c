SPECIFICATION Spec
CONSTANTS
  Profiles = {p1, p2}
  MaxEdits = 2
  MaxNotes = 1
INVARIANT
  RestartServes
