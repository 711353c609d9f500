SPECIFICATION Spec
CONSTANTS
  Pages = {p1, p2}
  Sections = {skills, work}
  Skills = {skills}
  Workers = {w1, w2}
  None = None
  VersionRetention = 2
  MaxVersion = 3
  MaxEdits = 1
SYMMETRY Symmetry
CHECK_DEADLOCK FALSE
PROPERTIES
  RestoreIsNotUndone
