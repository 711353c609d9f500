SPECIFICATION Spec
CONSTANTS
  Ids = {1, 2}
  Slugs = {s1, s2}
  Blogs = {b1}
  Bodies = {d1, part}
  Complete = {d1}
  FirstDrafts = {d1}
  Dates = {1, 2}
  Limit = 1
  Clients = {c1, c2}
  None = None
  Gone = Gone
  MaxWrites = 2
SYMMETRY Symmetry
CHECK_DEADLOCK FALSE
INVARIANTS
  StampTellsContent
PROPERTIES
  NoLostEdit
  DatedSlugFixed
  PublishedIsDraft
  PagesAreStable
