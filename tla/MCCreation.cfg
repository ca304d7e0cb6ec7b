SPECIFICATION Spec
CONSTANTS
  Ids = {line}
  Site = site
  Values = {v}
  Coordinates = {c1, c2}
  Sides = {one, two}
  None = None
  Slots = {s1, s2, s3}
  Handles = {h1, h2, h3}
  NoHandle = NoHandle
  Gone = Gone
  MaxAdders = 2
  MaxObjects = 2
  MaxCoordinates = 2
SYMMETRY Symmetric
INVARIANTS TypeOK OneAdderEach
PROPERTIES Implements
