\* Two sessions, three Networks or views, two wrappers.
CONSTANTS
  Nets = {n1, n2, n3}
  Wrappers = {w1, w2}
  Backends = {b1, b2}
  NullBackend = NullBackend
  NoBackend = NoBackend
SPECIFICATION Spec
SYMMETRY Interchangeable
INVARIANTS
  TypeOK
  NoDanglingWrapper
  OneOwner
  NothingKeptForNobody
PROPERTIES
  MovingKeepsObjects
