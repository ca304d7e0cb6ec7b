\* One session is enough: its wrapper is moved, both Network and target go.
CONSTANTS
  Nets = {n1}
  Wrappers = {w1, w2}
  Backends = {b1}
  NullBackend = NullBackend
  NoBackend = NoBackend
SPECIFICATION Spec
INVARIANTS
  DestroyedObjectsThrow
