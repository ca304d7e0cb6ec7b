\* Two threads; three handles, of which one is the network's, and calls that
\* return up to two objects; a failure of each kind that calls meet.
CONSTANTS
  Threads = {t1, t2}
  Failures = {"PowsyblException", "ClassCastException", "InvalidHandleException"}
  MaxHandles = 3
  MaxObjects = 2
  None = None
SPECIFICATION Spec
SYMMETRY Interchangeable
INVARIANTS
  TypeOK
  RegistryAccounted
  BuffersAccounted
  LastErrorIsMine
PROPERTIES
  Implements
