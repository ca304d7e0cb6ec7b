\* Three threads, two backends whose isolates share two addresses.
CONSTANTS
  Threads = {t1, t2, t3}
  Backends = {b1, b2}
  Addresses = {a1, a2}
  Null = Null
SPECIFICATION Spec
SYMMETRY Interchangeable
INVARIANTS
  TypeOK
  ExitDetachesOwn
  CallsEnterRunning
PROPERTIES
  RememberedUntilDetached
\* Every backend is opened once: the threads may run out of them.
CHECK_DEADLOCK FALSE
