\* One session, closed while a last wrapper is destroyed on another thread.
CONSTANTS
  Threads = {t1, t2}
  Backends = {b1}
  Addresses = {a1}
  Null = Null
SPECIFICATION Spec
INVARIANTS
  ReleasesEnterRunning
\* Every backend is opened once: the threads may run out of them.
CHECK_DEADLOCK FALSE
