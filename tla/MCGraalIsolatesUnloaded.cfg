\* One session, opened on a thread and closed on another one.
CONSTANTS
  Threads = {t1, t2}
  Backends = {b1}
  Addresses = {a1}
  Null = Null
SPECIFICATION Spec
INVARIANTS
  ExitCallsLoadedLibrary
\* Every backend is opened once: the threads may run out of them.
CHECK_DEADLOCK FALSE
