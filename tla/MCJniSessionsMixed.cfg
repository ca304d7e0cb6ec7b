\* Two loads under the default id, on two threads; the Java program is idle.
CONSTANTS
  Threads = {t1, t2}
  Backends = {b1, b2}
  Ids = {default}
  DefaultId = default
  JavaIds = {}
  Networks = {n1, n2}
  None = None
SPECIFICATION Spec
INVARIANTS
  LoadedNetworkBound
CHECK_DEADLOCK FALSE
