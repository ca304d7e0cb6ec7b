\* Two threads and two backends, the default id and another one, three
\* networks: the Java program uses the default id.
CONSTANTS
  Threads = {t1, t2}
  Backends = {b1, b2}
  Ids = {default, case1}
  DefaultId = default
  JavaIds = {default}
  Networks = {n1, n2, n3}
  None = None
SPECIFICATION Spec
SYMMETRY Interchangeable
INVARIANTS
  TypeOK
  OneReferenceEach
  OwnIdOwnNetwork
PROPERTIES
  HostThreadsStay
  EndedThreadsDetached
\* Every backend is opened once, and the JVM may be destroyed.
CHECK_DEADLOCK FALSE
