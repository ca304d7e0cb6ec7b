\* Two threads, the network's HandleRef and two others, the network's handle
\* and two others.  No symmetry: a liveness property is checked.
CONSTANTS
  Threads = {t1, t2}
  Refs = {rn, r1, r2}
  NetRef = rn
  Handles = {hn, h1, h2}
  NetHandle = hn
  NoHandle = NoHandle
SPECIFICATION FairSpec
CONSTRAINTS
  FewForeign
  FewLeaked
INVARIANTS
  TypeOK
  CountsMatchHolders
  HeldHandlesLive
  ReleasedOnce
  LeaksAccounted
  BackendLifetime
PROPERTIES
  OthersUntouched
  Implements
  CloseEnds
\* Once the network is destroyed and its wrappers are gone nothing is left to do.
CHECK_DEADLOCK FALSE
