\* One thread assigns over the Network while another drops its last copy.
CONSTANTS
  Threads = {t1, t2}
  Refs = {rn, r1, r2}
  NetRef = rn
  Handles = {hn, h1}
  NetHandle = hn
  NoHandle = NoHandle
SPECIFICATION Spec
PROPERTIES
  ForeignUntouched
CHECK_DEADLOCK FALSE
