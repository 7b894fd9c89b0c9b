SPECIFICATION FairSpec
CONSTANTS
  Cancellers = {c1, c2}
  Faults = {"stuck", "crash"}
INVARIANTS LeaseInv
PROPERTIES Fenced CancelsStop
\* An attempt ends, and then nothing happens on the host.
CHECK_DEADLOCK FALSE
