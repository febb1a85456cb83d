\* Nobody kills the process, the operator stops it.  A "shutdown" that the broker
\* does not deliver leaves the process waiting for its actors, hence no check for
\* deadlock.
CONSTANTS
  Uuids = {u1, u2}
  NoUuid = NoUuid
  Dead = {}
  MayCrash = FALSE
  MayStop = TRUE
SPECIFICATION Spec
SYMMETRY Symmetry
INVARIANT AckedIsQueued
CHECK_DEADLOCK FALSE
