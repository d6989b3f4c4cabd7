\* A trace captured while the reporter is on its way back to the top of its
\* loop, then a shutdown.
CONSTANTS
  MaxTraces = 2
  Paths = {"none"}
  Header = Header
  Contents <- NoFile
SPECIFICATION Spec
INVARIANTS Drained
CHECK_DEADLOCK FALSE
