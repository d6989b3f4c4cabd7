\* Every kind of path and of earlier contents; a shutdown at any moment, also
\* while traces are handed over and written.
CONSTANTS
  MaxTraces = 4
  Paths = {"none", "closed", "throws", "file"}
  Header = Header
  Contents <- MCContents
SPECIFICATION FairSpec
INVARIANTS Inductive WellFormedCsv
PROPERTIES TraceReported ShutdownReturns
CHECK_DEADLOCK FALSE
