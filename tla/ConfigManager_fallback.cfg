\* A file whose later part is of the wrong type.
CONSTANTS
  Counts = {0, 1, 4}
  SizeMax = 99
  Hardware = 8
  FileSet <- EveryFile
SPECIFICATION Spec
INVARIANTS FallsBack
CHECK_DEADLOCK FALSE
