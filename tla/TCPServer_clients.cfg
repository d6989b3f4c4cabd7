\* Three clients and two descriptors: entries are appended and swapped during
\* a scan, and descriptors are reused while results are on their way.
CONSTANTS
  Conns = {a, b, c}
  Fds = {f1, f2}
  Listener = Listener
  HeaderBytes = 1
  Sizes = {1}
  Huge = {}
  ResponseBytes = 1
  MaxRequests <- One
  Pipeline = 1
  PushResults = {TRUE, FALSE}
SYMMETRY Symmetry
SPECIFICATION Spec
INVARIANTS ServerInv OwnResponses
PROPERTIES ImplementsRequests
CHECK_DEADLOCK FALSE
