\* Two clients share one descriptor: accept() fails until it is closed.
\* One pipelines two requests; headers, bodies and responses move in pieces,
\* and a body of 2 bytes may be too large to allocate.
CONSTANTS
  Conns = {a, b}
  Fds = {f1}
  Listener = Listener
  HeaderBytes = 2
  Sizes = {0, 1, 2}
  Huge = {2}
  ResponseBytes = 2
  MaxRequests <- Uneven
  Pipeline = 2
  PushResults = {TRUE}
SPECIFICATION FairSpec
INVARIANTS Framing
PROPERTIES Answered EmptyBodyClosed DescriptorsReclaimed
CHECK_DEADLOCK FALSE
