\* A bounded queue may refuse the task of the only connection.
CONSTANTS
  Conns = {a}
  Fds = {f1}
  Listener = Listener
  HeaderBytes = 1
  Sizes = {1}
  ResponseBytes = 2
  MaxRequests <- One
  Pipeline = 1
  Huge = {}
  PushResults = {TRUE, FALSE}
SPECIFICATION FairSpec
PROPERTIES Answered
CHECK_DEADLOCK FALSE
