\* Two clients, up to two workers, every queue: the program from the reading
\* of its configuration to its end.
CONSTANTS
  Counts = {0, 1, 2, 4, 7}
  SizeMax = 9
  Hardware = 2
  FileSet <- SystemFiles
  Conns = {a, b}
  ShortConns = {a}
  MaxRequests <- Uneven
  Workers = {1, 2}
  Capacity = 2
  Loadable = {"default", "given"}
  PodsThatFit = 2
  PodLimit = 6
  BatchLimit = 6
  Throwing = {"other"}
SPECIFICATION FairLumenSpec
INVARIANTS SystemInv NoOrphans SingleWorkerInOrder FailsCleanly
  SpscSingleWorker
PROPERTIES Terminates Served
CHECK_DEADLOCK FALSE
