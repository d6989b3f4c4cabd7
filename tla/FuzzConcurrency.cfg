\* Two producers with two tasks each lap a ring of two cells; the test ends.
CONSTANTS
  Producers = {p1, p2}
  Consumers = {c1, c2}
  Observers = {}
  PerProducer = 2
  Tasks <- TestTasks
  Moved = Moved
  Capacity = 2
  BatchMax = 1
CHECK_DEADLOCK FALSE
SPECIFICATION FuzzSpec
PROPERTIES TestSucceeds
