\* Five tasks lap a ring of three cells, of which two are usable.
CONSTANTS
  Worker = w
  Tasks = {t1, t2, t3, t4, t5}
  Moved = Moved
  Capacity = 3
  BatchMax = 2
  Word = 16
SPECIFICATION FairSpec
INVARIANTS ExclusiveCells TakesOldest
PROPERTIES ImplementsContract AcceptedDelivered
