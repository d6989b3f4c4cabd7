\* Two producers and two consumers on a ring of two cells; the four tasks lap
\* the ring twice, while a third thread calls size().
CONSTANTS
  Producers = {p1, p2}
  Consumers = {c1, c2}
  Observers = {o1}
  Tasks = {t1, t2, t3, t4}
  Moved = Moved
  Capacity = 2
  BatchMax = 1
SYMMETRY Symmetry
SPECIFICATION Spec
INVARIANTS Inductive ExclusiveCells TakesItsTicket
PROPERTIES CallsJustified ImplementsContract
