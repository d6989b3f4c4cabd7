\* One pod with either allocator.  The slab holds the metadata and one
\* request, and a second one only when the metadata is small.
CONSTANTS
  Align = 4
  Capacity = 72
  Sizes = {1, 2, 4, 6, 12, 18}
  Requested = {1, 4, 6}
  MetaBudget = 12
  RequestBudget = 32
  MaxRequests = 3
  Models <- SmallModels
  LabelFiles <- SmallLabels
  Payloads = {3, 12, 17, 18}
  FloatBytes = 1
  Scores = {0, 1}
SPECIFICATION EngineSpec
INVARIANTS BlocksApart NoNullWhenFits
  TensorPlanar TransformInside ResultWhole LabelOfLine
PROPERTIES ArenaDiscipline
CHECK_DEADLOCK FALSE
