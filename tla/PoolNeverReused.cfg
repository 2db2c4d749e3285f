SPECIFICATION Spec
CONSTANTS
  HeapSize = 19
  Owners = {o1, o2}
  PerPage = 2
  PageSize = 4
  HeaderSize = 2
  DataSizes = {1, 4}
  MaxData = 2
SYMMETRY Symmetry
CHECK_DEADLOCK FALSE
INVARIANT EndedIsFree
