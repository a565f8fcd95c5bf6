\* Images of two segments, two calls in a row into the same memory.
\* The calls are bounded, so the system stops.
CONSTANTS
  NULL = NULL
  SizeRange = 64
  IndexRange = 4
  Elfs <- AllElfs
  FaultyElfs <- MCFaultyElfs
  TableLengths = {0, 1, 4}
  MaxLoads = 2
  Top = 18
  Fds = {0, 1, 2, 3}
  Garbage = {0, 1, 3, 9}
  PageSize = 4
  SizeT = 64
  Unset = Unset
SPECIFICATION Spec
INVARIANTS StaysInside ImageIsRight PointersAreRight CrashExplained
INVARIANTS LookupsAgree 
INVARIANTS StaysMapped ViewsAgree NothingLeaks OthersKept
CHECK_DEADLOCK FALSE
