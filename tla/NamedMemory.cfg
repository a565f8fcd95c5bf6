SPECIFICATION Spec
CONSTANTS
  p1 = p1  p2 = p2  p3 = p3
  o1 = o1  o2 = o2  o3 = o3  o4 = o4
  long = long  prefix = prefix
  NONE = NONE
  Procs = {p1, p2}
  Names = {long, prefix}
  Objects = {o1, o2, o3, o4}
  Copy <- MCCopy
  Sizes = {0, 4, 5, 15}
  PageSize = 4
  SizeRange = 16
  Faults = {"malloc", "shm_open", "ftruncate", "mmap"}
  SamePages = TRUE
  FirstSizes = {3}
SYMMETRY MCSymmetry
INVARIANTS MappingBacked NoLeak
PROPERTY ImplementsStore
