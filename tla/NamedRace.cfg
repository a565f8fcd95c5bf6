SPECIFICATION Spec
CONSTANTS
  p1 = p1  p2 = p2  p3 = p3
  o1 = o1  o2 = o2  o3 = o3  o4 = o4
  long = long  prefix = prefix
  NONE = NONE
  Procs = {p1, p2}
  Names = {prefix}
  Objects = {o1, o2, o3}
  Copy <- MCCopy
  Sizes = {4, 8}
  PageSize = 4
  SizeRange = 16
  Faults = {}
  SamePages = FALSE
  FirstSizes = {4}
SYMMETRY MCSymmetry
INVARIANTS MappingBacked
