\* Three threads, none of which has used the kernel services before.
SPECIFICATION Spec
CONSTANTS
  Threads = {t1, t2, t3}
  Names = {"", "x", "z"}
  Symbols <- MCSymbols
  Dynamics <- MCDynamics
  TextAddress = 100
  Seeks = {TRUE, FALSE}
  Installs = {TRUE, FALSE}
  Sizes = {2}
  MaxBlocks = 2
SYMMETRY MCSymmetry
INVARIANTS LookupRight BlocksApart
