SPECIFICATION Spec
CONSTANTS
  VTabs = {v1, v2}
  Stmts = {s1, s2}
  Exceptions = {x1, x2}
  Kinds = {"heap", "none"}
  None = None
SYMMETRY Symmetric
CHECK_DEADLOCK FALSE
INVARIANTS TypeOK ObjectLifetimes TextsFreedOnce LostOnlyIfUnheard OwnReport
