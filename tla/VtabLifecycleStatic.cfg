SPECIFICATION Spec
CONSTANTS
  VTabs = {v1}
  Stmts = {s1}
  Exceptions = {x1}
  Kinds = {"heap", "static", "none"}
  None = None
CHECK_DEADLOCK FALSE
INVARIANTS OnlyHeapFreed
