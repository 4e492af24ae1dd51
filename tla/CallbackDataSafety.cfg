SPECIFICATION FairSpec
CONSTANTS
  Data = {d1, d2}
  Functions = {f}
  Collations = {c}
  Modules = {m}
  Keys = {k}
  Schemas = {main}
  Stmts = {s1, s2}
  Params = {p}
  BindSizes <- OrdinarySizes
  None = None
CHECK_DEADLOCK FALSE
INVARIANTS TypeOK EachDatumAccounted
PROPERTIES RunningKeepsCallbacks ImplementsOwnership EventuallyDestroyed
