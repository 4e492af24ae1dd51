SPECIFICATION Spec
CONSTANTS
  None = None
  Errors = {e1, e2, e3}
  Pointers = {p}
  Failures = {f1, f2}
  Blocks = {b1, b2, b3}
SYMMETRY Symmetry
INVARIANTS TypeOK MessageOwnership CodeAndMessageAgree
