SPECIFICATION QuerySpec
CONSTANTS
  Rows = {1, 2}
  Constraints = {c1, c2}
  Data = {d1, d2, d3}
  None = None
SYMMETRY Symmetric
INVARIANTS QueryTypeOK RightRows
PROPERTIES DataLifetimes
