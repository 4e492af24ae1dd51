SPECIFICATION Spec
CONSTANTS
  s1 = s1
  s2 = s2
  Stmts = {s1, s2}
  Guards = {g1, g2, g3}
  Values = {v1, v2}
  Rows <- TwoAndOne
  Flags = {"reset", "clear_bindings"}
  Passes = 2
  Null = Null
  NoObject = NoObject
SYMMETRY Symmetric
INVARIANTS TypeOK ReadyWhenUnguarded NoForeignValue EachRowOnce
