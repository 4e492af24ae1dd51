SPECIFICATION Spec
CONSTANTS
  Rows = {r1}
  Marks = {m1, m2}
  NoValue = NoValue
  Handles = {h1, h2}
  Slots = {"commit", "rollback", "wal"}
  None = None
SYMMETRY Symmetry
INVARIANTS TypeOK LockMatchesUse
PROPERTIES EndHeard ThrownIsUndone
