SPECIFICATION Spec
CONSTANTS
  None = None
  Data = {d1, d2}
  Views = {v1}
CONSTRAINT CopiesWithoutData
SYMMETRY DataSymmetry
INVARIANTS TypeOK AuxdataOfThisCall
PROPERTIES ViewFits StringViewsLast ImplementsOwnership
