SPECIFICATION FairSpec
CONSTANTS
  MaxPieces = 4
  PieceKinds = {"empty", "space", "bad"}
  Scripts <- AllScripts
CHECK_DEADLOCK FALSE
INVARIANTS TypeOK CallsInOrder RunsToFirstFailure
PROPERTIES Terminates
