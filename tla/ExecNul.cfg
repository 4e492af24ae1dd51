SPECIFICATION FairSpec
CONSTANTS
  MaxPieces = 2
  PieceKinds = {"empty", "nul"}
  Scripts <- AllScripts
CHECK_DEADLOCK FALSE
PROPERTIES Terminates
