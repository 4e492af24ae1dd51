------------------------------- MODULE MCExec -------------------------------
(* Instances of Exec for TLC: all scripts of up to MaxPieces pieces. *)
EXTENDS Exec, SequencesExt

CONSTANTS MaxPieces,    \* longest script
          PieceKinds    \* the kinds of pieces in it

Piece(k, n, f) == [kind |-> k, rows |-> n, fails |-> f]

Pieces == {Piece("stmt", 0, FALSE), Piece("stmt", 2, FALSE), Piece("stmt", 1, TRUE)}
            \cup {Piece(k, 0, FALSE) : k \in PieceKinds}

AllScripts == BoundedSeq(Pieces, MaxPieces)
===============================================================================
