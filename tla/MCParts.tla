------------------------------ MODULE MCParts ------------------------------
(***************************************************************************)
(* A small instance of Parts.                                              *)
(***************************************************************************)
EXTENDS Parts, SequencesExt

CONSTANT MaxPieces  \* bound on the pieces of a text

\* What texts are made of: a fence, letters, a newline, a word.
Pieces == {<<"t", "t", "t">>, <<"x">>, <<"n">>, <<" ", "x", "x", "x">>}

PieceTexts == {FlattenSeq(p) : p \in UNION {[1..n -> Pieces] : n \in 1..MaxPieces}}
=============================================================================
