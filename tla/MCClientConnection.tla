------------------------- MODULE MCClientConnection -------------------------
(* Symmetry for ClientConnection.                                          *)
EXTENDS ClientConnection, TLC

MCSymmetry == Permutations(Task)
=============================================================================
