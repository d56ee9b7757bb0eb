----------------------------- MODULE MCSession ------------------------------
(***************************************************************************)
(* Session for TLC.  The names are numbers; the players are interchangeable.*)
(***************************************************************************)
EXTENDS Session, TLC

MCName == 0 .. Cardinality(Client) - 1

(* Symmetry of the safety run *)
Symmetry == Permutations(Player)
=============================================================================
