----------------------------- MODULE MCEconomy -----------------------------
(***************************************************************************)
(* Economy for TLC.  Clients are interchangeable.                          *)
(***************************************************************************)
EXTENDS Economy, TLC

Symmetry == Permutations(Client)
=============================================================================
