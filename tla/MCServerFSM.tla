---------------------------- MODULE MCServerFSM ----------------------------
(***************************************************************************)
(* ServerFSM for TLC.  Clients and names are interchangeable.              *)
(***************************************************************************)
EXTENDS ServerFSM, TLC

(* Symmetry of the safety runs *)
Symmetry == Permutations(Client) \cup Permutations(Name)
=============================================================================
