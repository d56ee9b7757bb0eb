---------------------------- MODULE MCSocketLoop ----------------------------
(***************************************************************************)
(* SocketLoop for TLC.  Connections, and listeners, are interchangeable.   *)
(***************************************************************************)
EXTENDS SocketLoop, TLC

(* Symmetry of the safety runs *)
Symmetry == Permutations(Client) \cup Permutations(Listener)
=============================================================================
