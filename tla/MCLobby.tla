------------------------------- MODULE MCLobby -------------------------------
(* Instances of Lobby: interchangeable sessions and player ids. *)
EXTENDS Lobby, TLC

Symmetry == Permutations(Sessions) \cup Permutations(Names)
=============================================================================
