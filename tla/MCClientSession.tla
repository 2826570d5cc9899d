-------------------------- MODULE MCClientSession --------------------------
(* Small instances of ClientSession. *)
EXTENDS ClientSession, TLC

CONSTANTS c1, c2

OneClient == {c1}
TwoClients == {c1, c2}
ClientSymmetry == Permutations(Clients)
=============================================================================
