-------------------------- MODULE MCClientRegistry --------------------------
(* Small instances of ClientRegistry. *)
EXTENDS ClientRegistry, TLC

CONSTANTS c1, c2, c3

TwoClients == {c1, c2}
ThreeClients == {c1, c2, c3}
ClientSymmetry == Permutations(Clients)
=============================================================================
