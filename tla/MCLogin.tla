------------------------------- MODULE MCLogin ------------------------------
(* Small instances of Login. *)
EXTENDS Login, TLC

CONSTANTS c1, c2, c3, h1, h2

TwoClients == {c1, c2}
ThreeClients == {c1, c2, c3}
OneHandle == {h1}
TwoHandles == {h1, h2}
FourUsers == 1..4
ClientSymmetry == Permutations(Clients) \cup Permutations(Handles)
=============================================================================
