-------------------------------- MODULE MCMesh --------------------------------
(* Instances of Mesh for TLC. *)
EXTENDS Mesh, TLC

MCCommits == 1 .. 12
MCLids    == 1 .. 10
MCNonces  == 1 .. 10

Symmetric == Permutations(Sta)
=============================================================================
