------------------------------ MODULE MCKeeper ------------------------------
(* Instances of Keeper for TLC.                                            *)
EXTENDS Keeper, TLC

Symmetry == Permutations(Vault)
=============================================================================
