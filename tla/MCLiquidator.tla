---------------------------- MODULE MCLiquidator ----------------------------
(* Instances of Liquidator for TLC.                                        *)
EXTENDS Liquidator, TLC

IdSymmetry == Permutations(Id)
=============================================================================
