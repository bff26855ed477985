------------------------------ MODULE MCEvLoop ------------------------------
(* Instances of EvLoop for TLC.                                            *)
EXTENDS EvLoop, TLC

Symmetry == Permutations(Chans)
=============================================================================
