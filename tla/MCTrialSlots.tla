---------------------------- MODULE MCTrialSlots ----------------------------
(* Instances of TrialSlots for TLC.                                        *)
EXTENDS TrialSlots, TLC

Interchangeable == Permutations(Runs)
=============================================================================
