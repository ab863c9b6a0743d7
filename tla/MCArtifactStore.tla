-------------------------- MODULE MCArtifactStore --------------------------
(* Instances of ArtifactStore for TLC.                                     *)
EXTENDS ArtifactStore, TLC

Interchangeable == Permutations(Writers) \cup Permutations(Keys)
=============================================================================
