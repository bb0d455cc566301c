-------------------------- MODULE MCArtifactIndex --------------------------
(* Instances of ArtifactIndex.tla for TLC. *)
EXTENDS ArtifactIndex, TLC

CONSTANTS d1, d2
Symmetric == Permutations(Importers) \cup Permutations(Owners)
ReviewedFirst == {<<d1, 1>>}
=============================================================================
