-------------------------- MODULE MCJobSubmission --------------------------
(* An instance of JobSubmission.tla for TLC. *)
EXTENDS JobSubmission, TLC

Symmetric == Permutations(Clients) \cup Permutations(Keys) \cup Permutations(Fingerprints)
=============================================================================
