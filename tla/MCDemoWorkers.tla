--------------------------- MODULE MCDemoWorkers ---------------------------
(* Instances of DemoWorkers.tla for TLC. *)
EXTENDS DemoWorkers, TLC

AllPhases == <<"validating", "replaying", "exporting">>
OnePhase == <<"replaying">>
NoPhases == <<>>

Symmetric == Permutations(Jobs) \cup Permutations(Workers)
=============================================================================
