--------------------------- MODULE MCLivePipeline ---------------------------
(* Instances of LivePipeline.tla for TLC. *)
EXTENDS LivePipeline

(* The first symbol is on time, the second may come after the lateness. *)
SecondIsLate == [s \in Symbols |-> 2 * s - 1]
=============================================================================
