--------------------------- MODULE MCShadowRunner ---------------------------
(* Instances of ShadowRunner.tla for TLC. *)
EXTENDS ShadowRunner

(* A loud candidate; a quiet one on a bar that touches the exits; a stale batch. *)
Same(hit, wants, loud) == [s \in Symbols |-> [hit |-> hit, wants |-> wants, loud |-> loud]]
SomeBatches ==
  {[bars |-> Same(FALSE, TRUE, TRUE), stale |-> FALSE],
   [bars |-> Same(TRUE, TRUE, FALSE), stale |-> FALSE],
   [bars |-> Same(TRUE, TRUE, TRUE), stale |-> TRUE]}
=============================================================================
