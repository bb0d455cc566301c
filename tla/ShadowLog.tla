------------------------------ MODULE ShadowLog ------------------------------
(***************************************************************************)
(* What a shadow run (src/research/shadow.py) promises about the completed *)
(* batches it accepted: they form a log that only grows at its end, in the *)
(* order of their times, one entry per time.                               *)
(***************************************************************************)
EXTENDS Naturals, Sequences

CONSTANT Events      \* records with a time `ts`
VARIABLE log

Init == log = <<>>

Accept(e) ==
  /\ \A i \in DOMAIN log : log[i].ts < e.ts
  /\ log' = Append(log, e)

Next == \E e \in Events : Accept(e)
Spec == Init /\ [][Next]_log
=============================================================================
