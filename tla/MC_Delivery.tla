----------------------------- MODULE MC_Delivery -----------------------------
(* Small instances of Delivery: a run that submits, one that comes back for   *)
(* the result with --get --wait, one that cancels.                            *)
EXTENDS Delivery

CONSTANTS s, w, v, k, j1, j2, d1

MCProgram ==
  [c \in Client |-> CASE c = s -> "submit" [] c \in {w, v} -> "wait" [] OTHER -> "cancel"]

\* The submitting run is a batch of every job; the others are about j1.
MCWants == [c \in Client |-> IF c = s THEN Job ELSE {j1}]
=============================================================================
