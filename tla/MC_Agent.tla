------------------------------ MODULE MC_Agent ------------------------------
(* Instances of Agent for TLC: the sets of control actions of the runs. *)
EXTENDS Agent

CONSTANTS j1, j2  \* model values for jobs

NoControls == {}
=============================================================================
