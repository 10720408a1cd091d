----------------------------- MODULE MC_Gateway -----------------------------
(* Small instances of Gateway: two devices, one of which may reconnect once,  *)
(* and three jobs of two submitters.                                         *)
EXTENDS Gateway

CONSTANTS d1, d2, s1, s2, s3, j1, j2, j3, o1, o2

\* s1 and s2 are the first and the second connection of d1.
MCDeviceOf == [s \in Session |-> IF s = s3 THEN d2 ELSE d1]

MCOwnerOf == [j \in Job |-> IF j = j3 THEN o2 ELSE o1]

\* j3 is pinned to d2.
MCTarget == [j \in Job |-> IF j = j3 THEN d2 ELSE None]

\* j2 fits d1 only.
MCFits == [j \in Job |-> IF j = j2 THEN {d1} ELSE {d1, d2}]
=============================================================================
