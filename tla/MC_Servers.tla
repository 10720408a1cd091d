------------------------------ MODULE MC_Servers ------------------------------
\* One agent all the way, another that claims the same server, and two organizations.
EXTENDS Servers

CONSTANTS ag1, ag2, r1, r2, home, other

MCHome == [r \in Row |-> home]
=============================================================================
