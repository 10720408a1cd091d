----------------------------- MODULE MC_Keystore -----------------------------
\* Two connections, of two machines or of the agent and the client of one, and a run of
\* the tool.
EXTENDS Keystore

CONSTANTS k1, k2, s1, s2, t1

\* Two machines, each with a key of its own.
TwoMachines == [s \in Session |-> IF s = s1 THEN k1 ELSE k2]

\* The agent and the client of one machine, which share ~/.aicn/identity.key.
OneMachine == [s \in Session |-> k1]

\* s1 is an agent and s2 a client.
AgentAndClient == [s \in Session |-> IF s = s1 THEN {"node"} ELSE {"requester"}]
=============================================================================
