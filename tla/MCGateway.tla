----------------------------- MODULE MCGateway -----------------------------
EXTENDS Gateway, TLC

CONSTANTS c1, c2, a

MCAgentOf == [c \in Conns |-> a]
=============================================================================
