----------------------------- MODULE MCAgentLoop -----------------------------
\* Values for the run of AgentLoop.
EXTENDS AgentLoop

MCTextSizes == {2}
MCResultSizes == {1, 4}
=============================================================================
