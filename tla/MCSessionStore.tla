--------------------------- MODULE MCSessionStore ---------------------------
\* Model values for the runs of SessionStore.
EXTENDS SessionStore, TLC

MCStates == {"active", "completed"}
Symmetry == Permutations(Callers)
=============================================================================
