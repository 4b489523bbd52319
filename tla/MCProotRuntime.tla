--------------------------- MODULE MCProotRuntime ---------------------------
\* An instance of ProotRuntime for TLC.
EXTENDS ProotRuntime
CONSTANTS boot0, x1, l1, l2, git

MCCallers == {x1}
MCLinks == {l1, l2}
MCEssentials == {git}
=============================================================================
