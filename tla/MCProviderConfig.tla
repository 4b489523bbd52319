-------------------------- MODULE MCProviderConfig --------------------------
\* An instance of ProviderConfig for TLC.
EXTENDS ProviderConfig
CONSTANTS a1, a2, k1, u1, m1, h1, h2, r1

MCAccounts == {a1, a2}
MCProviders == {"claude", "copilot", "ollama"}
MCDirectKeys == {k1}
MCUrls == {u1}
MCModels == {m1}
\* Nothing set; keys for Claude and for Copilot; a token of the first account.
MCEnvs == {[p \in MCProviders |-> None],
           [p \in MCProviders |-> IF p = "ollama" THEN u1 ELSE k1],
           [p \in MCProviders |-> IF p = "copilot" THEN a1 ELSE None]}
MCHandlers == {h1, h2}
MCRuns == {r1}
=============================================================================
