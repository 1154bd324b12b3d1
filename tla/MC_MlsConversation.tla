------------------------- MODULE MC_MlsConversation -------------------------
EXTENDS MlsConversation, TLC

CONSTANTS a, b, c

MC_Clients == {a, b, c}

\* The creator and one other client.
MC_TwoClients == {a, b}

\* b and c play the same part (a is the creator).
MC_Symmetry == Permutations({b, c})
====
