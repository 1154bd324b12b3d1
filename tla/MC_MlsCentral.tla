---------------------------- MODULE MC_MlsCentral ----------------------------
EXTENDS MlsCentral, TLC

CONSTANTS app, ext, c1, c2, id1

MC_Instances == {app, ext}
MC_Convs == {c1, c2}
MC_ClientIds == {id1}
\* The extension may run on a volatile store; the app always opens the shared keystore.
MC_InMemory == {ext}
\* The configurations of the unit and doc tests, and one input for each other branch of
\* MlsCentralConfiguration::try_new: no client id, a short and a long entropy seed.
MC_Configurations ==
    {t.cfg : t \in ConfigTests}
    \cup {[TestValid.cfg EXCEPT !.entropy = e] : e \in {"short", "exact", "long"}}
    \cup {[TestValid.cfg EXCEPT !.client_id = "none"]}
\* The two conversations are interchangeable; the two instances are not (Init picks the holder, but both are reachable).
MC_Symmetry == Permutations(MC_Convs)
=============================================================================
