-------------------------- MODULE MCSessionManager --------------------------
EXTENDS SessionManager, TLC
CONSTANTS c1, c2, s1, s2, i1, i2
MCConns == {c1, c2}
MCSessions == {s1, s2}
MCOneConn == {c1}
MCOneSession == {s1}
MCIds == {i1, i2}
\* Connections and ids are alike; only runs without liveness use this.
Symmetry == Permutations(MCConns) \cup Permutations(MCSessions)
            \cup Permutations(MCIds)
=============================================================================
