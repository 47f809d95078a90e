-------------------------- MODULE MCSessionManager --------------------------
EXTENDS SessionManager, TLC

CONSTANTS c1, c2, p1, x1, x2

MCSymmetry == Permutations({c1, c2}) \cup Permutations({x1, x2})
=============================================================================
