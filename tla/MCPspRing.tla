----------------------------- MODULE MCPspRing ------------------------------
\* PspRing for TLC: pages are interchangeable; threads are not (Initer).
EXTENDS PspRing, TLC

Symmetry == Permutations(RingPage) \cup Permutations(Stage)
=============================================================================
