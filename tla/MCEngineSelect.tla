--------------------------- MODULE MCEngineSelect ---------------------------
\* EngineSelect for TLC: IRPs are interchangeable.
EXTENDS EngineSelect, TLC

Symmetry == Permutations(Thread)
=============================================================================
