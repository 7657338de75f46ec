----------------------------- MODULE MCGfxRing ------------------------------
\* GfxRing for TLC: threads and pages are interchangeable.
EXTENDS GfxRing, TLC

Symmetry == Permutations(Thread) \cup Permutations(Page)
=============================================================================
