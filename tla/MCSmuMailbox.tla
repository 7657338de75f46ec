---------------------------- MODULE MCSmuMailbox ----------------------------
\* SmuMailbox for TLC: IRPs are interchangeable.
EXTENDS SmuMailbox, TLC

Symmetry == Permutations(Thread)
=============================================================================
