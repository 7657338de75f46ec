------------------------------- MODULE MCVidMem -------------------------------
\* VidMem for TLC: page lists, blocks and buffers are interchangeable, and so
\* are the threads of RADV.
EXTENDS VidMem, TLC

CONSTANTS r1, r2, d1

Owner == [t \in {r1, r2, d1} |-> IF t = d1 THEN "d3d" ELSE "radv"]

\* Nothing reads a counter: a process is not followed once an update is lost.
Untorn == torn = {}

Symmetry == Permutations(Mdl) \cup Permutations(Block) \cup Permutations(Bo)
              \cup Permutations(Va) \cup Permutations({r1, r2})
=============================================================================
