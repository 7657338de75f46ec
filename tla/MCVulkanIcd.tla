----------------------------- MODULE MCVulkanIcd -----------------------------
\* VulkanIcd for TLC.
EXTENDS VulkanIcd, TLC

CONSTANTS c1, c2

\* A call without submits, one with an entry of another type, and one with two
\* submits; the first of them is empty, one batch or two, and two full ones
\* when both command buffers hold a draw.
MCSubmits == {<<>>, <<Other>>, <<<<c1, c2, c2>>, <<c1>>>>}

MCCb == {c1, c2}

Symmetry == Permutations(Thread) \cup Permutations(Va)
=============================================================================
