---------------------------- MODULE MCDeviceInit ----------------------------
\* DeviceInit for TLC: threads and addresses are interchangeable model values.
EXTENDS DeviceInit, TLC

Symmetry == Permutations(Thread) \cup Permutations(Va) \cup Permutations(PspVa)
=============================================================================
