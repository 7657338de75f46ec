--------------------------- MODULE MCWddmInterrupt ---------------------------
\* WddmInterrupt for TLC.
EXTENDS WddmInterrupt
=============================================================================
