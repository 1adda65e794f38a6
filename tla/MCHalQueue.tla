----------------------------- MODULE MCHalQueue -----------------------------
\* Instance of HalQueue for TLC.
EXTENDS HalQueue
=============================================================================
