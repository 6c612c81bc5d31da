----------------------------- MODULE MCCoreStall -----------------------------
\* The coverage path at its real depths, instantiated for model checking.
EXTENDS CoreStall
=============================================================================
