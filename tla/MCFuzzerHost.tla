---------------------------- MODULE MCFuzzerHost ----------------------------
\* The host program with few threads, instantiated for model checking.
EXTENDS FuzzerHost
=============================================================================
