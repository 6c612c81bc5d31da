---------------------------- MODULE MCFuzzerCore ----------------------------
\* The whole fuzzer core, instantiated for model checking.
EXTENDS FuzzerCore
=============================================================================
