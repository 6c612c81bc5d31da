------------------------- MODULE MCTapascoRunnerPhys -------------------------
\* The runner with few threads and elements, instantiated for model checking.
EXTENDS TapascoRunnerPhys
=============================================================================
