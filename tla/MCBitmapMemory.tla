--------------------------- MODULE MCBitmapMemory ---------------------------
\* The bitmap on the bus, instantiated for model checking.
EXTENDS BitmapMemory
=============================================================================
