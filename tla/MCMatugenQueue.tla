--------------------------- MODULE MCMatugenQueue ---------------------------
EXTENDS MatugenQueue
=============================================================================
