---------------------------- MODULE MCGammaControl ----------------------------
EXTENDS GammaControl

CONSTANTS o1, o2, l1
=============================================================================
