-------------------------- MODULE MCCupsSubscription --------------------------
EXTENDS CupsSubscription

CONSTANTS c1, c2
=============================================================================
