--------------------------- MODULE MCStateBroadcast ---------------------------
EXTENDS StateBroadcast

CONSTANTS c1, k1, k2, connected, offline

MCClients == {c1}
MCCallbacks == {k1, k2}
MCOneCallback == {k1}
MCValues == {connected, offline}
=============================================================================
