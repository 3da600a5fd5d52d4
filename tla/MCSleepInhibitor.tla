-------------------------- MODULE MCSleepInhibitor --------------------------
EXTENDS SleepInhibitor

CONSTANTS p1, p2

MCClients == {p1, p2}
MCOneClient == {p1}
=============================================================================
