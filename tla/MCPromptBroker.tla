---------------------------- MODULE MCPromptBroker ----------------------------
EXTENDS PromptBroker

CONSTANTS n1, n2, shared

MCNets == {n1, n2}
MCOneKey == {shared}

\* iwd and wpa_supplicant name no connection path: every network has the same key.
MCBySetting == [n \in Nets |-> shared]
=============================================================================
