------------------------------- MODULE MCNetwork -------------------------------
(***************************************************************************)
(* The network manager's broadcast with the sessions that it feeds, and    *)
(* the connection attempts of one of its backends, checked in one run:     *)
(* each behaviour gives work to one of them, the other stays as it began.  *)
(* Both begin with nothing to do that fairness would ask of them, so that  *)
(* it excludes no behaviour of the other.                                  *)
(***************************************************************************)
EXTENDS StateBroadcast, IwdAttempts

CONSTANTS c1, k1, connected, offline, w1, w2

VARIABLE part   \* what this behaviour is about

Broadcast == part = "broadcast" /\ Next /\ UNCHANGED <<part, iwdVars>>
Attempts == part = "iwd" /\ IwdNext /\ UNCHANGED <<part, vars>>

\* A part that is not asked to do anything begins in one way.
MCInit ==
    /\ part \in {"broadcast", "iwd"}
    /\ Init /\ IwdInit
    /\ part = "iwd" => net = offline
MCSpec ==
    MCInit /\ [][Broadcast \/ Attempts]_<<part, vars, iwdVars>> /\ Fairness /\ IwdFairness
\* Both parts' variables range over what the program can hold.
NetworkTypeOK == TypeOK /\ IwdTypeOK
=============================================================================
