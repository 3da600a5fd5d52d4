------------------------------ MODULE MCManagers ------------------------------
(***************************************************************************)
(* The managers whose liveness is checked, the sleep inhibitor and the     *)
(* printer subscription, share no state and are checked in one run: each   *)
(* behaviour gives work to one of them, the other stays as it began and    *)
(* has nothing to do, so that its fairness excludes no behaviour.          *)
(***************************************************************************)
EXTENDS SleepInhibitor, CupsSubscription

CONSTANTS p1, p2, c1, c2

VARIABLE part   \* the manager this behaviour is about

Inhibitor == part = "sleep" /\ Next /\ UNCHANGED <<part, cupsVars>>
Printers == part = "printers" /\ CupsNext /\ UNCHANGED <<part, vars>>

\* A part that is not asked to do anything begins in one way.
MCInit ==
    /\ part \in {"sleep", "printers"}
    /\ Init /\ CupsInit
    /\ part # "sleep" => held /\ ~lockFirst
MCNext == Inhibitor \/ Printers
MCSpec ==
    /\ MCInit /\ [][MCNext]_<<part, vars, cupsVars>>
    /\ Fairness /\ CupsFairness
\* Every manager's variables range over what the program can hold.
ManagersTypeOK == TypeOK /\ CupsTypeOK
=============================================================================
