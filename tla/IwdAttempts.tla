------------------------------ MODULE IwdAttempts ------------------------------
(***************************************************************************)
(* Connection attempts of the iwd backend                                  *)
(* (core/internal/server/network/backend_iwd*.go).                         *)
(*                                                                         *)
(* An attempt is ended by finalizeAttempt, which four goroutines race to   *)
(* call: the one waiting for iwd's answer to Connect, the attempt's        *)
(* watchdog with its deadline of 15 s, the verifier that looks 3 s after   *)
(* the station was connected, and the signal pump.  The attempt's mutex    *)
(* lets one of them through.  What a client sees as being connected to is  *)
(* set and cleared under another mutex, the current attempt under a third; *)
(* an abort, a refused call and a cancelled prompt clear it directly.      *)
(* What iwd answers, signals and says of its station is left open, and so  *)
(* are the error codes, which only choose the text a client shows and      *)
(* whether a saved passphrase is asked for again: that ends in one more    *)
(* call of ConnectWiFi.                                                    *)
(***************************************************************************)
EXTENDS Naturals, Sequences

CONSTANTS
    Ssids,       \* networks in reach
    NoSsid,      \* the empty name
    MaxAttempts, \* bound: calls of ConnectWiFi that find their network
    MaxStation,  \* bound: changes of the station's state that iwd signals
    MaxAborts    \* bound: calls that switch autoconnect off and abort

ASSUME IwdAssumption ==
    NoSsid \notin Ssids /\ {MaxAttempts, MaxStation, MaxAborts} \subseteq Nat

AttemptIds == 1 .. MaxAttempts
NoAttempt == 0
Attempt == [ssid : Ssids, at : {"current", "calling", "watching", "done"},
            finalized : BOOLEAN]
\* A call of finalizeAttempt: who makes it for which attempt, and where it is.
Finalizer == [of : AttemptIds, by : {"worker", "verifier", "pump"},
              at : {"sleeping", "check", "clear", "drop"}]

VARIABLES
    connecting, \* state.ConnectingSSID, NoSsid when IsConnecting is false
    attempts,   \* every attempt made, in order
    curAttempt, \* b.curAttempt
    finalizers, \* the calls of finalizeAttempt to come or under way
    iwdPump,    \* the signal being handled and the attempt that it read
    aborting,   \* the network of the abort that is between its two halves
    signalled,  \* how many changes of the station were signalled
    aborted,    \* how many aborts have begun
    abortOvertaken, \* history: an attempt was shown since the abort under way began
    stranded    \* history: attempts finalized without a look at what is shown

shownVars == <<connecting, curAttempt>>
raceVars == <<abortOvertaken, stranded>>
abortVars == <<aborting, aborted>>
stationVars == <<iwdPump, signalled>>
iwdVars == <<shownVars, attempts, finalizers, stationVars, abortVars, raceVars>>

NoSignal == [state |-> "none", att |-> NoAttempt]

IwdInit ==
    /\ connecting = NoSsid /\ curAttempt = NoAttempt /\ attempts = <<>>
    /\ finalizers = {} /\ iwdPump = NoSignal /\ aborting = NoSsid
    /\ signalled = 0 /\ aborted = 0
    /\ abortOvertaken = FALSE /\ stranded = {}

Made == DOMAIN attempts

-----------------------------------------------------------------------------
(* ConnectWiFi and the goroutine that it starts.                           *)

\* The network is found, and an attempt for it becomes the current one.
ConnectWiFi(s) ==
    /\ Len(attempts) < MaxAttempts
    /\ attempts' = Append(attempts, [ssid |-> s, at |-> "current", finalized |-> FALSE])
    /\ curAttempt' = Len(attempts) + 1
    /\ UNCHANGED <<connecting, finalizers, stationVars, abortVars, raceVars>>

\* No station, no such network, or a prompt the user cancelled: what is shown ends.
SetConnectError ==
    /\ connecting' = NoSsid
    /\ UNCHANGED <<curAttempt, attempts, finalizers, stationVars, abortVars, raceVars>>

ShowConnecting(i) ==
    /\ attempts[i].at = "current"
    /\ attempts' = [attempts EXCEPT ![i].at = "calling"]
    /\ connecting' = attempts[i].ssid
    /\ abortOvertaken' = (abortOvertaken \/ aborting # NoSsid)
    /\ stranded' = IF attempts[i].finalized THEN stranded \cup {i} ELSE stranded
    /\ UNCHANGED <<curAttempt, finalizers, stationVars, abortVars>>

\* Someone is to call finalizeAttempt.
Finalize(i, who, step) == finalizers' = finalizers \cup {[of |-> i, by |-> who, at |-> step]}

ConnectFails(i) ==
    /\ attempts[i].at = "calling"
    /\ attempts' = [attempts EXCEPT ![i].at = "done"]
    /\ Finalize(i, "worker", "check")
    /\ UNCHANGED <<shownVars, stationVars, abortVars, raceVars>>

ConnectSucceeds(i) ==
    /\ attempts[i].at = "calling"
    /\ attempts' = [attempts EXCEPT ![i].at = "watching"]
    /\ UNCHANGED <<shownVars, finalizers, stationVars, abortVars, raceVars>>

\* The watchdog's tick finds the attempt finalized, or past its deadline.
WatchdogEnds(i) ==
    /\ attempts[i].at = "watching"
    /\ attempts' = [attempts EXCEPT ![i].at = "done"]
    /\ IF attempts[i].finalized THEN UNCHANGED finalizers ELSE Finalize(i, "worker", "check")
    /\ UNCHANGED <<shownVars, stationVars, abortVars, raceVars>>

-----------------------------------------------------------------------------
(* finalizeAttempt, and what its caller does after it.                     *)

MoveTo(f, gs) == finalizers' = (finalizers \ {f}) \cup gs
\* The verifier and the pump drop the attempt from curAttempt.
Finalized(f) == IF f.by = "worker" THEN {} ELSE {[f EXCEPT !.at = "drop"]}

\* After three seconds the station is, or is not, still on the attempt's network.
Verify(f) ==
    /\ f.at = "sleeping"
    /\ \/ MoveTo(f, {[f EXCEPT !.at = "check"]})
       \/ MoveTo(f, {})
    /\ UNCHANGED <<shownVars, attempts, stationVars, abortVars, raceVars>>

CheckFinalized(f) ==
    /\ f.at = "check"
    /\ attempts' = [attempts EXCEPT ![f.of].finalized = TRUE]
    /\ MoveTo(f, IF attempts[f.of].finalized THEN Finalized(f) ELSE {[f EXCEPT !.at = "clear"]})
    /\ UNCHANGED <<shownVars, stationVars, abortVars, raceVars>>

\* Mutant: an attempt that is not the current one leaves alone what is shown.
ClearStateCurrent(f) ==
    /\ f.at = "clear"
    /\ connecting' = IF curAttempt = f.of THEN NoSsid ELSE connecting
    /\ MoveTo(f, Finalized(f))
    /\ UNCHANGED <<curAttempt, attempts, stationVars, abortVars, raceVars>>

ClearState(f) ==
    /\ f.at = "clear"
    /\ connecting' = NoSsid
    /\ MoveTo(f, Finalized(f))
    /\ UNCHANGED <<curAttempt, attempts, stationVars, abortVars, raceVars>>

DropAttempt(f) ==
    /\ f.at = "drop"
    /\ curAttempt' = IF curAttempt = f.of THEN NoAttempt ELSE curAttempt
    /\ MoveTo(f, {})
    /\ UNCHANGED <<connecting, attempts, stationVars, abortVars, raceVars>>

-----------------------------------------------------------------------------
(* The signal pump: one signal at a time.                                  *)

\* The attempt is read here; the station is asked for its network after it.
SignalArrives(state) ==
    /\ iwdPump = NoSignal /\ \A f \in finalizers : f.by # "pump"
    /\ signalled < MaxStation /\ signalled' = signalled + 1
    /\ iwdPump' = [state |-> state, att |-> curAttempt]
    /\ UNCHANGED <<shownVars, attempts, finalizers, abortVars, raceVars>>

\* The signal is, or is not, about the network of the attempt.
PumpConnected ==
    /\ iwdPump.state = "connected"
    /\ iwdPump' = NoSignal
    /\ connecting' = NoSsid
    /\ \/ iwdPump.att # NoAttempt /\ Finalize(iwdPump.att, "verifier", "sleeping")
       \/ UNCHANGED finalizers
    /\ UNCHANGED <<curAttempt, attempts, signalled, abortVars, raceVars>>

PumpDisconnected ==
    /\ iwdPump.state = "disconnected"
    /\ iwdPump' = NoSignal
    /\ \/ iwdPump.att # NoAttempt /\ Finalize(iwdPump.att, "pump", "check")
       \/ UNCHANGED finalizers
    /\ UNCHANGED <<shownVars, attempts, signalled, abortVars, raceVars>>

-----------------------------------------------------------------------------
(* abortInFlightConnection, when a client switches autoconnect off.        *)

AbortShown(s) ==
    /\ aborting = NoSsid /\ connecting = s
    /\ aborted < MaxAborts /\ aborted' = aborted + 1
    /\ connecting' = NoSsid
    /\ aborting' = s
    /\ UNCHANGED <<curAttempt, attempts, finalizers, stationVars, raceVars>>

AbortAttempt ==
    LET hits == curAttempt # NoAttempt /\ attempts[curAttempt].ssid = aborting
    IN  /\ aborting # NoSsid
        /\ aborting' = NoSsid
        /\ attempts' = IF hits THEN [attempts EXCEPT ![curAttempt].finalized = TRUE] ELSE attempts
        /\ stranded' = IF hits /\ abortOvertaken THEN stranded \cup {curAttempt} ELSE stranded
        /\ abortOvertaken' = FALSE
        /\ UNCHANGED <<shownVars, finalizers, stationVars, aborted>>

-----------------------------------------------------------------------------
AttemptStep(i) ==
    ShowConnecting(i) \/ ConnectFails(i) \/ ConnectSucceeds(i) \/ WatchdogEnds(i)
FinalizeStep(f) == Verify(f) \/ CheckFinalized(f) \/ ClearState(f) \/ DropAttempt(f)

IwdNext ==
    \/ \E s \in Ssids : ConnectWiFi(s) \/ AbortShown(s)
    \/ \E i \in Made : AttemptStep(i)
    \/ \E f \in finalizers : FinalizeStep(f)
    \/ \E state \in {"connected", "disconnected"} : SignalArrives(state)
    \/ SetConnectError \/ PumpConnected \/ PumpDisconnected \/ AbortAttempt

\* Goroutines go on, the ticker ticks, and iwd answers Connect in the end.
IwdFairness ==
    /\ \A i \in AttemptIds : WF_iwdVars(i \in Made /\ AttemptStep(i))
    /\ WF_iwdVars(\E f \in finalizers : FinalizeStep(f))

IwdSpec == IwdInit /\ [][IwdNext]_iwdVars /\ IwdFairness

-----------------------------------------------------------------------------
IwdTypeOK ==
    /\ connecting \in Ssids \cup {NoSsid} /\ curAttempt \in {NoAttempt} \cup Made
    /\ Made \subseteq AttemptIds /\ \A i \in Made : attempts[i] \in Attempt
    /\ finalizers \subseteq Finalizer /\ \A f \in finalizers : f.of \in Made
    /\ iwdPump.state \in {"none", "connected", "disconnected"}
    /\ iwdPump.att \in {NoAttempt} \cup Made
    /\ signalled \in 0 .. MaxStation /\ aborted \in 0 .. MaxAborts
    /\ aborting \in Ssids \cup {NoSsid}
    /\ abortOvertaken \in BOOLEAN /\ stranded \subseteq Made

\* Clients see a connection being made for a network at which an attempt was stranded.
ShownStranded == \E i \in stranded : attempts[i].ssid = connecting

\* Again and again every attempt made so far has been finalized and no connection is shown
\* as being made; as attempts are bounded, each of them ends, also one that another attempt
\* replaced as the current one or whose signal was read too early, and so does what clients
\* see, whichever goroutine ended the attempt.  The exceptions are the two races in which the
\* code finalizes an attempt without clearing after it: an abort overtaken by a new attempt,
\* and a finalizer that runs between the attempt's store in curAttempt and its showing.
ConnectingEnds ==
    []<>(/\ \A i \in Made : attempts[i].finalized
         /\ connecting = NoSsid \/ ShownStranded)
=============================================================================
