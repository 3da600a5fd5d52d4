--------------------------- MODULE SleepInhibitor ---------------------------
(***************************************************************************)
(* The sleep inhibitor of the loginctl manager (core/internal/server/      *)
(* loginctl: manager.go, monitor.go, actions.go, handlers.go).             *)
(*                                                                         *)
(* The daemon holds a logind delay inhibitor so that the session can be    *)
(* locked before a suspend.  Four kinds of goroutine touch it:             *)
(*   - the signal pump, which handles D-Bus signals one at a time;         *)
(*   - a waiter per sleep cycle, blocked on that cycle's ready channel;    *)
(*   - the lock timer's function, the fallback when the locker is late;    *)
(*   - the handlers of socket requests (clients).                          *)
(* Releasing for a cycle is "check that the cycle is current, then drop";  *)
(* acquiring is "check the enabled flag, then take": the check and the     *)
(* act are separate steps here, as they are in the code.                   *)
(*                                                                         *)
(* logind is external: it announces a suspend and a resume, and a Lock     *)
(* call makes it emit the Lock signal.                                     *)
(***************************************************************************)
EXTENDS Naturals, Sequences

CONSTANTS
    Clients,         \* connections whose handlers may run concurrently
    MaxCycles,       \* bound: suspends
    MaxSignals,      \* bound: signals waiting for the pump
    MaxRequests,     \* bound: socket requests and locks or unlocks by others
    InhibitMayFail,  \* whether logind may refuse an inhibitor
    PathMayChange    \* whether the session's object path may change over a resume

ASSUME BoundsAssumption ==
    /\ MaxCycles \in Nat \ {0} /\ MaxSignals \in Nat \ {0} /\ MaxRequests \in Nat
    /\ InhibitMayFail \in BOOLEAN /\ PathMayChange \in BOOLEAN

None == 0
Cycles == 1 .. MaxCycles
Signals == {"Lock", "Unlock", "Sleep", "Wake", "OwnerChanged"}

VARIABLES
    suspending,    \* logind has announced a suspend and not yet a resume
    signals,       \* m.signals, the D-Bus signals not yet handled
    requests,      \* how many requests have been issued
    enabled,       \* m.sleepInhibitorEnabled
    lockFirst,     \* m.lockBeforeSuspend
    inCycle,       \* m.inSleepCycle
    cycle,         \* m.sleepCycleID
    held,          \* m.inhibitFile # nil
    readyCh,       \* the cycle whose channel m.lockerReadyCh is
    closedCh,      \* cycles whose ready channel has been closed
    lockTimer,     \* the cycle the running m.lockTimer is for
    fired,         \* cycles whose lock timer function has started
    dropping,      \* cycles whose lock timer function has passed its check
    waiter,        \* the goroutine waiting on each cycle's ready channel
    locked,        \* m.state.Locked
    preparing,     \* m.state.PreparingForSleep
    pump,          \* where the pump is in handleDBusSignal
    handling,      \* the signal it handles
    client         \* where each client's handler is

logindVars == <<suspending, requests>>
flagVars == <<enabled, lockFirst>>
cycleVars == <<inCycle, cycle>>
chVars == <<readyCh, closedCh>>
timerVars == <<lockTimer, fired, dropping>>
stateVars == <<locked, preparing>>
pumpVars == <<pump, handling>>
vars == <<logindVars, signals, flagVars, cycleVars, held, chVars, timerVars, waiter,
          stateVars, pumpVars, client>>

Init ==
    /\ suspending = FALSE /\ requests = 0 /\ signals = <<>>
    /\ enabled = TRUE /\ lockFirst \in BOOLEAN
    /\ inCycle = FALSE /\ cycle = 0
    /\ held \in IF InhibitMayFail THEN BOOLEAN ELSE {TRUE}
    /\ readyCh = None /\ closedCh = {}
    /\ lockTimer = None /\ fired = {} /\ dropping = {}
    /\ waiter = [c \in Cycles |-> "none"]
    /\ locked = FALSE /\ preparing = FALSE
    /\ pump = "idle" /\ handling = "none"
    /\ client = [c \in Clients |-> "idle"]

-----------------------------------------------------------------------------
(* logind and other programs.                                              *)

Suspend ==
    /\ ~ suspending /\ cycle < MaxCycles /\ Len(signals) < MaxSignals
    /\ \A i \in DOMAIN signals : signals[i] # "Sleep"
    /\ suspending' = TRUE
    /\ signals' = Append(signals, "Sleep")
    /\ UNCHANGED <<requests, flagVars, cycleVars, held, chVars, timerVars, waiter,
                   stateVars, pumpVars, client>>

\* The suspend is over (or logind gave up waiting and it was cancelled).
Resume ==
    /\ suspending /\ Len(signals) < MaxSignals
    /\ suspending' = FALSE
    /\ signals' = Append(signals, "Wake")
    /\ UNCHANGED <<requests, flagVars, cycleVars, held, chVars, timerVars, waiter,
                   stateVars, pumpVars, client>>

\* Somebody locks or unlocks the session, or logind is restarted.
External(sig) ==
    /\ sig \in {"Lock", "Unlock", "OwnerChanged"}
    /\ requests < MaxRequests /\ Len(signals) < MaxSignals
    /\ requests' = requests + 1
    /\ signals' = Append(signals, sig)
    /\ UNCHANGED <<suspending, flagVars, cycleVars, held, chVars, timerVars, waiter,
                   stateVars, pumpVars, client>>

-----------------------------------------------------------------------------
(* acquireSleepInhibitor, once the enabled flag has been seen set, and     *)
(* signalLockerReady.                                                      *)

Inhibit == held' \in IF held \/ ~ InhibitMayFail THEN {TRUE} ELSE BOOLEAN

\* Mutation: the channel is closed without looking whether there is one.
SignalReadyNoNilCheck ==
    /\ closedCh' = closedCh \cup {readyCh}
    /\ readyCh' = None

\* Mutation: the channel is dropped without being closed.
SignalReadyNoClose ==
    /\ readyCh' = None
    /\ UNCHANGED closedCh

\* Mutation: the closed channel stays in lockerReadyCh.
SignalReadyKeepsCh ==
    /\ closedCh' = closedCh \cup ({readyCh} \ {None})
    /\ UNCHANGED readyCh

SignalReady ==
    /\ closedCh' = closedCh \cup ({readyCh} \ {None})
    /\ readyCh' = None

-----------------------------------------------------------------------------
(* handleDBusSignal.                                                       *)

Take(sig) ==
    /\ pump = "idle"
    /\ signals # <<>>
    /\ Head(signals) = sig
    /\ handling' = sig

\* Lock: note it, and arm the fallback when a suspend waits for the locker.
HandleLock ==
    /\ Take("Lock")
    /\ signals' = Tail(signals)
    /\ locked' = TRUE
    /\ lockTimer' = IF enabled /\ inCycle THEN cycle ELSE lockTimer
    /\ UNCHANGED <<logindVars, flagVars, cycleVars, held, chVars, fired, dropping, waiter,
                   preparing, pump, client>>

HandleUnlock ==
    /\ Take("Unlock")
    /\ signals' = Tail(signals)
    /\ locked' = FALSE
    /\ lockTimer' = None
    /\ pump' = "testing"
    /\ UNCHANGED <<logindVars, flagVars, cycleVars, held, chVars, fired, dropping, waiter,
                   preparing, client>>

\* PrepareForSleep(true), up to the Lock call, whose signal comes back later.
HandleSleep ==
    /\ Take("Sleep")
    /\ cycle' = cycle + 1
    /\ inCycle' = TRUE
    /\ signals' = IF lockFirst THEN Append(Tail(signals), "Lock") ELSE Tail(signals)
    /\ pump' = "starting"
    /\ UNCHANGED <<logindVars, flagVars, held, chVars, timerVars, waiter, stateVars, client>>

\* newLockerReadyCh, the waiter, and the new state.
StartCycle ==
    /\ pump = "starting"
    /\ readyCh' = cycle
    /\ waiter' = [waiter EXCEPT ![cycle] = "blocked"]
    /\ preparing' = TRUE
    /\ pump' = "idle"
    /\ UNCHANGED <<logindVars, signals, flagVars, cycleVars, held, closedCh, timerVars,
                   locked, handling, client>>

\* Mutation: the sleep cycle is not ended by the resume.
HandleWakeStaysInCycle ==
    /\ Take("Wake")
    /\ signals' = Tail(signals)
    /\ UNCHANGED inCycle
    /\ pump' = "ending"
    /\ UNCHANGED <<logindVars, flagVars, cycle, held, chVars, timerVars, waiter, stateVars,
                   client>>

\* PrepareForSleep(false).
HandleWake ==
    /\ Take("Wake")
    /\ signals' = Tail(signals)
    /\ inCycle' = FALSE
    /\ pump' = "ending"
    /\ UNCHANGED <<logindVars, flagVars, cycle, held, chVars, timerVars, waiter, stateVars,
                   client>>

\* signalLockerReady and refreshSessionBinding: when the path has changed the
\* latter stops the pump, that is, the pump waits for itself.
EndCycle ==
    /\ pump = "ending"
    /\ SignalReady
    /\ pump' \in {"testing"} \cup IF PathMayChange THEN {"stuck"} ELSE {}
    /\ UNCHANGED <<logindVars, signals, flagVars, cycleVars, held, timerVars, waiter,
                   stateVars, handling, client>>

\* NameOwnerChanged of logind.
HandleOwner ==
    /\ Take("OwnerChanged")
    /\ signals' = Tail(signals)
    /\ pump' = IF inCycle THEN "idle" ELSE "testing"
    /\ UNCHANGED <<logindVars, flagVars, cycleVars, held, chVars, timerVars, waiter,
                   stateVars, client>>

\* The end of a handler: a resume clears PreparingForSleep last.
Return ==
    /\ pump' = "idle"
    /\ preparing' = IF handling = "Wake" THEN FALSE ELSE preparing
    /\ UNCHANGED <<logindVars, signals, flagVars, cycleVars, chVars, timerVars, waiter,
                   locked, handling, client>>

PumpTest ==
    /\ pump = "testing"
    /\ UNCHANGED held
    /\ IF enabled
         THEN /\ pump' = "acquiring"
              /\ UNCHANGED <<logindVars, signals, flagVars, cycleVars, chVars, timerVars,
                             waiter, stateVars, handling, client>>
         ELSE Return

PumpAcquire ==
    /\ pump = "acquiring"
    /\ Inhibit
    /\ Return

PumpStep ==
    \/ HandleLock \/ HandleUnlock \/ HandleOwner
    \/ HandleSleep \/ StartCycle
    \/ HandleWake \/ EndCycle
    \/ PumpTest \/ PumpAcquire

-----------------------------------------------------------------------------
(* The waiters and the lock timer's function: check the cycle, then drop.  *)

Current(c) == inCycle /\ cycle = c

Release ==
    /\ held' = FALSE
    /\ UNCHANGED <<logindVars, signals, flagVars, cycleVars, chVars, stateVars, pumpVars>>

WaiterCheck(c) ==
    /\ waiter[c] = "blocked" /\ c \in closedCh
    /\ waiter' = [waiter EXCEPT ![c] = IF Current(c) THEN "dropping" ELSE "gone"]
    /\ UNCHANGED <<logindVars, signals, flagVars, cycleVars, held, chVars, timerVars,
                   stateVars, pumpVars, client>>

WaiterDrop(c) ==
    /\ waiter[c] = "dropping"
    /\ waiter' = [waiter EXCEPT ![c] = "gone"]
    /\ Release
    /\ UNCHANGED <<timerVars, client>>

TimerFires ==
    /\ lockTimer # None
    /\ fired' = fired \cup {lockTimer}
    /\ lockTimer' = None
    /\ UNCHANGED <<logindVars, signals, flagVars, cycleVars, held, chVars, dropping, waiter,
                   stateVars, pumpVars, client>>

TimerCheck(c) ==
    /\ c \in fired
    /\ fired' = fired \ {c}
    /\ dropping' = IF Current(c) THEN dropping \cup {c} ELSE dropping
    /\ UNCHANGED <<logindVars, signals, flagVars, cycleVars, held, chVars, lockTimer, waiter,
                   stateVars, pumpVars, client>>

TimerDrop(c) ==
    /\ c \in dropping
    /\ dropping' = dropping \ {c}
    /\ Release
    /\ UNCHANGED <<lockTimer, fired, waiter, client>>

GoroutineStep(c) ==
    WaiterCheck(c) \/ WaiterDrop(c) \/ TimerCheck(c) \/ TimerDrop(c)

-----------------------------------------------------------------------------
(* Socket requests.                                                        *)

Begin(p, next) ==
    /\ client[p] = "idle"
    /\ requests < MaxRequests
    /\ requests' = requests + 1
    /\ client' = [client EXCEPT ![p] = next]

Continue(p, from, next) ==
    /\ client[p] = from
    /\ client' = [client EXCEPT ![p] = next]

SetLockBeforeSuspend(p, b) ==
    /\ Begin(p, "idle")
    /\ lockFirst' = b
    /\ UNCHANGED <<suspending, signals, enabled, cycleVars, held, chVars, timerVars, waiter,
                   stateVars, pumpVars>>

\* SetSleepInhibitorEnabled: store the flag, then acquire or release.
SetEnabled(p, b) ==
    /\ Begin(p, IF b THEN "testing" ELSE "releasing")
    /\ enabled' = b
    /\ UNCHANGED <<suspending, signals, lockFirst, cycleVars, held, chVars, timerVars, waiter,
                   stateVars, pumpVars>>

ClientTest(p) ==
    /\ Continue(p, "testing", IF enabled THEN "acquiring" ELSE "idle")
    /\ UNCHANGED <<logindVars, signals, flagVars, cycleVars, held, chVars, timerVars, waiter,
                   stateVars, pumpVars>>

ClientAcquire(p) ==
    /\ Continue(p, "acquiring", "idle")
    /\ Inhibit
    /\ UNCHANGED <<logindVars, signals, flagVars, cycleVars, chVars, timerVars, waiter,
                   stateVars, pumpVars>>

ClientRelease(p) ==
    /\ Continue(p, "releasing", "idle")
    /\ Release
    /\ UNCHANGED <<timerVars, waiter>>

\* Mutation: the locker's handler returns once it has stopped the timer.
LockerReadyStopsOnly(p) ==
    /\ locked
    /\ Begin(p, "idle")
    /\ lockTimer' = None
    /\ UNCHANGED <<suspending, signals, flagVars, cycleVars, held, chVars, fired, dropping,
                   waiter, stateVars, pumpVars>>

\* handleLockerReady; the locker sends it once the lock screen is drawn.
LockerReady(p) ==
    /\ locked
    /\ Begin(p, "readyCheck")
    /\ lockTimer' = None
    /\ UNCHANGED <<suspending, signals, flagVars, cycleVars, held, chVars, fired, dropping,
                   waiter, stateVars, pumpVars>>

\* releaseForCycle of the current cycle.
ReadyCheck(p) ==
    /\ Continue(p, "readyCheck", IF inCycle THEN "readyDrop" ELSE "readySignal")
    /\ UNCHANGED <<logindVars, signals, flagVars, cycleVars, held, chVars, timerVars, waiter,
                   stateVars, pumpVars>>

ReadyDrop(p) ==
    /\ Continue(p, "readyDrop", "readySignal")
    /\ Release
    /\ UNCHANGED <<timerVars, waiter>>

ReadySignal(p) ==
    /\ Continue(p, "readySignal", IF inCycle THEN "readyClose" ELSE "idle")
    /\ UNCHANGED <<logindVars, signals, flagVars, cycleVars, held, chVars, timerVars, waiter,
                   stateVars, pumpVars>>

\* By now the channel may be the next cycle's.
ReadyClose(p) ==
    /\ Continue(p, "readyClose", "idle")
    /\ SignalReady
    /\ UNCHANGED <<logindVars, signals, flagVars, cycleVars, held, timerVars, waiter,
                   stateVars, pumpVars>>

ClientStep(p) ==
    \/ ClientTest(p) \/ ClientAcquire(p) \/ ClientRelease(p)
    \/ ReadyCheck(p) \/ ReadyDrop(p) \/ ReadySignal(p) \/ ReadyClose(p)

-----------------------------------------------------------------------------
Environment ==
    \/ Suspend \/ Resume
    \/ \E sig \in Signals : External(sig)
    \/ \E p \in Clients, b \in BOOLEAN : SetLockBeforeSuspend(p, b) \/ SetEnabled(p, b)
    \/ \E p \in Clients : LockerReady(p)

Next ==
    \/ Environment
    \/ PumpStep
    \/ TimerFires
    \/ \E c \in Cycles : GoroutineStep(c)
    \/ \E p \in Clients : ClientStep(p)

Spec == Init /\ [][Next]_vars

\* Runnable goroutines run, the timer expires, handlers return; nothing makes
\* logind or a client issue anything.
Fairness ==
    /\ WF_vars(PumpStep)
    /\ WF_vars(TimerFires)
    /\ \A c \in Cycles : WF_vars(GoroutineStep(c))
    /\ \A p \in Clients : WF_vars(ClientStep(p))

FairSpec == Spec /\ Fairness

-----------------------------------------------------------------------------
\* The variables range over what the program can hold; the pump's program
\* counter agrees with the signal it handles.
TypeOK ==
    /\ suspending \in BOOLEAN /\ requests \in 0 .. MaxRequests
    /\ signals \in Seq(Signals)
    /\ enabled \in BOOLEAN /\ lockFirst \in BOOLEAN /\ inCycle \in BOOLEAN
    /\ cycle \in 0 .. MaxCycles /\ held \in BOOLEAN
    /\ readyCh \in Cycles \cup {None} /\ closedCh \in SUBSET Cycles
    /\ lockTimer \in Cycles \cup {None}
    /\ fired \in SUBSET Cycles /\ dropping \in SUBSET Cycles
    /\ waiter \in [Cycles -> {"none", "blocked", "dropping", "gone"}]
    /\ locked \in BOOLEAN /\ preparing \in BOOLEAN
    /\ pump \in {"idle", "starting", "ending", "testing", "acquiring", "stuck"}
    /\ handling \in Signals \cup {"none"}
    /\ client \in [Clients -> {"idle", "testing", "acquiring", "releasing", "readyCheck",
                               "readyDrop", "readySignal", "readyClose"}]

\* m.lockerReadyCh is never a closed channel (signalLockerReady, called by the
\* pump and by handlers, would panic closing it again), and every waiter still
\* blocked waits on it or on a closed channel: none is leaked.
ReadyChannelSound ==
    /\ readyCh \notin closedCh
    /\ \A c \in Cycles : waiter[c] = "blocked" => c = readyCh \/ c \in closedCh

\* Once the pump has handled every signal, the manager's idea of a sleep cycle
\* and the PreparingForSleep it publishes are logind's.
CycleFollowsLogind ==
    pump = "idle" /\ signals = <<>> => inCycle = suspending /\ preparing = inCycle

\* An armed fallback is never lost: once the lock timer runs for the current
\* cycle, the inhibitor is released, unless the cycle ends or the session is
\* unlocked first.  (The locker's request stops the timer, so it must itself
\* release.)
ArmedFallbackReleases ==
    lockTimer # None /\ Current(lockTimer) ~> ~ held \/ ~ inCycle \/ ~ locked

\* No waiter outlives its cycle: after the resume it is gone for good.
WaitersEnd ==
    \A c \in Cycles : waiter[c] = "blocked" /\ ~ Current(c) ~> waiter[c] = "gone"

\* All signals are handled and no goroutine is between a check and its act.
AtRest ==
    /\ signals = <<>> /\ pump = "idle" /\ fired = {} /\ dropping = {}
    /\ \A c \in Cycles : waiter[c] = "blocked" => c \notin closedCh
    /\ \A c \in Cycles : waiter[c] # "dropping"
    /\ \A p \in Clients : client[p] = "idle"

\* "Re-acquire the sleep inhibitor": after an unlock or a resume an enabled
\* inhibitor is held again, unless logind refused it.
ReacquiredAtRest == AtRest /\ enabled /\ ~ inCycle => held

\* After PrepareForSleep(false) has been handled, PreparingForSleep is false.
ResumeHandled == ~ suspending ~> ~ preparing \/ suspending

=============================================================================
