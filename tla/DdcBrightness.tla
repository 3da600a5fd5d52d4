----------------------------- MODULE DdcBrightness -----------------------------
(***************************************************************************)
(* The brightness of external monitors (internal/server/brightness: ddc.go *)
(* and manager.go).                                                        *)
(*                                                                         *)
(* Writing to a monitor's bus is slow, so a change is kept pending and a   *)
(* timer writes it 200 ms after the last one.  A timer that can still be   *)
(* stopped is replaced by the next change's; one that has fired runs in a  *)
(* goroutine of its own and takes whatever is pending then.  The wait      *)
(* group counts the timers that are to run or running; the command line    *)
(* waits for it before it exits.                                           *)
(*                                                                         *)
(* The published state is rebuilt in two steps (the devices are read, then *)
(* the state is stored) by every goroutine that wrote, by every rescan and *)
(* by a setter whose change was refused.  A monitor keeps its brightness   *)
(* when it is unplugged, its buttons are left alone, and its brightness    *)
(* can be read when it is found; a write to it may fail.                   *)
(***************************************************************************)
EXTENDS Integers, FiniteSets

CONSTANTS
    Devices, Percents,   \* monitors, values asked for
    Unset,               \* no value
    Callers,             \* goroutines that serve requests
    MaxSets,             \* bound on changes, each of which makes a timer
    MaxDdcEvents         \* bound on changes, monitors that come and go, and rescans

ASSUME DdcAssumption ==
    /\ Percents # {} /\ Unset \notin Percents /\ "not read" \notin Percents \cup {Unset}
    /\ MaxSets \in Nat /\ MaxDdcEvents \in Nat /\ Callers \cap 0..MaxSets = {}

Timers == 1..MaxSets
Updaters == Timers \cup Callers \cup {0}   \* who rebuilds the state; 0: a rescan

VARIABLES
    debouncePending,   \* for each device, the value to write
    debounceTimers,    \* for each device, its timer in the map, 0: none
    timer,             \* the timers that are to run or running
    debounceWg,        \* the wait group's counter
    scanned,           \* b.devices: the devices known ...
    lastBrightness,    \* ... and the value each is believed to show
    onBus, shown,      \* the monitors that are there, what each one shows
    deviceState,       \* m.state, for each device
    setter,            \* what each request still has to do
    seenDevices,       \* for each updater, what it read of the devices
    sets, hotplugs,
    lastSet,           \* history: the value last asked for,
    overlappedSet,        \* it was taken while another was being written,
    failedSet,         \* writing it failed,
    outrun, outdated   \* updaters outrun by another; such a one stored the state last

ddcVars == <<debouncePending, debounceTimers, timer, debounceWg, scanned, lastBrightness, onBus,
             shown, deviceState, setter, seenDevices, sets, hotplugs, lastSet, overlappedSet,
             failedSet, outrun, outdated>>
busVars == <<scanned, lastBrightness, onBus, shown>>
debounceVars == <<debouncePending, debounceTimers, debounceWg, lastSet>>
publishedVars == <<deviceState, seenDevices, outrun, outdated>>
boundVars == <<sets, hotplugs>>

NoTimerSet == [st |-> "none", dev |-> CHOOSE d \in Devices : TRUE, value |-> Unset]
Ready == [st |-> "ready", dev |-> CHOOSE d \in Devices : TRUE, value |-> Unset]
NotRead == [d \in Devices |-> "not read"]
Absent == [current |-> Unset, percent |-> Unset]

Writing(d) == {t \in Timers : timer[t].dev = d /\ timer[t].st \in {"open", "write", "store"}}
-----------------------------------------------------------------------------
(* scanI2CDevicesInternal: known devices are left alone, the others probed. *)

Scan ==
    /\ scanned' = onBus
    /\ lastBrightness' = [d \in Devices |-> IF d \in onBus \ scanned THEN shown[d]
                                            ELSE lastBrightness[d]]
    /\ UNCHANGED <<onBus, shown>>

\* updateState, first half: GetDevices, which scans unless it did within 30 s.
ReadDevices(u) ==
    /\ Scan \/ UNCHANGED busVars
    /\ seenDevices' = [seenDevices EXCEPT ![u] =
          [d \in Devices |-> IF d \in scanned' THEN lastBrightness'[d] ELSE Unset]]
    /\ outrun' = outrun \ {u}
    /\ UNCHANGED <<deviceState, outdated>>

\* Second half: stored only if a device, or what it shows, is another (stateChanged).
StoreState(u) ==
    /\ deviceState' = IF \E d \in Devices : seenDevices[u][d] # deviceState[d].current
                      THEN [d \in Devices |-> [current |-> seenDevices[u][d],
                                               percent |-> seenDevices[u][d]]]
                      ELSE deviceState
    /\ seenDevices' = [seenDevices EXCEPT ![u] = NotRead]
    /\ outdated' = (u \in outrun)
    /\ outrun' = {w \in Updaters \ {u} : seenDevices[w] # NotRead}
-----------------------------------------------------------------------------
(* SetBrightnessWithExponent, the manager's and the backend's.             *)

SetterGoes(c, st) == setter' = [setter EXCEPT ![c].st = st]

\* The published percentage changes at once; a device that is not published is refused.
AskBrightness(c, d, v) ==
    /\ setter[c].st = "ready" /\ deviceState[d] # Absent
    /\ sets < MaxSets /\ sets + hotplugs < MaxDdcEvents   \* bounds MaxSets, MaxDdcEvents
    /\ sets' = sets + 1
    /\ deviceState' = [deviceState EXCEPT ![d].percent = v]
    /\ setter' = [setter EXCEPT ![c] = [st |-> "find", dev |-> d, value |-> v]]
    /\ UNCHANGED <<busVars, debounceVars, timer, seenDevices, outrun, outdated, hotplugs,
                   overlappedSet, failedSet>>

\* The backend looks the device up, after a forced rescan if need be.
FindDevice(c) ==
    /\ setter[c].st = "find"
    /\ IF setter[c].dev \in scanned THEN UNCHANGED busVars ELSE Scan
    /\ IF setter[c].dev \in scanned' THEN SetterGoes(c, "debounce")
       ELSE setter' = [setter EXCEPT ![c] = [Ready EXCEPT !.st = "refused"]]
    /\ UNCHANGED <<debounceVars, timer, publishedVars, boundVars, overlappedSet, failedSet>>

Unused == CHOOSE t \in Timers : timer[t].st = "none"

\* Mutation: a change that finds a timer leaves the first value pending.
DebounceKeepingFirst(c) ==
    LET d == setter[c].dev
        v == setter[c].value
        old == debounceTimers[d]
        stops == old # 0 /\ timer[old].st = "armed"
        t == Unused
    IN  /\ setter[c].st = "debounce"
        /\ debouncePending' = [debouncePending EXCEPT ![d] = IF old # 0 THEN @ ELSE v]
        /\ timer' = [s \in Timers |->
              IF s = t THEN [st |-> "armed", dev |-> d, value |-> Unset]
              ELSE IF stops /\ s = old THEN NoTimerSet ELSE timer[s]]
        /\ debounceTimers' = [debounceTimers EXCEPT ![d] = t]
        /\ debounceWg' = debounceWg + (IF stops THEN 0 ELSE 1)
        /\ lastSet' = [lastSet EXCEPT ![d] = v]
        /\ setter' = [setter EXCEPT ![c] = Ready]
        /\ UNCHANGED <<busVars, publishedVars, boundVars, overlappedSet, failedSet>>

\* Under debounceMutex: the value is pending, the timer found is stopped and counted off
\* if it had not fired, and a new one takes its place in the map.
Debounce(c) ==
    LET d == setter[c].dev
        v == setter[c].value
        old == debounceTimers[d]
        stops == old # 0 /\ timer[old].st = "armed"
        t == Unused
    IN  /\ setter[c].st = "debounce"
        /\ debouncePending' = [debouncePending EXCEPT ![d] = v]
        /\ timer' = [s \in Timers |->
              IF s = t THEN [st |-> "armed", dev |-> d, value |-> Unset]
              ELSE IF stops /\ s = old THEN NoTimerSet ELSE timer[s]]
        /\ debounceTimers' = [debounceTimers EXCEPT ![d] = t]
        /\ debounceWg' = debounceWg + (IF stops THEN 0 ELSE 1)
        /\ lastSet' = [lastSet EXCEPT ![d] = v]
        /\ setter' = [setter EXCEPT ![c] = Ready]
        /\ UNCHANGED <<busVars, publishedVars, boundVars, overlappedSet, failedSet>>

\* A change that was refused rebuilds the state.
RefusedRead(c) ==
    /\ setter[c].st = "refused" /\ ReadDevices(c) /\ SetterGoes(c, "restore")
    /\ UNCHANGED <<debounceVars, timer, boundVars, overlappedSet, failedSet>>
RefusedStore(c) ==
    /\ setter[c].st = "restore" /\ StoreState(c) /\ setter' = [setter EXCEPT ![c] = Ready]
    /\ UNCHANGED <<busVars, debounceVars, timer, boundVars, overlappedSet, failedSet>>
-----------------------------------------------------------------------------
(* The timer's function, and setBrightnessImmediateWithExponent.           *)

TimerGoes(t, st) == timer' = [timer EXCEPT ![t].st = st]
TimerCallsBack(t) == timer' = [timer EXCEPT ![t].st = "read", ![t].value = Unset]

\* The timer fires: from now on Stop fails.
Fire(t) ==
    /\ timer[t].st = "armed" /\ TimerGoes(t, "fired")
    /\ UNCHANGED <<busVars, debounceVars, publishedVars, setter, boundVars, overlappedSet,
                   failedSet>>

\* Under debounceMutex it takes what is pending, and the device's timer out of the map,
\* be it this one or the one that replaced it.
TakePending(t) ==
    LET d == timer[t].dev
        v == debouncePending[d]
    IN  /\ timer[t].st = "fired"
        /\ debouncePending' = [debouncePending EXCEPT ![d] = Unset]
        /\ debounceTimers' = [debounceTimers EXCEPT ![d] = 0]
        /\ timer' = [timer EXCEPT ![t] = IF v = Unset THEN NoTimerSet
                                         ELSE [st |-> "open", dev |-> d, value |-> v]]
        /\ debounceWg' = IF v = Unset THEN debounceWg - 1 ELSE debounceWg
        /\ overlappedSet' = [overlappedSet EXCEPT ![d] = IF v = Unset THEN @ ELSE Writing(d) # {}]
        /\ failedSet' = [failedSet EXCEPT ![d] = IF v = Unset THEN @ ELSE FALSE]
        /\ UNCHANGED <<busVars, publishedVars, setter, boundVars, lastSet>>

\* An unknown device is looked for; one whose bus is gone is forgotten.
OpenBus(t) ==
    LET d == timer[t].dev
    IN  /\ timer[t].st = "open"
        /\ IF d \notin scanned THEN Scan
           ELSE /\ scanned' = IF d \in onBus THEN scanned ELSE scanned \ {d}
                /\ UNCHANGED <<lastBrightness, onBus, shown>>
        /\ IF d \in onBus THEN TimerGoes(t, "write") ELSE TimerCallsBack(t)
        /\ failedSet' = [failedSet EXCEPT ![d] = @ \/ d \notin onBus]
        /\ UNCHANGED <<debounceVars, publishedVars, setter, boundVars, overlappedSet>>

WriteBus(t) ==
    LET d == timer[t].dev
    IN  /\ timer[t].st = "write"
        /\ \/ /\ d \in onBus
              /\ shown' = [shown EXCEPT ![d] = timer[t].value]
              /\ TimerGoes(t, "store") /\ UNCHANGED failedSet
           \/ /\ failedSet' = [failedSet EXCEPT ![d] = TRUE]
              /\ TimerCallsBack(t) /\ UNCHANGED shown
        /\ UNCHANGED <<scanned, lastBrightness, onBus, debounceVars, publishedVars, setter,
                       boundVars, overlappedSet>>

\* The device object read before the write is stored, even if it was forgotten meanwhile.
StoreDevice(t) ==
    LET d == timer[t].dev
    IN  /\ timer[t].st = "store"
        /\ scanned' = scanned \cup {d}
        /\ lastBrightness' = [lastBrightness EXCEPT ![d] = timer[t].value]
        /\ TimerCallsBack(t)
        /\ UNCHANGED <<onBus, shown, debounceVars, publishedVars, setter, boundVars, overlappedSet,
                       failedSet>>

\* The callback, run after a failure as well, rebuilds the state; then the count goes down.
CallbackRead(t) ==
    /\ timer[t].st = "read" /\ ReadDevices(t) /\ TimerGoes(t, "publish")
    /\ UNCHANGED <<debounceVars, setter, boundVars, overlappedSet, failedSet>>
CallbackStore(t) ==
    /\ timer[t].st = "publish" /\ StoreState(t) /\ timer' = [timer EXCEPT ![t] = NoTimerSet]
    /\ debounceWg' = debounceWg - 1
    /\ UNCHANGED <<busVars, debouncePending, debounceTimers, lastSet, setter, boundVars,
                   overlappedSet, failedSet>>
-----------------------------------------------------------------------------
(* Monitors come and go; Rescan, on request or after a udev event.         *)

Hotplug(d) ==
    /\ sets + hotplugs < MaxDdcEvents   \* bound MaxDdcEvents
    /\ hotplugs' = hotplugs + 1
    /\ onBus' = IF d \in onBus THEN onBus \ {d} ELSE onBus \cup {d}
    /\ UNCHANGED <<scanned, lastBrightness, shown, debounceVars, timer, publishedVars, setter, sets,
                   overlappedSet, failedSet>>

Rescan ==
    /\ seenDevices[0] = NotRead
    /\ sets + hotplugs < MaxDdcEvents   \* bound MaxDdcEvents
    /\ hotplugs' = hotplugs + 1
    /\ Scan
    /\ seenDevices' = [seenDevices EXCEPT ![0] =
          [d \in Devices |-> IF d \in scanned' THEN lastBrightness'[d] ELSE Unset]]
    /\ outrun' = outrun \ {0}
    /\ UNCHANGED <<debounceVars, timer, deviceState, outdated, setter, sets, overlappedSet,
                   failedSet>>
RescanStore ==
    /\ seenDevices[0] # NotRead /\ StoreState(0)
    /\ UNCHANGED <<busVars, debounceVars, timer, setter, boundVars, overlappedSet, failedSet>>

DdcInit ==
    /\ debouncePending = [d \in Devices |-> Unset] /\ debounceTimers = [d \in Devices |-> 0]
    /\ timer = [t \in Timers |-> NoTimerSet] /\ debounceWg = 0
    /\ shown = [d \in Devices |-> CHOOSE v \in Percents : TRUE] /\ lastBrightness = shown
    /\ onBus = Devices /\ scanned = Devices
    /\ deviceState = [d \in Devices |-> [current |-> shown[d], percent |-> shown[d]]]
    /\ setter = [c \in Callers |-> Ready] /\ seenDevices = [u \in Updaters |-> NotRead]
    /\ sets = 0 /\ hotplugs = 0
    /\ lastSet = [d \in Devices |-> Unset] /\ overlappedSet = [d \in Devices |-> FALSE]
    /\ failedSet = [d \in Devices |-> FALSE] /\ outrun = {} /\ outdated = FALSE

SetStep(c) ==
    \/ \E d \in Devices, v \in Percents : AskBrightness(c, d, v)
    \/ FindDevice(c) \/ Debounce(c) \/ RefusedRead(c) \/ RefusedStore(c)

TimerStep(t) ==
    \/ Fire(t) \/ TakePending(t) \/ OpenBus(t) \/ WriteBus(t) \/ StoreDevice(t)
    \/ CallbackRead(t) \/ CallbackStore(t)

DdcNext ==
    \/ \E c \in Callers : SetStep(c)
    \/ \E t \in Timers : TimerStep(t)
    \/ \E d \in Devices : Hotplug(d)
    \/ Rescan \/ RescanStore

DdcSpec == DdcInit /\ [][DdcNext]_ddcVars
-----------------------------------------------------------------------------
DdcTypeOK ==
    /\ debouncePending \in [Devices -> Percents \cup {Unset}]
    /\ debounceTimers \in [Devices -> Timers \cup {0}]
    /\ debounceWg \in 0..MaxSets
    /\ scanned \subseteq Devices /\ onBus \subseteq Devices
    /\ deviceState \in
          [Devices -> [current : Percents \cup {Unset}, percent : Percents \cup {Unset}]]
    /\ outrun \subseteq Updaters

\* Safety: when the wait group has gone to zero (what the command line waits for) no value
\* is pending and the last one asked for has been written, whichever timers were stopped,
\* had fired already or took each other's place; unless its write failed, or was under way
\* together with another.  And when nothing is rebuilding the state, the state says so too,
\* unless the rebuilding that stored it had been outrun by another.
WrittenAll == debounceWg = 0 /\ \A c \in Callers : setter[c].st = "ready"
LastSetIsShown ==
    WrittenAll =>
        \A d \in Devices :
            /\ debouncePending[d] = Unset
            /\ lastSet[d] # Unset /\ d \in scanned /\ ~overlappedSet[d] /\ ~failedSet[d] =>
                  /\ shown[d] = lastSet[d]
                  /\ (\A u \in Updaters : seenDevices[u] = NotRead) /\ ~outdated
                         => deviceState[d].current = lastSet[d]
=============================================================================
