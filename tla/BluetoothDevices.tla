---------------------------- MODULE BluetoothDevices ----------------------------
(***************************************************************************)
(* The devices the Bluetooth manager publishes, and the pairings it is     *)
(* asked for (core/internal/server/bluez/manager.go).                      *)
(*                                                                         *)
(* BlueZ is external: devices come and go, are paired, trusted and         *)
(* forgotten, each change with a signal.  Four kinds of goroutine use it:  *)
(*   - the signal pump only takes notes: it marks the state dirty or       *)
(*     queues an event, dropping it when the queue is full;                *)
(*   - the event worker trusts a device that was paired on request, or     *)
(*     reads the devices anew;                                             *)
(*   - the notifier reads them too, a moment after a mark, and tells the   *)
(*     subscribers when it sees a difference;                              *)
(*   - handlers of pairing requests wait for BlueZ's answer.               *)
(* Reading the devices and storing them are separate steps, and a read may *)
(* fail.  NewManager reads them once before it subscribes to the signals,  *)
(* one kind after the other.  A device is trusted only once it is paired;  *)
(* that it is connected, which BlueZ reports like the rest, is left out.   *)
(***************************************************************************)
EXTENDS Naturals, Sequences

CONSTANTS
    BtDevices,     \* the devices in reach
    Pairers,       \* the connections that ask for a pairing
    MaxPairs,      \* bound: pairing requests
    MaxBtChanges,  \* bound: changes BlueZ makes unasked
    QueueCap       \* capacity of m.eventQueue

ASSUME BluetoothAssumption ==
    BtDevices # {} /\ MaxPairs \in Nat /\ MaxBtChanges \in Nat /\ QueueCap \in Nat \ {0}

Facts == {"absent", "present", "paired", "trusted"}
Lists == [BtDevices -> Facts]

\* What each kind of signal is about: a device appears or vanishes, its Paired becomes true
\* or false, its Trusted changes.
BtSignals == [what : {"objects", "paired", "unpaired", "trusted"}, dev : BtDevices]
Events == [do : {"trust", "update"}, dev : BtDevices]

VARIABLES
    bluez,           \* the devices as BlueZ has them
    btSignals,       \* m.signals
    pairs,           \* how many pairing requests were made
    btChanges,       \* how many changes BlueZ has made unasked
    pairer,          \* where each PairDevice is, and for which device
    pendingPairings, \* m.pendingPairings
    btPump,          \* what the signal pump has still to queue
    eventQueue,      \* m.eventQueue
    worker,          \* where the event worker is
    workerDev,       \* the device it is to trust
    workerRead,      \* the devices it has read
    notifier,        \* where the notifier is
    notifierRead,    \* the devices it has read
    btDirty,         \* m.dirty holds a mark
    devices,         \* m.state.Devices
    told,            \* m.lastNotifiedState # nil
    known,           \* what a subscriber that keeps reading knows
    startup,         \* the call NewManager makes next
    missed           \* history: since the notifier's last read, has it failed to read,
                     \* or has BlueZ made a change without a signal?

bluezVars == <<bluez, btSignals, btChanges, startup>>
pairVars == <<pairs, pairer, pendingPairings>>
workerVars == <<worker, workerDev, workerRead>>
notifierVars == <<notifier, notifierRead, told, known, missed>>
btVars == <<bluezVars, pairVars, btPump, eventQueue, workerVars, notifierVars, btDirty, devices>>

NoEvents == <<>>
NoDevices == [d \in BtDevices |-> "absent"]
NoPairing == [pc |-> "idle", dev |-> CHOOSE d \in BtDevices : TRUE]

BtInit ==
    /\ bluez \in Lists /\ startup = "read" /\ missed = FALSE
    /\ btSignals = <<>> /\ pairs = 0 /\ btChanges = 0
    /\ pairer = [c \in Pairers |-> NoPairing] /\ pendingPairings = {}
    /\ btPump = NoEvents /\ eventQueue = <<>>
    /\ worker = "idle" /\ workerDev = NoPairing.dev /\ workerRead = NoDevices
    /\ notifier = "idle" /\ notifierRead = NoDevices /\ btDirty = FALSE
    /\ devices = NoDevices /\ told = FALSE /\ known = NoDevices

-----------------------------------------------------------------------------
(* NewManager: initialize reads the devices; startAgent talks to BlueZ;    *)
(* then startSignalPump subscribes to the changes of properties, to        *)
(* devices that appear and to devices that vanish.  When one of the calls  *)
(* fails there is no manager.                                              *)

BtRead ==
    /\ startup = "read" /\ startup' = "properties"
    /\ devices' = bluez /\ known' = bluez /\ missed' = FALSE
    /\ UNCHANGED <<bluez, btSignals, btChanges, pairVars, btPump, eventQueue, workerVars, notifier,
                   notifierRead, told, btDirty>>

BtSubscribe ==
    /\ \/ startup = "properties" /\ startup' = "added"
       \/ startup = "added" /\ startup' = "removed"
       \/ startup = "removed" /\ startup' = "done"
    /\ UNCHANGED <<bluez, btSignals, btChanges, pairVars, btPump, eventQueue, workerVars,
                   notifierVars, btDirty, devices>>

-----------------------------------------------------------------------------
(* BlueZ.                                                                  *)

Paired(fact) == fact \in {"paired", "trusted"}

Signal(was, is) ==
    IF was = "absent" \/ is = "absent" THEN "objects"
    ELSE IF Paired(was) = Paired(is) THEN "trusted"
    ELSE IF Paired(is) THEN "paired" ELSE "unpaired"

BtBecomes(d, fact) ==
    /\ bluez[d] # fact
    /\ bluez' = [bluez EXCEPT ![d] = fact]
    /\ btSignals' = Append(btSignals, [what |-> Signal(bluez[d], fact), dev |-> d])

\* Has the manager subscribed to the signal of the change?
Heard(was, is) ==
    /\ startup \notin {"read", "properties"}
    /\ was = "absent" => startup # "added"
    /\ is = "absent" => startup = "done"

\* Another program, the device itself or its distance.
BtChange(d, fact) ==
    /\ btChanges < MaxBtChanges
    /\ btChanges' = btChanges + 1
    /\ Heard(bluez[d], fact) /\ BtBecomes(d, fact)
    /\ UNCHANGED <<startup, pairVars, btPump, eventQueue, workerVars, notifierVars, btDirty,
                   devices>>

BtChangeUnheard(d, fact) ==
    /\ btChanges < MaxBtChanges
    /\ btChanges' = btChanges + 1
    /\ bluez[d] # fact /\ ~Heard(bluez[d], fact)
    /\ bluez' = [bluez EXCEPT ![d] = fact]
    /\ missed' = TRUE
    /\ UNCHANGED <<btSignals, startup, pairVars, btPump, eventQueue, workerVars, notifier,
                   notifierRead, told, known, btDirty, devices>>

-----------------------------------------------------------------------------
(* PairDevice.                                                             *)

MovePairer(c, from, to) ==
    /\ pairer[c].pc = from
    /\ pairer' = [pairer EXCEPT ![c] = IF to = "idle" THEN NoPairing ELSE [@ EXCEPT !.pc = to]]

PairStore(c, d) ==
    /\ startup = "done"
    /\ pairs < MaxPairs /\ pairs' = pairs + 1
    /\ pairer[c].pc = "idle"
    /\ pairer' = [pairer EXCEPT ![c] = [pc |-> "stored", dev |-> d]]
    /\ pendingPairings' = pendingPairings \cup {d}
    /\ UNCHANGED <<bluezVars, btPump, eventQueue, workerVars, notifierVars, btDirty, devices>>

\* BlueZ refuses at once what it does not see, has paired already or is pairing.
PairCall(c) ==
    /\ LET d == pairer[c].dev
           busy == \E b \in Pairers : pairer[b].pc = "calling" /\ pairer[b].dev = d
       IN  MovePairer(c, "stored", IF bluez[d] = "present" /\ ~busy THEN "calling" ELSE "failed")
    /\ UNCHANGED <<bluezVars, pairs, pendingPairings, btPump, eventQueue, workerVars,
                   notifierVars, btDirty, devices>>

PairSucceeds(c) ==
    /\ MovePairer(c, "calling", "idle")
    /\ bluez[pairer[c].dev] = "present"
    /\ BtBecomes(pairer[c].dev, "paired")
    /\ UNCHANGED <<btChanges, startup, pairs, pendingPairings, btPump, eventQueue, workerVars,
                   notifierVars, btDirty, devices>>

\* The user or the device declines, or it is out of reach.
PairFails(c) ==
    /\ MovePairer(c, "calling", "failed")
    /\ UNCHANGED <<bluezVars, pairs, pendingPairings, btPump, eventQueue, workerVars,
                   notifierVars, btDirty, devices>>

\* Mutation: a failed request stays pending.
PairForgetNothing(c) ==
    /\ MovePairer(c, "failed", "idle")
    /\ UNCHANGED <<bluezVars, pairs, pendingPairings, btPump, eventQueue, workerVars,
                   notifierVars, btDirty, devices>>

PairForget(c) ==
    /\ MovePairer(c, "failed", "idle")
    /\ pendingPairings' = pendingPairings \ {pairer[c].dev}
    /\ UNCHANGED <<bluezVars, pairs, btPump, eventQueue, workerVars, notifierVars, btDirty,
                   devices>>

-----------------------------------------------------------------------------
(* The signal pump: handleSignal, handleDevicePropertiesChanged.           *)

\* The device is taken off the pending ones; what is to be queued follows.
PumpTake ==
    /\ startup = "done" /\ btPump = NoEvents /\ btSignals # <<>>
    /\ LET sig == Head(btSignals)
           trust == [do |-> "trust", dev |-> sig.dev]
           update == [do |-> "update", dev |-> sig.dev]
       IN  \/ /\ sig.what = "objects"
              /\ btDirty' = TRUE
              /\ UNCHANGED <<btPump, pendingPairings>>
           \/ /\ sig.what # "objects"
              /\ btPump' = IF sig.what = "paired" /\ sig.dev \in pendingPairings
                             THEN <<trust, update>> ELSE <<update>>
              /\ pendingPairings' = IF sig.what = "trusted" THEN pendingPairings
                                    ELSE pendingPairings \ {sig.dev}
              /\ UNCHANGED btDirty
    /\ btSignals' = Tail(btSignals)
    /\ UNCHANGED <<bluez, btChanges, startup, pairs, pairer, eventQueue, workerVars, notifierVars,
                   devices>>

\* An event that finds the queue full is dropped.
PumpQueue ==
    /\ btPump # NoEvents
    /\ eventQueue' = IF Len(eventQueue) < QueueCap THEN Append(eventQueue, Head(btPump))
                     ELSE eventQueue
    /\ btPump' = Tail(btPump)
    /\ UNCHANGED <<bluezVars, pairVars, workerVars, notifierVars, btDirty, devices>>

-----------------------------------------------------------------------------
(* eventWorker.                                                            *)

WorkerTake ==
    /\ worker = "idle" /\ eventQueue # <<>>
    /\ LET event == Head(eventQueue)
       IN  /\ worker' = IF event.do = "trust" THEN "trusting" ELSE "reading"
           /\ workerDev' = IF event.do = "trust" THEN event.dev ELSE workerDev
    /\ eventQueue' = Tail(eventQueue)
    /\ UNCHANGED <<bluezVars, pairVars, btPump, workerRead, notifierVars, btDirty, devices>>

\* TrustDevice; a device that is not paired any more is not trusted either.
WorkerTrust ==
    /\ worker = "trusting" /\ worker' = "idle" /\ workerDev' = NoPairing.dev
    /\ IF bluez[workerDev] = "paired" THEN BtBecomes(workerDev, "trusted")
                                      ELSE UNCHANGED <<bluez, btSignals>>
    /\ UNCHANGED <<btChanges, startup, pairVars, btPump, eventQueue, workerRead, notifierVars,
                   btDirty, devices>>

WorkerRead ==
    /\ worker = "reading" /\ worker' = "storing"
    /\ workerRead' = bluez
    /\ UNCHANGED <<bluezVars, pairVars, btPump, eventQueue, workerDev, notifierVars, btDirty,
                   devices>>

\* updateDevices returns the error, which the worker does not look at.
WorkerReadFails ==
    /\ worker = "reading" /\ worker' = "marking"
    /\ UNCHANGED <<bluezVars, pairVars, btPump, eventQueue, workerDev, workerRead, notifierVars,
                   btDirty, devices>>

WorkerStore ==
    /\ worker = "storing" /\ worker' = "marking"
    /\ devices' = workerRead
    /\ UNCHANGED <<bluezVars, pairVars, btPump, eventQueue, workerDev, workerRead, notifierVars,
                   btDirty>>

\* Mutation: the worker does not mark what it has stored.
WorkerMarkForgotten ==
    /\ worker = "marking" /\ worker' = "idle"
    /\ UNCHANGED <<bluezVars, pairVars, btPump, eventQueue, workerDev, workerRead, notifierVars,
                   btDirty, devices>>

WorkerMark ==
    /\ worker = "marking" /\ worker' = "idle"
    /\ btDirty' = TRUE
    /\ UNCHANGED <<bluezVars, pairVars, btPump, eventQueue, workerDev, workerRead, notifierVars,
                   devices>>

-----------------------------------------------------------------------------
(* notifier.                                                               *)

\* A mark starts the timer, unless it runs.
NotifierMarked ==
    /\ notifier \in {"idle", "armed"} /\ btDirty
    /\ notifier' = "armed" /\ btDirty' = FALSE
    /\ UNCHANGED <<bluezVars, pairVars, btPump, eventQueue, workerVars, notifierRead, told, known,
                   missed, devices>>

NotifierRead ==
    /\ notifier = "armed" /\ notifier' = "storing"
    /\ notifierRead' = bluez /\ missed' = FALSE
    /\ UNCHANGED <<bluezVars, pairVars, btPump, eventQueue, workerVars, told, known, btDirty,
                   devices>>

\* The notifier does not look at the error either: it tells what the manager has.
NotifierReadFails ==
    /\ notifier = "armed" /\ notifier' = "telling"
    /\ missed' = TRUE
    /\ UNCHANGED <<bluezVars, pairVars, btPump, eventQueue, workerVars, notifierRead, told, known,
                   btDirty, devices>>

NotifierStore ==
    /\ notifier = "storing" /\ notifier' = "telling"
    /\ devices' = notifierRead
    /\ UNCHANGED <<bluezVars, pairVars, btPump, eventQueue, workerVars, notifierRead, told, known,
                   missed, btDirty>>

\* stateChanged does not look at Trusted.
Visible(list) == [d \in BtDevices |-> IF list[d] = "trusted" THEN "paired" ELSE list[d]]

NotifierTell ==
    /\ notifier = "telling" /\ notifier' = "idle"
    /\ told' = TRUE
    /\ known' = IF told /\ Visible(known) = Visible(devices) THEN known ELSE devices
    /\ UNCHANGED <<bluezVars, pairVars, btPump, eventQueue, workerVars, notifierRead, missed,
                   btDirty, devices>>

-----------------------------------------------------------------------------
BtNext ==
    \/ BtRead \/ BtSubscribe
    \/ \E d \in BtDevices, fact \in Facts : BtChange(d, fact) \/ BtChangeUnheard(d, fact)
    \/ \E c \in Pairers :
          \/ \E d \in BtDevices : PairStore(c, d)
          \/ PairCall(c) \/ PairSucceeds(c) \/ PairFails(c) \/ PairForget(c)
    \/ PumpTake \/ PumpQueue
    \/ WorkerTake \/ WorkerTrust \/ WorkerRead \/ WorkerReadFails \/ WorkerStore \/ WorkerMark
    \/ NotifierMarked \/ NotifierRead \/ NotifierReadFails \/ NotifierStore \/ NotifierTell

BtSpec == BtInit /\ [][BtNext]_btVars

-----------------------------------------------------------------------------
\* The variables range over what the program can hold; the event queue keeps its capacity.
BtTypeOK ==
    /\ bluez \in Lists /\ devices \in Lists /\ known \in Lists /\ told \in BOOLEAN
    /\ btSignals \in Seq(BtSignals) /\ pairs \in 0 .. MaxPairs /\ btChanges \in 0 .. MaxBtChanges
    /\ pairer \in [Pairers -> [pc : {"idle", "stored", "calling", "failed"}, dev : BtDevices]]
    /\ pendingPairings \subseteq BtDevices
    /\ btPump \in Seq(Events) /\ eventQueue \in Seq(Events) /\ Len(eventQueue) <= QueueCap
    /\ worker \in {"idle", "trusting", "reading", "storing", "marking"} /\ workerRead \in Lists
    /\ workerDev \in BtDevices
    /\ notifier \in {"idle", "armed", "storing", "telling"} /\ notifierRead \in Lists
    /\ startup \in {"read", "properties", "added", "removed", "done"}
    /\ btDirty \in BOOLEAN /\ missed \in BOOLEAN

\* No signal, event or mark waits, and neither the worker nor the notifier is at work.
BtAtRest ==
    /\ startup = "done" /\ btSignals = <<>> /\ btPump = NoEvents /\ eventQueue = <<>>
    /\ worker = "idle"
    /\ notifier = "idle" /\ ~btDirty

\* At rest the manager's devices are BlueZ's, whichever of the worker and the notifier stored
\* what it had read last and whatever the full queue dropped; and the subscribers know of every
\* device that has come, gone, been paired or been forgotten.  Not after a change in the gap
\* between NewManager's read and its subscriptions, and not when the notifier's read failed:
\* nothing makes the manager read again before BlueZ's next signal.
DevicesAreCurrent ==
    BtAtRest /\ ~missed => devices = bluez /\ Visible(known) = Visible(bluez)

\* A device is pending only while a request for it is on its way or the signal of its success
\* waits: none is trusted later because of a request that failed.
PendingIsAsked ==
    \A d \in pendingPairings :
        \/ \E c \in Pairers : pairer[c].pc # "idle" /\ pairer[c].dev = d
        \/ \E i \in DOMAIN btSignals : btSignals[i] = [what |-> "paired", dev |-> d]

=============================================================================
