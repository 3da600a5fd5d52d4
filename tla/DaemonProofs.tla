---------------------------- MODULE DaemonProofs ----------------------------
(***************************************************************************)
(* Proofs about managers of the daemon that share no state: the Bluetooth  *)
(* devices, the brightness of DDC monitors, the clipboard history, the     *)
(* wallpaper schedule, and their types together with those of the others.  *)
(***************************************************************************)
EXTENDS MCDaemon, PromptBrokerProofs, WlrOutputsProofs, GammaProofs, SysUpdateProofs,
        FunctionTheorems

-----------------------------------------------------------------------------
(***************************************************************************)
(* BluetoothDevices, for any devices, requests and capacity of the event   *)
(* queue: the types, that a device is pending only on account of a request *)
(* in progress or just granted, and that at rest the published devices are *)
(* BlueZ's although a full queue drops updates, unless a change was missed.*)
(***************************************************************************)

BtInv == BtTypeOK /\ PendingIsAsked

Pairings == [pc : {"idle", "stored", "calling", "failed"}, dev : BtDevices]

\* The signal that a pairing with d has succeeded.
PairedSignal(d) == [what |-> "paired", dev |-> d]
\* d is accounted for by the calls cs or by the signals q.
Accounted(d, cs, q) ==
    \/ \E c \in Pairers : cs[c].pc # "idle" /\ cs[c].dev = d
    \/ \E i \in 1..Len(q) : q[i] = PairedSignal(d)

-----------------------------------------------------------------------------
\* PendingIsAsked in these terms.
LEMMA PendingAccounted ==
    ASSUME BtTypeOK
    PROVE  PendingIsAsked <=> \A d \in pendingPairings : Accounted(d, pairer, btSignals)
<1>1. DOMAIN btSignals = 1..Len(btSignals)
    BY DEF BtTypeOK
<1> QED BY <1>1 DEF PendingIsAsked, Accounted, PairedSignal

\* A further signal accounts for no less.
LEMMA AppendAccounts ==
    ASSUME NEW q \in Seq(BtSignals), NEW sig \in BtSignals
    PROVE  /\ Append(q, sig) \in Seq(BtSignals)
           /\ Append(q, sig)[Len(q) + 1] = sig /\ Len(q) + 1 \in 1..Len(Append(q, sig))
           /\ \A i \in 1..Len(q) : Append(q, sig)[i] = q[i] /\ i \in 1..Len(Append(q, sig))
OBVIOUS

\* What BlueZ makes of a device, it signals.
LEMMA BecomesTypes ==
    ASSUME BtTypeOK, NEW d \in BtDevices, NEW fact \in Facts, BtBecomes(d, fact)
    PROVE  /\ bluez' \in Lists /\ btSignals' \in Seq(BtSignals)
           /\ \A i \in 1..Len(btSignals) :
                 btSignals'[i] = btSignals[i] /\ i \in 1..Len(btSignals')
           /\ bluez[d] = "present" /\ fact = "paired" =>
                 \E i \in 1..Len(btSignals') : btSignals'[i] = PairedSignal(d)
<1> DEFINE sig == [what |-> Signal(bluez[d], fact), dev |-> d]
<1>1. bluez \in Lists /\ btSignals \in Seq(BtSignals)
    BY DEF BtTypeOK
<1>2. Signal(bluez[d], fact) \in {"objects", "paired", "unpaired", "trusted"}
    BY DEF Signal
<1>3. sig \in BtSignals
    BY <1>2 DEF BtSignals
<1>4. btSignals' = Append(btSignals, sig) /\ bluez' = [bluez EXCEPT ![d] = fact]
    BY DEF BtBecomes
<1>5. bluez' \in Lists
    BY <1>1, <1>4 DEF Lists
<1>6. bluez[d] = "present" /\ fact = "paired" => sig = PairedSignal(d)
    BY DEF Signal, Paired, PairedSignal
<1> HIDE DEF sig
<1> QED BY <1>1, <1>3, <1>4, <1>5, <1>6, AppendAccounts

LEMMA IdleIsPairing == NoPairing \in Pairings /\ NoPairing.pc = "idle" /\ NoPairing.dev \in BtDevices
<1>1. (CHOOSE d \in BtDevices : TRUE) \in BtDevices
    BY BluetoothAssumption
<1> QED BY <1>1 DEF NoPairing, Pairings

LEMMA IdleListing == NoDevices \in Lists
BY DEF NoDevices, Lists, Facts

LEMMA BtInitInv == BtInit => BtInv
<1> SUFFICES ASSUME BtInit PROVE BtInv
    OBVIOUS
<1>1. PendingIsAsked
    BY DEF BtInit, PendingIsAsked
<1>2. <<>> \in Seq(BtSignals) /\ <<>> \in Seq(Events) /\ Len(<<>>) = 0
    OBVIOUS
<1>3. btSignals \in Seq(BtSignals) /\ btPump \in Seq(Events)
    BY <1>2 DEF BtInit, NoEvents
<1>4. eventQueue \in Seq(Events) /\ Len(eventQueue) <= QueueCap
    BY <1>2, BluetoothAssumption DEF BtInit
<1>5. pairs \in 0..MaxPairs /\ btChanges \in 0..MaxBtChanges
    BY BluetoothAssumption DEF BtInit
<1>6. pairer \in [Pairers -> Pairings]
    BY IdleIsPairing DEF BtInit
<1>7. workerDev \in BtDevices /\ pendingPairings \subseteq BtDevices
    BY IdleIsPairing DEF BtInit
<1>8. /\ bluez \in Lists /\ devices \in Lists /\ known \in Lists /\ told \in BOOLEAN
      /\ workerRead \in Lists /\ notifierRead \in Lists /\ btDirty \in BOOLEAN
      /\ worker = "idle" /\ notifier = "idle" /\ startup = "read" /\ missed = FALSE
    BY IdleListing DEF BtInit
<1>9. BtTypeOK
    BY <1>3, <1>4, <1>5, <1>6, <1>7, <1>8 DEF BtTypeOK, Pairings
<1> QED BY <1>1, <1>9 DEF BtInv

-----------------------------------------------------------------------------
\* The invariant after a step follows from its types, and an account for every pending device.
LEMMA Accounts ==
    ASSUME BtTypeOK', \A d \in pendingPairings' : Accounted(d, pairer', btSignals')
    PROVE  BtInv'
<1>1. (DOMAIN btSignals = 1..Len(btSignals))'
    BY DEF BtTypeOK
<1>2. PendingIsAsked'
    BY <1>1 DEF PendingIsAsked, Accounted, PairedSignal
<1> QED BY <1>2 DEF BtInv

\* The call c moves on, all others stay where they are.
LEMMA MoveTypes ==
    ASSUME BtTypeOK, NEW c \in Pairers, NEW from, NEW to \in {"idle", "calling", "failed"},
           MovePairer(c, from, to)
    PROVE  /\ pairer' \in [Pairers -> Pairings] /\ pairer[c].pc = from
           /\ pairer[c].dev \in BtDevices
           /\ \A b \in Pairers \ {c} : pairer'[b] = pairer[b]
           /\ to # "idle" => pairer'[c].pc = to /\ pairer'[c].dev = pairer[c].dev
<1>1. pairer \in [Pairers -> Pairings]
    BY DEF BtTypeOK, Pairings
<1>2. pairer[c] \in Pairings /\ pairer[c].dev \in BtDevices
    BY <1>1 DEF Pairings
<1>3. CASE to = "idle"
    <2>1. pairer' = [pairer EXCEPT ![c] = NoPairing] /\ pairer[c].pc = from
        BY <1>3 DEF MovePairer
    <2> QED BY <1>1, <1>2, <1>3, <2>1, IdleIsPairing
<1>4. CASE to # "idle"
    <2>1. pairer' = [pairer EXCEPT ![c] = [pairer[c] EXCEPT !.pc = to]] /\ pairer[c].pc = from
        BY <1>4, <1>1 DEF MovePairer
    <2>2. [pairer[c] EXCEPT !.pc = to] \in Pairings
        BY <1>2 DEF Pairings
    <2>3. [pairer[c] EXCEPT !.pc = to].pc = to /\ [pairer[c] EXCEPT !.pc = to].dev = pairer[c].dev
        BY <1>2 DEF Pairings
    <2> QED BY <1>1, <1>2, <1>4, <2>1, <2>2, <2>3
<1> QED BY <1>3, <1>4

\* A step that leaves alone what a device is pending on, and the types.
LEMMA AccountsKept ==
    ASSUME BtInv, BtTypeOK', UNCHANGED <<pairer, btSignals, pendingPairings>>
    PROVE  BtInv'
BY Accounts, PendingAccounted DEF BtInv, Accounted

-----------------------------------------------------------------------------
(* BlueZ and PairDevice.                                                   *)

\* What holds of the variables the pairing requests leave alone.
RestTypes ==
    /\ devices \in Lists /\ known \in Lists /\ told \in BOOLEAN
    /\ btPump \in Seq(Events) /\ eventQueue \in Seq(Events) /\ Len(eventQueue) <= QueueCap
    /\ worker \in {"idle", "trusting", "reading", "storing", "marking"} /\ workerRead \in Lists
    /\ workerDev \in BtDevices
    /\ notifier \in {"idle", "armed", "storing", "telling"} /\ notifierRead \in Lists
    /\ btDirty \in BOOLEAN /\ missed \in BOOLEAN

PairTypes ==
    /\ bluez \in Lists /\ btSignals \in Seq(BtSignals)
    /\ pairs \in 0..MaxPairs /\ btChanges \in 0..MaxBtChanges
    /\ pairer \in [Pairers -> Pairings] /\ pendingPairings \subseteq BtDevices
    /\ startup \in {"read", "properties", "added", "removed", "done"}

LEMMA TypesSplit == BtTypeOK <=> PairTypes /\ RestTypes
BY DEF BtTypeOK, PairTypes, RestTypes, Pairings

LEMMA RestUnchanged ==
    ASSUME RestTypes, PairTypes',
           UNCHANGED <<btPump, eventQueue, workerVars, notifierVars, btDirty, devices>>
    PROVE  BtTypeOK'
<1>1. RestTypes'
    BY DEF RestTypes, workerVars, notifierVars
<1> QED BY <1>1 DEF BtTypeOK, PairTypes, RestTypes, Pairings

LEMMA BtChangeInv ==
    ASSUME BtInv, NEW d \in BtDevices, NEW fact \in Facts, BtChange(d, fact)
    PROVE  BtInv'
<1>1. BtTypeOK /\ PendingIsAsked
    BY DEF BtInv
<1>2. BtBecomes(d, fact) /\ UNCHANGED <<startup, pairs, pairer, pendingPairings>>
    BY DEF BtChange, pairVars
<1>3. /\ bluez' \in Lists /\ btSignals' \in Seq(BtSignals)
      /\ \A i \in 1..Len(btSignals) : btSignals'[i] = btSignals[i] /\ i \in 1..Len(btSignals')
    BY <1>1, <1>2, BecomesTypes
<1>4. btChanges' \in 0..MaxBtChanges
    BY <1>1, BluetoothAssumption DEF BtTypeOK, BtChange
<1>5. PairTypes'
    BY <1>1, <1>2, <1>3, <1>4, TypesSplit DEF PairTypes
<1>6. BtTypeOK'
    BY <1>1, <1>5, TypesSplit, RestUnchanged DEF BtChange
<1>7. \A e \in pendingPairings' : Accounted(e, pairer', btSignals')
    BY <1>1, <1>2, <1>3, PendingAccounted DEF Accounted
<1> QED BY <1>6, <1>7, Accounts

LEMMA PairStoreInv ==
    ASSUME BtInv, NEW c \in Pairers, NEW d \in BtDevices, PairStore(c, d)
    PROVE  BtInv'
<1>1. BtTypeOK /\ PendingIsAsked /\ PairTypes /\ RestTypes
    BY TypesSplit DEF BtInv
<1> DEFINE stored == [pc |-> "stored", dev |-> d]
<1>2. stored \in Pairings /\ stored.pc # "idle" /\ stored.dev = d
    BY DEF Pairings
<1>3. /\ pairer' = [pairer EXCEPT ![c] = stored] /\ pairer[c].pc = "idle"
      /\ pendingPairings' = pendingPairings \cup {d}
      /\ UNCHANGED <<bluez, btSignals, btChanges, startup>>
    BY DEF PairStore, bluezVars
<1> HIDE DEF stored
<1>4. pairer' \in [Pairers -> Pairings] /\ pairer'[c] = stored
    BY <1>1, <1>2, <1>3 DEF PairTypes
<1>5. \A b \in Pairers \ {c} : pairer'[b] = pairer[b]
    BY <1>1, <1>3 DEF PairTypes
<1>6. pairs' \in 0..MaxPairs
    BY <1>1, BluetoothAssumption DEF PairTypes, PairStore
<1>7. BtTypeOK'
    <2>1. PairTypes'
        BY <1>1, <1>3, <1>4, <1>6 DEF PairTypes
    <2> QED BY <1>1, <2>1, RestUnchanged DEF PairStore
<1>8. ASSUME NEW e \in pendingPairings' PROVE Accounted(e, pairer', btSignals')
    <2>1. CASE e = d
        BY <2>1, <1>2, <1>4 DEF Accounted
    <2>2. CASE e \in pendingPairings
        <3>1. Accounted(e, pairer, btSignals)
            BY <2>2, <1>1, PendingAccounted
        <3> QED BY <3>1, <1>3, <1>5 DEF Accounted
    <2> QED BY <2>1, <2>2, <1>3
<1> QED BY <1>7, <1>8, Accounts

\* The calls that go on: what was pending on them still is.
LEMMA StillPairingInv ==
    ASSUME BtInv, NEW c \in Pairers, NEW from, NEW to \in {"calling", "failed"},
           MovePairer(c, from, to), UNCHANGED <<bluezVars, pairs, pendingPairings>>,
           UNCHANGED <<btPump, eventQueue, workerVars, notifierVars, btDirty, devices>>
    PROVE  BtInv'
<1>1. BtTypeOK /\ PendingIsAsked /\ PairTypes /\ RestTypes
    BY TypesSplit DEF BtInv
<1>2. /\ pairer' \in [Pairers -> Pairings]
      /\ \A b \in Pairers \ {c} : pairer'[b] = pairer[b]
      /\ pairer'[c].pc # "idle" /\ pairer'[c].dev = pairer[c].dev
    BY <1>1, MoveTypes
<1>3. BtTypeOK'
    <2>1. PairTypes'
        BY <1>1, <1>2 DEF PairTypes, bluezVars
    <2> QED BY <1>1, <2>1, RestUnchanged
<1>4. ASSUME NEW e \in pendingPairings' PROVE Accounted(e, pairer', btSignals')
    <2>1. Accounted(e, pairer, btSignals)
        BY <1>1, PendingAccounted
    <2> QED BY <2>1, <1>2 DEF Accounted, bluezVars
<1> QED BY <1>3, <1>4, Accounts

LEMMA PairCallInv == ASSUME BtInv, NEW c \in Pairers, PairCall(c) PROVE BtInv'
<1>1. PICK to \in {"calling", "failed"} : MovePairer(c, "stored", to)
    BY DEF PairCall
<1> QED BY <1>1, StillPairingInv DEF PairCall

LEMMA PairFailsInv == ASSUME BtInv, NEW c \in Pairers, PairFails(c) PROVE BtInv'
BY StillPairingInv DEF PairFails

\* The device of the call that succeeds is accounted for by the signal.
LEMMA PairSucceedsInv == ASSUME BtInv, NEW c \in Pairers, PairSucceeds(c) PROVE BtInv'
<1>1. BtTypeOK /\ PendingIsAsked /\ PairTypes /\ RestTypes
    BY TypesSplit DEF BtInv
<1>2. /\ MovePairer(c, "calling", "idle") /\ bluez[pairer[c].dev] = "present"
      /\ BtBecomes(pairer[c].dev, "paired")
      /\ UNCHANGED <<btChanges, startup, pairs, pendingPairings>>
    BY DEF PairSucceeds
<1>3. /\ pairer' \in [Pairers -> Pairings] /\ pairer[c].dev \in BtDevices
      /\ \A b \in Pairers \ {c} : pairer'[b] = pairer[b]
    BY <1>1, <1>2, MoveTypes
<1>4. "paired" \in Facts
    BY DEF Facts
<1>5. /\ bluez' \in Lists /\ btSignals' \in Seq(BtSignals)
      /\ \A i \in 1..Len(btSignals) : btSignals'[i] = btSignals[i] /\ i \in 1..Len(btSignals')
      /\ \E i \in 1..Len(btSignals') : btSignals'[i] = PairedSignal(pairer[c].dev)
    BY <1>1, <1>2, <1>3, <1>4, BecomesTypes
<1>6. BtTypeOK'
    <2>1. PairTypes'
        BY <1>1, <1>2, <1>3, <1>5 DEF PairTypes
    <2> QED BY <1>1, <2>1, RestUnchanged DEF PairSucceeds
<1>7. ASSUME NEW e \in pendingPairings' PROVE Accounted(e, pairer', btSignals')
    <2>1. Accounted(e, pairer, btSignals)
        BY <1>1, <1>2, PendingAccounted
    <2> QED BY <2>1, <1>3, <1>5 DEF Accounted
<1> QED BY <1>6, <1>7, Accounts

\* The device of the call that failed is no longer pending.
LEMMA PairForgetInv == ASSUME BtInv, NEW c \in Pairers, PairForget(c) PROVE BtInv'
<1>1. BtTypeOK /\ PendingIsAsked /\ PairTypes /\ RestTypes
    BY TypesSplit DEF BtInv
<1>2. /\ MovePairer(c, "failed", "idle") /\ pendingPairings' = pendingPairings \ {pairer[c].dev}
      /\ UNCHANGED <<bluez, btSignals, btChanges, startup, pairs>>
    BY DEF PairForget, bluezVars
<1>3. /\ pairer' \in [Pairers -> Pairings]
      /\ \A b \in Pairers \ {c} : pairer'[b] = pairer[b]
    BY <1>1, <1>2, MoveTypes
<1>4. BtTypeOK'
    <2>1. PairTypes'
        BY <1>1, <1>2, <1>3 DEF PairTypes
    <2> QED BY <1>1, <2>1, RestUnchanged DEF PairForget
<1>5. ASSUME NEW e \in pendingPairings' PROVE Accounted(e, pairer', btSignals')
    <2>1. Accounted(e, pairer, btSignals) /\ e # pairer[c].dev
        BY <1>1, <1>2, PendingAccounted
    <2> QED BY <2>1, <1>2, <1>3 DEF Accounted
<1> QED BY <1>4, <1>5, Accounts

-----------------------------------------------------------------------------
(* The signal pump, the worker and the notifier.                           *)

\* The signal taken is the first; all others stay.
LEMMA TailAccounts ==
    ASSUME NEW q \in Seq(BtSignals), q # <<>>
    PROVE  /\ Head(q) \in BtSignals /\ Tail(q) \in Seq(BtSignals)
           /\ \A i \in 1..Len(q) : q[i] = Head(q) \/ \E j \in 1..Len(Tail(q)) : Tail(q)[j] = q[i]
<1>1. Head(q) = q[1] /\ Head(q) \in BtSignals /\ Tail(q) \in Seq(BtSignals)
    OBVIOUS
<1>2. Len(Tail(q)) = Len(q) - 1 /\ \A i \in 1..(Len(q) - 1) : Tail(q)[i] = q[i + 1]
    OBVIOUS
<1>3. ASSUME NEW i \in 1..Len(q)
      PROVE  q[i] = Head(q) \/ \E j \in 1..Len(Tail(q)) : Tail(q)[j] = q[i]
    <2>1. CASE i = 1
        BY <2>1, <1>1
    <2>2. CASE i # 1
        <3>1. i - 1 \in 1..(Len(q) - 1) /\ (i - 1) + 1 = i /\ Len(q) \in Nat
            BY <2>2
        <3>2. Tail(q)[i - 1] = q[i] /\ i - 1 \in 1..Len(Tail(q))
            BY <3>1, <1>2
        <3> QED BY <3>2
    <2> QED BY <2>1, <2>2
<1> QED BY <1>1, <1>3

LEMMA PumpTakeInv == ASSUME BtInv, PumpTake PROVE BtInv'
<1>1. BtTypeOK /\ PendingIsAsked /\ PairTypes /\ RestTypes
    BY TypesSplit DEF BtInv
<1> DEFINE sig == Head(btSignals)
           trust == [do |-> "trust", dev |-> sig.dev]
           update == [do |-> "update", dev |-> sig.dev]
<1>2. btSignals # <<>> /\ btSignals' = Tail(btSignals)
    BY DEF PumpTake
<1>3. /\ sig \in BtSignals /\ btSignals' \in Seq(BtSignals)
      /\ \A i \in 1..Len(btSignals) :
            btSignals[i] = sig \/ \E j \in 1..Len(btSignals') : btSignals'[j] = btSignals[i]
    BY <1>1, <1>2, TailAccounts DEF PairTypes
<1>4. sig.dev \in BtDevices /\ trust \in Events /\ update \in Events
    BY <1>3 DEF BtSignals, Events
<1>5. <<trust, update>> \in Seq(Events) /\ <<update>> \in Seq(Events)
    BY <1>4
<1>6. \/ sig.what = "objects" /\ pendingPairings' = pendingPairings
      \/ sig.what = "trusted" /\ pendingPairings' = pendingPairings
      \/ pendingPairings' = pendingPairings \ {sig.dev}
    BY DEF PumpTake
<1>7. /\ btPump' = btPump \/ btPump' = <<trust, update>> \/ btPump' = <<update>>
      /\ btDirty' \in BOOLEAN
    BY <1>1 DEF PumpTake, RestTypes
<1>8. UNCHANGED <<bluez, btChanges, startup, pairs, pairer, eventQueue, workerVars, notifierVars, devices>>
    BY DEF PumpTake
<1> HIDE DEF trust, update, sig
<1>9. PairTypes'
    BY <1>1, <1>3, <1>6, <1>8 DEF PairTypes
<1>10. btPump' \in Seq(Events)
    BY <1>1, <1>5, <1>7 DEF RestTypes
<1>11. RestTypes'
    BY <1>1, <1>7, <1>8, <1>10 DEF RestTypes, workerVars, notifierVars
<1>12. BtTypeOK'
    BY <1>9, <1>11 DEF BtTypeOK, PairTypes, RestTypes, Pairings
<1>13. ASSUME NEW e \in pendingPairings' PROVE Accounted(e, pairer', btSignals')
    <2>1. Accounted(e, pairer, btSignals)
        BY <1>1, <1>6, PendingAccounted
    <2>2. PairedSignal(e).what = "paired" /\ PairedSignal(e).dev = e
        BY DEF PairedSignal
    <2>3. sig # PairedSignal(e)
        BY <2>2, <1>6
    <2> QED BY <2>1, <2>3, <1>3, <1>8 DEF Accounted
<1> QED BY <1>12, <1>13, Accounts

LEMMA PumpQueueInv == ASSUME BtInv, PumpQueue PROVE BtInv'
<1>1. BtTypeOK
    BY DEF BtInv
<1>2. btPump \in Seq(Events) /\ btPump # <<>> /\ eventQueue \in Seq(Events)
    BY <1>1 DEF BtTypeOK, PumpQueue, NoEvents
<1>3. /\ Head(btPump) \in Events /\ btPump' \in Seq(Events)
    BY <1>2 DEF PumpQueue
<1>4. eventQueue' \in Seq(Events) /\ Len(eventQueue') <= QueueCap
    <2>1. CASE Len(eventQueue) < QueueCap
        <3>1. eventQueue' = Append(eventQueue, Head(btPump))
            BY <2>1 DEF PumpQueue
        <3>2. eventQueue' \in Seq(Events) /\ Len(eventQueue') = Len(eventQueue) + 1
            BY <1>2, <1>3, <3>1
        <3>3. Len(eventQueue) \in Nat
            BY <1>2
        <3> QED BY <2>1, <3>2, <3>3, BluetoothAssumption
    <2>2. CASE ~(Len(eventQueue) < QueueCap)
        BY <2>2, <1>1 DEF PumpQueue, BtTypeOK
    <2> QED BY <2>1, <2>2
<1>5. BtTypeOK'
    BY <1>1, <1>3, <1>4 DEF PumpQueue, BtTypeOK, bluezVars, pairVars, workerVars, notifierVars
<1> QED BY <1>5, AccountsKept DEF PumpQueue, bluezVars, pairVars

LEMMA WorkerTakeInv == ASSUME BtInv, WorkerTake PROVE BtInv'
<1>1. BtTypeOK
    BY DEF BtInv
<1>2. eventQueue \in Seq(Events) /\ eventQueue # <<>>
    BY <1>1 DEF BtTypeOK, WorkerTake
<1>3. /\ Head(eventQueue) \in Events /\ Tail(eventQueue) \in Seq(Events)
      /\ Len(Tail(eventQueue)) = Len(eventQueue) - 1 /\ Len(eventQueue) \in Nat
    BY <1>2
<1>4. Head(eventQueue).dev \in BtDevices
    BY <1>3 DEF Events
<1>5. eventQueue' \in Seq(Events) /\ Len(eventQueue') <= QueueCap
    BY <1>1, <1>3, BluetoothAssumption DEF WorkerTake, BtTypeOK
<1>6. workerDev' \in BtDevices /\ worker' \in {"trusting", "reading"}
    BY <1>1, <1>4 DEF WorkerTake, BtTypeOK
<1>7. UNCHANGED <<bluezVars, pairVars, btPump, workerRead, notifierVars, btDirty, devices>>
    BY DEF WorkerTake
<1>8. BtTypeOK'
    BY <1>1, <1>5, <1>6, <1>7 DEF BtTypeOK, bluezVars, pairVars, notifierVars
<1> QED BY <1>8, <1>7, AccountsKept DEF bluezVars, pairVars

LEMMA WorkerTrustInv == ASSUME BtInv, WorkerTrust PROVE BtInv'
<1>1. BtTypeOK /\ PendingIsAsked
    BY DEF BtInv
<1>2. worker' = "idle" /\ workerDev' \in BtDevices
    BY IdleIsPairing DEF WorkerTrust
<1>3. /\ UNCHANGED <<btChanges, startup, pairVars, btPump, eventQueue, workerRead, notifierVars>>
      /\ UNCHANGED <<btDirty, devices>>
    BY DEF WorkerTrust
<1>4. CASE bluez[workerDev] = "paired"
    <2>1. BtBecomes(workerDev, "trusted") /\ workerDev \in BtDevices /\ "trusted" \in Facts
        BY <1>1, <1>4 DEF WorkerTrust, BtTypeOK, Facts
    <2>2. /\ bluez' \in Lists /\ btSignals' \in Seq(BtSignals)
          /\ \A i \in 1..Len(btSignals) :
                btSignals'[i] = btSignals[i] /\ i \in 1..Len(btSignals')
        BY <1>1, <2>1, BecomesTypes
    <2>3. BtTypeOK'
        BY <1>1, <1>2, <1>3, <2>2 DEF BtTypeOK, pairVars, notifierVars
    <2>4. \A e \in pendingPairings' : Accounted(e, pairer', btSignals')
        BY <1>1, <1>3, <2>2, PendingAccounted DEF Accounted, pairVars
    <2> QED BY <2>3, <2>4, Accounts
<1>5. CASE bluez[workerDev] # "paired"
    <2>1. UNCHANGED <<bluez, btSignals>>
        BY <1>5 DEF WorkerTrust
    <2>2. BtTypeOK'
        BY <1>1, <1>2, <1>3, <2>1 DEF BtTypeOK, pairVars, notifierVars
    <2> QED BY <1>3, <2>1, <2>2, AccountsKept DEF pairVars
<1> QED BY <1>4, <1>5

\* The steps that read, store and tell, and those of NewManager.
LEMMA ReadersInv ==
    ASSUME BtInv, \/ BtRead \/ BtSubscribe
                  \/ WorkerRead \/ WorkerReadFails \/ WorkerStore \/ WorkerMark
                  \/ NotifierMarked \/ NotifierRead \/ NotifierReadFails
                  \/ NotifierStore \/ NotifierTell
    PROVE  BtInv'
<1>1. BtTypeOK
    BY DEF BtInv
<1> USE DEF BtTypeOK, bluezVars, pairVars, workerVars, notifierVars
<1>2. CASE WorkerRead
    BY <1>1, <1>2, AccountsKept DEF WorkerRead
<1>3. CASE WorkerStore
    BY <1>1, <1>3, AccountsKept DEF WorkerStore
<1>4. CASE WorkerMark
    BY <1>1, <1>4, AccountsKept DEF WorkerMark
<1>5. CASE NotifierMarked
    BY <1>1, <1>5, AccountsKept DEF NotifierMarked
<1>6. CASE NotifierRead
    BY <1>1, <1>6, AccountsKept DEF NotifierRead
<1>7. CASE NotifierStore
    BY <1>1, <1>7, AccountsKept DEF NotifierStore
<1>8. CASE NotifierTell
    BY <1>1, <1>8, AccountsKept DEF NotifierTell
<1>9. CASE BtRead
    BY <1>1, <1>9, AccountsKept DEF BtRead
<1>10. CASE BtSubscribe
    BY <1>1, <1>10, AccountsKept DEF BtSubscribe
<1>11. CASE WorkerReadFails
    BY <1>1, <1>11, AccountsKept DEF WorkerReadFails
<1>12. CASE NotifierReadFails
    BY <1>1, <1>12, AccountsKept DEF NotifierReadFails
<1> QED BY <1>2, <1>3, <1>4, <1>5, <1>6, <1>7, <1>8, <1>9, <1>10, <1>11, <1>12

\* A change nobody hears of leaves the signals alone.
LEMMA UnheardInv ==
    ASSUME BtInv, NEW d \in BtDevices, NEW fact \in Facts, BtChangeUnheard(d, fact)
    PROVE  BtInv'
<1>1. BtTypeOK
    BY DEF BtInv
<1>2. bluez' \in Lists /\ btChanges' \in 0..MaxBtChanges /\ missed' = TRUE
    BY <1>1, BluetoothAssumption DEF BtTypeOK, BtChangeUnheard, Lists
<1>3. BtTypeOK'
    BY <1>1, <1>2 DEF BtTypeOK, BtChangeUnheard, pairVars, workerVars
<1> QED BY <1>3, AccountsKept DEF BtChangeUnheard, pairVars

-----------------------------------------------------------------------------
LEMMA BtStepInv == BtInv /\ [BtNext]_btVars => BtInv'
<1> SUFFICES ASSUME BtInv, [BtNext]_btVars PROVE BtInv'
    OBVIOUS
<1>1. ASSUME NEW d \in BtDevices, NEW fact \in Facts, BtChange(d, fact) PROVE BtInv'
    BY <1>1, BtChangeInv
<1>2. ASSUME NEW c \in Pairers, NEW d \in BtDevices, PairStore(c, d) PROVE BtInv'
    BY <1>2, PairStoreInv
<1>3. ASSUME NEW c \in Pairers, PairCall(c) \/ PairSucceeds(c) \/ PairFails(c) \/ PairForget(c)
      PROVE  BtInv'
    BY <1>3, PairCallInv, PairSucceedsInv, PairFailsInv, PairForgetInv
<1>4. CASE PumpTake \/ PumpQueue \/ WorkerTake \/ WorkerTrust
    BY <1>4, PumpTakeInv, PumpQueueInv, WorkerTakeInv, WorkerTrustInv
<1>5. CASE \/ BtRead \/ BtSubscribe
           \/ WorkerRead \/ WorkerReadFails \/ WorkerStore \/ WorkerMark
           \/ NotifierMarked \/ NotifierRead \/ NotifierReadFails
           \/ NotifierStore \/ NotifierTell
    BY <1>5, ReadersInv
<1>6. CASE UNCHANGED btVars
    <2>1. BtTypeOK'
        BY <1>6 DEF BtInv, BtTypeOK, btVars, bluezVars, pairVars, workerVars, notifierVars
    <2> QED BY <1>6, <2>1, AccountsKept DEF btVars, bluezVars, pairVars
<1>7. ASSUME NEW d \in BtDevices, NEW fact \in Facts, BtChangeUnheard(d, fact) PROVE BtInv'
    BY <1>7, UnheardInv
<1> QED BY <1>1, <1>2, <1>3, <1>4, <1>5, <1>6, <1>7 DEF BtNext

\* The strengthened invariant: the types, and an account for every pending device.
THEOREM BluetoothInvariant == BtSpec => []BtInv
<1> QED BY BtInitInv, BtStepInv, PTL DEF BtSpec

\* The types hold of every behaviour; the event queue never holds more than its capacity.
THEOREM BluetoothTypes == BtSpec => []BtTypeOK
<1>1. BtInv => BtTypeOK
    BY DEF BtInv
<1> QED BY <1>1, BluetoothInvariant, PTL

\* Whatever requests overlap and however they end, a device pends only on a request that is in
\* progress or on the signal of one that was granted.
THEOREM PendingsAreAsked == BtSpec => []PendingIsAsked
<1>1. BtInv => PendingIsAsked
    BY DEF BtInv
<1> QED BY <1>1, BluetoothInvariant, PTL

-----------------------------------------------------------------------------
(* The devices at rest.                                                    *)

UpdateIn(q) == \E i \in 1..Len(q) : q[i].do = "update"

\* Something will make the notifier read the devices anew.
UpdateDue ==
    \/ btSignals # <<>> \/ UpdateIn(btPump) \/ UpdateIn(eventQueue)
    \/ worker \in {"reading", "storing", "marking"} \/ btDirty \/ notifier = "armed"

\* The notifier, wherever it is, holds or has passed on what BlueZ has.
NotifierIsCurrent ==
    /\ notifier = "storing" => notifierRead = bluez
    /\ notifier \in {"telling", "idle"} => devices = bluez
    /\ notifier = "idle" => Visible(known) = Visible(bluez)

CurrentOrDue == startup = "read" \/ missed \/ UpdateDue \/ NotifierIsCurrent

\* Before the manager has been made, nobody reads or tells but NewManager.
Unmade ==
    startup # "done" =>
        btPump = <<>> /\ eventQueue = <<>> /\ worker = "idle" /\ ~btDirty /\ notifier = "idle"

\* A full queue still holds an event that has the devices read: dropping one loses nothing.
FullQueueUpdates == Len(eventQueue) = QueueCap => UpdateIn(eventQueue)

\* What BlueZ changes, it signals.
LEMMA ChangeIsDue == ASSUME NEW d, NEW fact, BtBecomes(d, fact), BtTypeOK PROVE UpdateDue'
BY DEF BtBecomes, BtTypeOK, UpdateDue

LEMMA SignalsRemainDue ==
    ASSUME btSignals # <<>>, UNCHANGED btSignals PROVE UpdateDue'
BY DEF UpdateDue

\* A step that touches neither BlueZ nor what is read from it.
LEMMA AsCurrent ==
    ASSUME CurrentOrDue, UNCHANGED <<bluezVars, btPump, eventQueue, worker, notifierVars, btDirty,
                                     devices>>
    PROVE  CurrentOrDue'
BY DEF CurrentOrDue, UpdateDue, NotifierIsCurrent, Visible, bluezVars, notifierVars, UpdateIn

LEMMA UnmadeStep == Unmade /\ [BtNext]_btVars => Unmade'
<1> SUFFICES ASSUME Unmade, [BtNext]_btVars PROVE Unmade'
    OBVIOUS
<1> USE DEF Unmade, bluezVars, workerVars, notifierVars
<1>1. CASE BtRead \/ BtSubscribe
    BY <1>1 DEF BtRead, BtSubscribe
<1>2. ASSUME NEW d \in BtDevices, NEW fact \in Facts, BtChange(d, fact) \/ BtChangeUnheard(d, fact)
      PROVE  Unmade'
    BY <1>2 DEF BtChange, BtChangeUnheard
<1>3. ASSUME NEW c \in Pairers, NEW d \in BtDevices, PairStore(c, d) PROVE Unmade'
    BY <1>3 DEF PairStore
<1>4. ASSUME NEW c \in Pairers, PairCall(c) \/ PairSucceeds(c) \/ PairFails(c) \/ PairForget(c)
      PROVE  Unmade'
    BY <1>4 DEF PairCall, PairSucceeds, PairFails, PairForget
<1>5. CASE PumpTake \/ PumpQueue
    BY <1>5 DEF PumpTake, PumpQueue, NoEvents
<1>6. CASE WorkerTake \/ WorkerTrust \/ WorkerRead \/ WorkerReadFails \/ WorkerStore \/ WorkerMark
    BY <1>6 DEF WorkerTake, WorkerTrust, WorkerRead, WorkerReadFails, WorkerStore, WorkerMark
<1>7. CASE NotifierMarked \/ NotifierRead \/ NotifierReadFails \/ NotifierStore \/ NotifierTell
    BY <1>7 DEF NotifierMarked, NotifierRead, NotifierReadFails, NotifierStore, NotifierTell
<1>8. CASE UNCHANGED btVars
    BY <1>8 DEF btVars
<1> QED BY <1>1, <1>2, <1>3, <1>4, <1>5, <1>6, <1>7, <1>8 DEF BtNext

LEMMA MadeLater == BtSpec => []Unmade
<1>1. BtInit => Unmade
    BY DEF BtInit, Unmade, NoEvents
<1> QED BY <1>1, UnmadeStep, PTL DEF BtSpec

\* What NewManager reads is what BlueZ has; changes in between it hears of, or misses.
LEMMA MakingIsCurrent ==
    ASSUME BtInv, Unmade, CurrentOrDue, BtRead \/ BtSubscribe PROVE CurrentOrDue'
<1>1. CASE BtRead
    BY <1>1 DEF BtRead, Unmade, CurrentOrDue, NotifierIsCurrent
<1>2. CASE BtSubscribe
    BY <1>2 DEF BtSubscribe, CurrentOrDue, UpdateDue, NotifierIsCurrent, Visible, UpdateIn, notifierVars,
                workerVars
<1> QED BY <1>1, <1>2

LEMMA PumpTakeDue == ASSUME BtInv, PumpTake PROVE CurrentOrDue'
<1> DEFINE sig == Head(btSignals)
           trust == [do |-> "trust", dev |-> sig.dev]
           update == [do |-> "update", dev |-> sig.dev]
<1>1. btDirty' \/ btPump' = <<trust, update>> \/ btPump' = <<update>>
    BY DEF PumpTake
<1>2. UpdateIn(<<trust, update>>) /\ UpdateIn(<<update>>)
  <2>1. <<trust, update>>[2].do = "update" /\ <<update>>[1].do = "update"
      OBVIOUS
  <2>2. 2 \in 1..Len(<<trust, update>>) /\ 1 \in 1..Len(<<update>>)
      OBVIOUS
  <2> QED BY <2>1, <2>2 DEF UpdateIn
<1> HIDE DEF trust, update
<1> QED BY <1>1, <1>2 DEF CurrentOrDue, UpdateDue

\* What the head of the queue leaves: an update is the head, or is still there without it.
LEMMA UpdateInTail ==
    ASSUME NEW q \in Seq(Events), q # <<>>, UpdateIn(q), Head(q).do # "update"
    PROVE  UpdateIn(Tail(q))
<1>1. PICK i \in 1..Len(q) : q[i].do = "update"
    BY DEF UpdateIn
<1>2. i # 1
    BY <1>1
<1>3. i - 1 \in 1..Len(Tail(q)) /\ Tail(q)[i - 1] = q[i]
    BY <1>2
<1> QED BY <1>1, <1>3 DEF UpdateIn

LEMMA UpdateInAppend ==
    ASSUME NEW q \in Seq(Events), NEW e \in Events
    PROVE  UpdateIn(Append(q, e)) <=> UpdateIn(q) \/ e.do = "update"
<1>1. /\ Len(Append(q, e)) = Len(q) + 1 /\ Append(q, e)[Len(q) + 1] = e
      /\ \A i \in 1..Len(q) : Append(q, e)[i] = q[i]
    OBVIOUS
<1>2. /\ \A i \in 1..(Len(q) + 1) : i \in 1..Len(q) \/ i = Len(q) + 1
      /\ Len(q) + 1 \in 1..(Len(q) + 1) /\ 1..Len(q) \subseteq 1..(Len(q) + 1)
    OBVIOUS
<1> QED BY <1>1, <1>2 DEF UpdateIn

LEMMA PumpQueueDue ==
    ASSUME BtInv, FullQueueUpdates, CurrentOrDue, PumpQueue PROVE CurrentOrDue'
<1>1. /\ btPump \in Seq(Events) /\ btPump # <<>> /\ eventQueue \in Seq(Events)
      /\ Len(eventQueue) <= QueueCap
    BY DEF BtInv, BtTypeOK, PumpQueue, NoEvents
<1>2. Head(btPump) \in Events /\ btPump' = Tail(btPump)
    BY <1>1 DEF PumpQueue
<1>3. UNCHANGED <<bluezVars, worker, notifierVars, btDirty, devices>>
    BY DEF PumpQueue, workerVars
<1>4. UpdateIn(eventQueue) => UpdateIn(eventQueue')
    BY <1>1, <1>2, UpdateInAppend DEF PumpQueue
<1>5. UpdateIn(btPump) => UpdateIn(btPump') \/ UpdateIn(eventQueue')
  <2>1. CASE Head(btPump).do = "update"
    <3>1. CASE Len(eventQueue) < QueueCap
        BY <1>1, <1>2, <2>1, <3>1, UpdateInAppend DEF PumpQueue
    <3>2. CASE ~(Len(eventQueue) < QueueCap)
      <4>1. Len(eventQueue) = QueueCap
          BY <1>1, <3>2, BluetoothAssumption
      <4> QED BY <1>4, <4>1 DEF FullQueueUpdates
    <3> QED BY <3>1, <3>2
  <2>2. CASE Head(btPump).do # "update"
      BY <1>1, <1>2, <2>2, UpdateInTail
  <2> QED BY <2>1, <2>2
<1>6. UpdateDue => UpdateDue'
    BY <1>3, <1>4, <1>5 DEF UpdateDue, bluezVars, notifierVars
<1>7. NotifierIsCurrent => NotifierIsCurrent'
    BY <1>3 DEF NotifierIsCurrent, Visible, bluezVars, notifierVars
<1> QED BY <1>3, <1>6, <1>7 DEF CurrentOrDue, bluezVars, notifierVars

LEMMA WorkerTakeDue == ASSUME BtInv, CurrentOrDue, WorkerTake PROVE CurrentOrDue'
<1>1. /\ eventQueue \in Seq(Events) /\ eventQueue # <<>> /\ eventQueue' = Tail(eventQueue)
      /\ worker = "idle" /\ Head(eventQueue) \in Events
    BY DEF BtInv, BtTypeOK, WorkerTake
<1>2. UNCHANGED <<bluezVars, btPump, notifierVars, btDirty, devices>>
    BY DEF WorkerTake
<1>3. UpdateIn(eventQueue) => worker' = "reading" \/ UpdateIn(eventQueue')
    BY <1>1, UpdateInTail DEF WorkerTake
<1>4. UpdateDue => UpdateDue'
    BY <1>1, <1>2, <1>3 DEF UpdateDue, bluezVars, notifierVars
<1>5. NotifierIsCurrent => NotifierIsCurrent'
    BY <1>2 DEF NotifierIsCurrent, Visible, bluezVars, notifierVars
<1> QED BY <1>2, <1>4, <1>5 DEF CurrentOrDue, bluezVars, notifierVars

LEMMA WorkerTrustDue == ASSUME BtInv, CurrentOrDue, WorkerTrust PROVE CurrentOrDue'
<1>1. /\ UNCHANGED <<startup, btPump, eventQueue, notifierVars, btDirty, devices>>
      /\ worker = "trusting"
    BY DEF WorkerTrust
<1>2. CASE bluez[workerDev] = "paired"
    BY <1>2, ChangeIsDue DEF WorkerTrust, BtInv, CurrentOrDue
<1>3. CASE bluez[workerDev] # "paired"
  <2>1. UNCHANGED <<bluez, btSignals>>
      BY <1>3 DEF WorkerTrust
  <2>2. UpdateDue => UpdateDue'
      BY <1>1, <2>1 DEF UpdateDue, UpdateIn, notifierVars
  <2>3. NotifierIsCurrent => NotifierIsCurrent'
      BY <1>1, <2>1 DEF NotifierIsCurrent, Visible, notifierVars
  <2> QED BY <1>1, <2>2, <2>3 DEF CurrentOrDue, notifierVars
<1> QED BY <1>2, <1>3

\* The worker's store is followed by its mark; a mark by the notifier's reading.
LEMMA ReadersDue ==
    ASSUME BtInv, CurrentOrDue,
           \/ WorkerRead \/ WorkerReadFails \/ WorkerStore \/ WorkerMark
           \/ NotifierMarked \/ NotifierRead \/ NotifierReadFails
           \/ NotifierStore \/ NotifierTell
    PROVE  CurrentOrDue'
<1>1. CASE \/ WorkerRead \/ WorkerReadFails \/ WorkerStore \/ WorkerMark
           \/ NotifierMarked \/ NotifierReadFails
    BY <1>1 DEF WorkerRead, WorkerReadFails, WorkerStore, WorkerMark, NotifierMarked,
                NotifierReadFails, CurrentOrDue, UpdateDue
<1>2. CASE NotifierRead
    BY <1>2 DEF NotifierRead, CurrentOrDue, NotifierIsCurrent, bluezVars
<1>3. CASE NotifierStore
  <2>1. UpdateDue => UpdateDue'
      BY <1>3 DEF NotifierStore, UpdateDue, UpdateIn, bluezVars, workerVars
  <2>2. NotifierIsCurrent => NotifierIsCurrent'
      BY <1>3 DEF NotifierStore, NotifierIsCurrent, bluezVars
  <2> QED BY <1>3, <2>1, <2>2 DEF CurrentOrDue, NotifierStore, bluezVars
<1>4. CASE NotifierTell
  <2>1. UpdateDue => UpdateDue'
      BY <1>4 DEF NotifierTell, UpdateDue, UpdateIn, bluezVars, workerVars
  <2>2. NotifierIsCurrent => NotifierIsCurrent'
    <3> SUFFICES ASSUME devices = bluez PROVE NotifierIsCurrent'
        BY <1>4 DEF NotifierTell, NotifierIsCurrent
    <3>1. notifier' = "idle" /\ devices' = devices /\ bluez' = bluez
        BY <1>4 DEF NotifierTell, bluezVars
    <3>2. known' = devices \/ (known' = known /\ Visible(known) = Visible(devices))
        BY <1>4 DEF NotifierTell
    <3>3. (Visible(known) = Visible(bluez))'
        BY <3>1, <3>2 DEF Visible
    <3> QED BY <3>1, <3>3 DEF NotifierIsCurrent
  <2> QED BY <1>4, <2>1, <2>2 DEF CurrentOrDue, NotifierTell, bluezVars
<1> QED BY <1>1, <1>2, <1>3, <1>4

LEMMA CurrentStep ==
    BtInv /\ Unmade /\ FullQueueUpdates /\ CurrentOrDue /\ [BtNext]_btVars => CurrentOrDue'
<1> SUFFICES ASSUME BtInv, Unmade, FullQueueUpdates, CurrentOrDue, [BtNext]_btVars
             PROVE  CurrentOrDue'
    OBVIOUS
<1>1. ASSUME NEW d \in BtDevices, NEW fact \in Facts, BtChange(d, fact) PROVE CurrentOrDue'
    BY <1>1, ChangeIsDue DEF BtChange, BtInv, CurrentOrDue
<1>2. ASSUME NEW c \in Pairers, PairSucceeds(c) PROVE CurrentOrDue'
    BY <1>2, ChangeIsDue DEF PairSucceeds, BtInv, CurrentOrDue
<1>3. ASSUME NEW c \in Pairers, NEW d \in BtDevices, PairStore(c, d) PROVE CurrentOrDue'
    BY <1>3, AsCurrent DEF PairStore, workerVars
<1>4. ASSUME NEW c \in Pairers, PairCall(c) \/ PairFails(c) \/ PairForget(c) PROVE CurrentOrDue'
    BY <1>4, AsCurrent DEF PairCall, PairFails, PairForget, workerVars
<1>5. CASE PumpTake \/ PumpQueue \/ WorkerTake \/ WorkerTrust
    BY <1>5, PumpTakeDue, PumpQueueDue, WorkerTakeDue, WorkerTrustDue
<1>6. CASE \/ WorkerRead \/ WorkerReadFails \/ WorkerStore \/ WorkerMark
           \/ NotifierMarked \/ NotifierRead \/ NotifierReadFails
           \/ NotifierStore \/ NotifierTell
    BY <1>6, ReadersDue
<1>7. CASE UNCHANGED btVars
    BY <1>7, AsCurrent DEF btVars, workerVars
<1>8. ASSUME NEW d \in BtDevices, NEW fact \in Facts, BtChangeUnheard(d, fact)
      PROVE  CurrentOrDue'
    BY <1>8 DEF BtChangeUnheard, CurrentOrDue
<1>9. CASE BtRead \/ BtSubscribe
    BY <1>9, MakingIsCurrent
<1> QED BY <1>1, <1>2, <1>3, <1>4, <1>5, <1>6, <1>7, <1>8, <1>9 DEF BtNext

LEMMA CurrentInit == BtInit => CurrentOrDue
BY DEF BtInit, CurrentOrDue

LEMMA RestIsCurrent == CurrentOrDue => DevicesAreCurrent
<1> SUFFICES ASSUME CurrentOrDue, BtAtRest, ~missed
             PROVE  devices = bluez /\ Visible(known) = Visible(bluez)
    BY DEF DevicesAreCurrent
<1>1. ~UpdateIn(<<>>)
    BY DEF UpdateIn
<1>2. ~UpdateDue
    BY <1>1 DEF BtAtRest, UpdateDue, NoEvents
<1> QED BY <1>2 DEF CurrentOrDue, NotifierIsCurrent, BtAtRest

\* As long as no full queue consists of devices to trust alone, the published devices are
\* BlueZ's whenever the manager is at rest and no change has been missed since the notifier's
\* last read: by a read that failed, or in the gap before NewManager's subscriptions.
THEOREM DevicesCurrentUnlessCrowded ==
    BtSpec /\ []FullQueueUpdates => []DevicesAreCurrent
<1> QED BY BluetoothInvariant, MadeLater, CurrentInit, CurrentStep, RestIsCurrent, PTL DEF BtSpec

-----------------------------------------------------------------------------
(* A full queue of devices to trust takes as many pairing requests.        *)

TrustsAt(q) == {i \in 1..Len(q) : q[i].do = "trust"}
Trusts(q) == Cardinality(TrustsAt(q))

\* Every trust that is queued, and every pending device, has cost a request of its own.
TrustsArePaid ==
    /\ IsFiniteSet(pendingPairings)
    /\ Cardinality(pendingPairings) + Trusts(btPump) + Trusts(eventQueue) <= pairs

LEMMA TrustsCounted ==
    ASSUME NEW q \in Seq(Events)
    PROVE  /\ IsFiniteSet(TrustsAt(q)) /\ Trusts(q) \in Nat
           /\ Trusts(q) < Len(q) => UpdateIn(q)
<1>1. IsFiniteSet(1..Len(q)) /\ Cardinality(1..Len(q)) = Len(q)
  <2>1. Len(q) \in Nat /\ Len(q) \in Int /\ 1 \in Int
      OBVIOUS
  <2>2. Cardinality(1..Len(q)) = IF 1 > Len(q) THEN 0 ELSE Len(q) - 1 + 1
      BY <2>1, FS_Interval
  <2> QED BY <2>1, <2>2, FS_Interval
<1>2. IsFiniteSet(TrustsAt(q))
    BY <1>1, FS_Subset DEF TrustsAt
<1>3. Trusts(q) \in Nat
    BY <1>2, FS_CardinalityType DEF Trusts
<1>4. ~UpdateIn(q) => TrustsAt(q) = 1..Len(q)
  <2>1. \A i \in 1..Len(q) : q[i] \in Events
      OBVIOUS
  <2>2. \A i \in 1..Len(q) : q[i].do \in {"trust", "update"}
      BY <2>1 DEF Events
  <2> QED BY <2>2 DEF UpdateIn, TrustsAt
<1> QED BY <1>1, <1>2, <1>3, <1>4 DEF Trusts

LEMMA TrustsOfAppend ==
    ASSUME NEW q \in Seq(Events), NEW e \in Events
    PROVE  Trusts(Append(q, e)) = Trusts(q) + (IF e.do = "trust" THEN 1 ELSE 0)
<1>1. /\ Len(Append(q, e)) = Len(q) + 1 /\ Append(q, e)[Len(q) + 1] = e
      /\ \A i \in 1..Len(q) : Append(q, e)[i] = q[i]
    OBVIOUS
<1>2. 1..(Len(q) + 1) = 1..Len(q) \cup {Len(q) + 1} /\ Len(q) + 1 \notin 1..Len(q)
    OBVIOUS
<1>3. TrustsAt(Append(q, e)) = TrustsAt(q) \cup (IF e.do = "trust" THEN {Len(q) + 1} ELSE {})
    BY <1>1, <1>2 DEF TrustsAt
<1>4. Len(q) + 1 \notin TrustsAt(q) /\ IsFiniteSet(TrustsAt(q)) /\ Trusts(q) \in Nat
    BY <1>2, TrustsCounted DEF TrustsAt
<1>5. CASE e.do = "trust"
    BY <1>3, <1>4, <1>5, FS_AddElement DEF Trusts
<1>6. CASE e.do # "trust"
    BY <1>3, <1>4, <1>6 DEF Trusts
<1> QED BY <1>5, <1>6

LEMMA TrustsOfTail ==
    ASSUME NEW q \in Seq(Events), q # <<>>
    PROVE  Trusts(Tail(q)) + (IF Head(q).do = "trust" THEN 1 ELSE 0) <= Trusts(q)
<1> DEFINE f == [i \in TrustsAt(Tail(q)) |-> i + 1]
           rest == TrustsAt(q) \ {1}
<1>1. Tail(q) \in Seq(Events) /\ Head(q) = q[1] /\ Len(q) \in Nat /\ Len(q) >= 1
    OBVIOUS
<1>2. Len(Tail(q)) = Len(q) - 1 /\ \A i \in 1..(Len(q) - 1) : Tail(q)[i] = q[i + 1]
    OBVIOUS
<1>3. /\ IsFiniteSet(TrustsAt(q)) /\ Trusts(q) \in Nat /\ Trusts(Tail(q)) \in Nat
      /\ IsFiniteSet(TrustsAt(Tail(q)))
    BY <1>1, TrustsCounted
<1>4. \A i \in TrustsAt(Tail(q)) : i \in Nat /\ i + 1 \in rest
    BY <1>1, <1>2 DEF TrustsAt
<1>5. f \in Injection(TrustsAt(Tail(q)), rest)
    BY <1>4 DEF Injection, IsInjective
<1>6. IsFiniteSet(rest) /\ Cardinality(rest) = Trusts(q) - (IF 1 \in TrustsAt(q) THEN 1 ELSE 0)
    BY <1>3, FS_RemoveElement DEF Trusts
<1>7. Trusts(Tail(q)) <= Cardinality(rest)
    BY <1>5, <1>6, FS_Injection DEF Trusts
<1>8. Head(q).do = "trust" => 1 \in TrustsAt(q)
    BY <1>1 DEF TrustsAt
<1> HIDE DEF rest
<1> QED BY <1>3, <1>6, <1>7, <1>8

\* A request pays for the device it makes pending; forgetting a device costs nothing.
LEMMA PendingsPaid ==
    ASSUME TrustsArePaid, BtTypeOK, pairs' \in Nat, UNCHANGED <<btPump, eventQueue>>,
           \/ pendingPairings' \subseteq pendingPairings /\ pairs' = pairs
           \/ /\ pairs' = pairs + 1
              /\ \E d \in BtDevices : pendingPairings' = pendingPairings \cup {d}
    PROVE  TrustsArePaid'
<1>1. /\ IsFiniteSet(pendingPairings) /\ Cardinality(pendingPairings) \in Nat
      /\ pairs \in Nat /\ btPump \in Seq(Events) /\ eventQueue \in Seq(Events)
    BY FS_CardinalityType, BluetoothAssumption DEF TrustsArePaid, BtTypeOK
<1>2. Trusts(btPump) \in Nat /\ Trusts(eventQueue) \in Nat
    BY <1>1, TrustsCounted
<1>3. UNCHANGED <<Trusts(btPump), Trusts(eventQueue)>>
    BY DEF Trusts, TrustsAt
<1>4. CASE pendingPairings' \subseteq pendingPairings /\ pairs' = pairs
  <2>1. /\ IsFiniteSet(pendingPairings') /\ Cardinality(pendingPairings') \in Nat
        /\ Cardinality(pendingPairings') <= Cardinality(pendingPairings)
      BY <1>1, <1>4, FS_Subset, FS_CardinalityType
  <2> QED BY <1>1, <1>2, <1>3, <1>4, <2>1 DEF TrustsArePaid
<1>5. ASSUME pairs' = pairs + 1, NEW d \in BtDevices, pendingPairings' = pendingPairings \cup {d}
      PROVE  TrustsArePaid'
  <2>1. IsFiniteSet(pendingPairings')
      BY <1>1, <1>5, FS_AddElement
  <2>2. Cardinality(pendingPairings') \in Nat
      BY <2>1, FS_CardinalityType
  <2>3. Cardinality(pendingPairings') = Cardinality(pendingPairings)
        \/ Cardinality(pendingPairings') = Cardinality(pendingPairings) + 1
      BY <1>1, <1>5, FS_AddElement
  <2> QED BY <1>1, <1>2, <1>3, <1>5, <2>1, <2>2, <2>3 DEF TrustsArePaid
<1> QED BY <1>4, <1>5

LEMMA PumpTakePaid == ASSUME BtInv, TrustsArePaid, PumpTake PROVE TrustsArePaid'
<1> DEFINE sig == Head(btSignals)
           trust == [do |-> "trust", dev |-> sig.dev]
           update == [do |-> "update", dev |-> sig.dev]
<1>1. /\ BtTypeOK /\ IsFiniteSet(pendingPairings) /\ Cardinality(pendingPairings) \in Nat
      /\ pairs \in Nat /\ eventQueue \in Seq(Events) /\ Trusts(eventQueue) \in Nat
    BY FS_CardinalityType, BluetoothAssumption, TrustsCounted DEF BtInv, TrustsArePaid, BtTypeOK
<1>2. UNCHANGED <<pairs, eventQueue>>
    BY DEF PumpTake
<1>3. Trusts(eventQueue') = Trusts(eventQueue)
    BY <1>2
<1>4. btPump = <<>> /\ Trusts(btPump) \in Nat
    BY <1>1, TrustsCounted DEF PumpTake, NoEvents, BtTypeOK
<1>5. sig \in BtSignals
    BY <1>1, TailAccounts DEF BtTypeOK, PumpTake
<1>6. trust \in Events /\ update \in Events /\ trust.do = "trust" /\ update.do = "update"
    BY <1>5 DEF Events, BtSignals
<1> HIDE DEF trust, update, sig
<1>7. Trusts(<<update>>) = 0 /\ Trusts(<<trust, update>>) = 1 /\ Trusts(<<>>) = 0
  <2>1. TrustsAt(<<>>) = {}
      BY DEF TrustsAt
  <2>2. Trusts(<<>>) = 0 /\ <<>> \in Seq(Events)
      BY <2>1, FS_EmptySet DEF Trusts
  <2>3. /\ <<update>> = Append(<<>>, update) /\ <<trust, update>> = Append(<<trust>>, update)
        /\ <<trust>> = Append(<<>>, trust) /\ <<trust>> \in Seq(Events)
      BY <1>6
  <2>4. /\ Trusts(Append(<<>>, update)) = Trusts(<<>>) + 0
        /\ Trusts(Append(<<>>, trust)) = Trusts(<<>>) + 1
      BY <1>6, <2>2, TrustsOfAppend
  <2>5. Trusts(<<update>>) = 0 /\ Trusts(<<trust>>) = 1
      BY <2>2, <2>3, <2>4
  <2>6. Trusts(Append(<<trust>>, update)) = Trusts(<<trust>>) + 0
      BY <1>6, <2>3, TrustsOfAppend
  <2>7. Trusts(<<trust, update>>) = Trusts(Append(<<trust>>, update))
      BY <2>3, Zenon
  <2>8. Trusts(<<trust, update>>) = 1
      BY <2>5, <2>6, <2>7
  <2> QED BY <2>2, <2>5, <2>8
<1>8. \/ btPump' = btPump /\ pendingPairings' = pendingPairings
      \/ btPump' = <<update>> /\ pendingPairings' \subseteq pendingPairings
      \/ /\ btPump' = <<trust, update>> /\ sig.dev \in pendingPairings
         /\ pendingPairings' = pendingPairings \ {sig.dev}
    BY DEF PumpTake, sig, trust, update
<1>9. CASE btPump' = btPump /\ pendingPairings' = pendingPairings
  <2>1. Trusts(btPump') = Trusts(btPump)
      BY <1>9
  <2> QED BY <1>1, <1>2, <1>9, <2>1, <1>3 DEF TrustsArePaid, Trusts, TrustsAt
<1>10. CASE btPump' = <<update>> /\ pendingPairings' \subseteq pendingPairings
  <2>1. /\ IsFiniteSet(pendingPairings') /\ Cardinality(pendingPairings') \in Nat
        /\ Cardinality(pendingPairings') <= Cardinality(pendingPairings)
      BY <1>1, <1>10, FS_Subset, FS_CardinalityType
  <2>2. (Trusts(btPump))' = 0 /\ (Trusts(eventQueue))' = Trusts(eventQueue)
      BY <1>3, <1>7, <1>10 DEF Trusts, TrustsAt
  <2>3. Cardinality(pendingPairings) + Trusts(eventQueue) <= pairs
      BY <1>1, <1>4, <1>7 DEF TrustsArePaid
  <2> QED BY <1>1, <1>2, <2>1, <2>2, <2>3 DEF TrustsArePaid
<1>11. CASE /\ btPump' = <<trust, update>> /\ sig.dev \in pendingPairings
            /\ pendingPairings' = pendingPairings \ {sig.dev}
  <2>1. /\ IsFiniteSet(pendingPairings')
        /\ Cardinality(pendingPairings') = Cardinality(pendingPairings) - 1
      BY <1>1, <1>11, FS_RemoveElement
  <2>2. (Trusts(btPump))' = 1 /\ (Trusts(eventQueue))' = Trusts(eventQueue)
      BY <1>3, <1>7, <1>11 DEF Trusts, TrustsAt
  <2>3. Cardinality(pendingPairings) + Trusts(eventQueue) <= pairs
      BY <1>1, <1>4, <1>7 DEF TrustsArePaid
  <2> QED BY <1>1, <1>2, <2>1, <2>2, <2>3 DEF TrustsArePaid
<1> QED BY <1>8, <1>9, <1>10, <1>11

LEMMA QueuePaid == ASSUME BtInv, TrustsArePaid, PumpQueue \/ WorkerTake PROVE TrustsArePaid'
<1>1. /\ BtTypeOK /\ IsFiniteSet(pendingPairings) /\ Cardinality(pendingPairings) \in Nat
      /\ pairs \in Nat /\ btPump \in Seq(Events) /\ eventQueue \in Seq(Events)
      /\ Trusts(btPump) \in Nat /\ Trusts(eventQueue) \in Nat
    BY FS_CardinalityType, BluetoothAssumption, TrustsCounted DEF BtInv, TrustsArePaid, BtTypeOK
<1>2. UNCHANGED <<pairs, pendingPairings>>
    BY DEF PumpQueue, WorkerTake, pairVars
<1>3. CASE PumpQueue
  <2>1. btPump # <<>> /\ btPump' = Tail(btPump) /\ Head(btPump) \in Events
      BY <1>1, <1>3 DEF PumpQueue, NoEvents
  <2> DEFINE one == IF Head(btPump).do = "trust" THEN 1 ELSE 0
  <2>2. Trusts(Tail(btPump)) + one <= Trusts(btPump) /\ Trusts(Tail(btPump)) \in Nat
    <3>1. Tail(btPump) \in Seq(Events)
        BY <1>1, <2>1
    <3> QED BY <1>1, <2>1, <3>1, TrustsOfTail, TrustsCounted
  <2>3. Trusts(eventQueue') \in Nat /\ Trusts(eventQueue') <= Trusts(eventQueue) + one
      BY <1>1, <1>3, <2>1, TrustsOfAppend DEF PumpQueue
  <2>4. (Trusts(btPump))' = Trusts(Tail(btPump)) /\ (Trusts(eventQueue))' = Trusts(eventQueue')
      BY <2>1 DEF Trusts, TrustsAt
  <2> QED BY <1>1, <1>2, <2>2, <2>3, <2>4 DEF TrustsArePaid
<1>4. CASE WorkerTake
  <2>1. eventQueue # <<>> /\ eventQueue' = Tail(eventQueue) /\ btPump' = btPump
      BY <1>4 DEF WorkerTake
  <2>2. Trusts(Tail(eventQueue)) <= Trusts(eventQueue) /\ Trusts(Tail(eventQueue)) \in Nat
    <3>1. Tail(eventQueue) \in Seq(Events)
        BY <1>1, <2>1
    <3>2. Trusts(Tail(eventQueue)) \in Nat
        BY <3>1, TrustsCounted
    <3>3. \/ Trusts(Tail(eventQueue)) + 1 <= Trusts(eventQueue)
          \/ Trusts(Tail(eventQueue)) + 0 <= Trusts(eventQueue)
        BY <1>1, <2>1, TrustsOfTail
    <3> QED BY <1>1, <3>2, <3>3
  <2>3. (Trusts(btPump))' = Trusts(btPump) /\ (Trusts(eventQueue))' = Trusts(Tail(eventQueue))
      BY <2>1 DEF Trusts, TrustsAt
  <2> QED BY <1>1, <1>2, <2>2, <2>3 DEF TrustsArePaid
<1> QED BY <1>3, <1>4

LEMMA PaidStep == BtInv /\ TrustsArePaid /\ [BtNext]_btVars => TrustsArePaid'
<1> SUFFICES ASSUME BtInv, TrustsArePaid, [BtNext]_btVars PROVE TrustsArePaid'
    OBVIOUS
<1>1. BtTypeOK /\ pairs \in Nat
    BY BluetoothAssumption DEF BtInv, BtTypeOK
<1>2. ASSUME UNCHANGED <<pairVars, btPump, eventQueue>> PROVE TrustsArePaid'
    BY <1>1, <1>2, PendingsPaid DEF pairVars
<1>3. ASSUME NEW d \in BtDevices, NEW fact \in Facts, BtChange(d, fact) PROVE TrustsArePaid'
    BY <1>2, <1>3 DEF BtChange
<1>4. ASSUME NEW c \in Pairers, NEW d \in BtDevices, PairStore(c, d) PROVE TrustsArePaid'
    BY <1>1, <1>4, PendingsPaid DEF PairStore
<1>5. ASSUME NEW c \in Pairers, PairCall(c) \/ PairSucceeds(c) \/ PairFails(c) \/ PairForget(c)
      PROVE  TrustsArePaid'
    BY <1>1, <1>5, PendingsPaid DEF PairCall, PairSucceeds, PairFails, PairForget
<1>6. CASE WorkerTrust \/ WorkerRead \/ WorkerReadFails \/ WorkerStore \/ WorkerMark
    BY <1>2, <1>6 DEF WorkerTrust, WorkerRead, WorkerReadFails, WorkerStore, WorkerMark
<1>7. CASE NotifierMarked \/ NotifierRead \/ NotifierReadFails \/ NotifierStore \/ NotifierTell
    BY <1>2, <1>7 DEF NotifierMarked, NotifierRead, NotifierReadFails, NotifierStore, NotifierTell
<1>8. CASE UNCHANGED btVars
    BY <1>2, <1>8 DEF btVars
<1>9. ASSUME NEW d \in BtDevices, NEW fact \in Facts, BtChangeUnheard(d, fact)
      PROVE  TrustsArePaid'
    BY <1>2, <1>9 DEF BtChangeUnheard
<1>10. CASE BtRead \/ BtSubscribe
    BY <1>2, <1>10 DEF BtRead, BtSubscribe
<1> QED BY <1>3, <1>4, <1>5, <1>6, <1>7, <1>8, <1>9, <1>10, PumpTakePaid, QueuePaid DEF BtNext

LEMMA PaidInit == BtInit => TrustsArePaid
<1> SUFFICES ASSUME BtInit PROVE TrustsArePaid
    OBVIOUS
<1>1. TrustsAt(<<>>) = {}
    BY DEF TrustsAt
<1>2. Cardinality({}) = 0 /\ IsFiniteSet({})
    BY FS_EmptySet
<1>3. btPump = <<>> /\ eventQueue = <<>> /\ pendingPairings = {} /\ pairs = 0
    BY DEF BtInit, NoEvents
<1>4. Trusts(btPump) = 0 /\ Trusts(eventQueue) = 0
    BY <1>1, <1>2, <1>3 DEF Trusts
<1> QED BY <1>2, <1>3, <1>4 DEF TrustsArePaid

LEMMA RoomUpdates ==
    ASSUME QueueCap > MaxPairs, BtInv, TrustsArePaid PROVE FullQueueUpdates
<1>1. /\ pairs \in 0..MaxPairs /\ btPump \in Seq(Events) /\ eventQueue \in Seq(Events)
      /\ Cardinality(pendingPairings) \in Nat
    BY FS_CardinalityType DEF BtInv, BtTypeOK, TrustsArePaid
<1>2. Trusts(btPump) \in Nat /\ Trusts(eventQueue) \in Nat
    BY <1>1, TrustsCounted
<1>3. Trusts(eventQueue) <= MaxPairs
    BY <1>1, <1>2, BluetoothAssumption DEF TrustsArePaid
<1>4. Len(eventQueue) = QueueCap => Trusts(eventQueue) < Len(eventQueue)
    BY <1>2, <1>3, BluetoothAssumption
<1> QED BY <1>1, <1>4, TrustsCounted DEF FullQueueUpdates

\* With fewer pairing requests than the queue holds events no full queue is so crowded: at rest
\* the published devices are BlueZ's, whatever the queue dropped, unless a change was missed.
THEOREM DevicesStayCurrent ==
    ASSUME QueueCap > MaxPairs PROVE BtSpec => []DevicesAreCurrent
<1>1. BtInv /\ TrustsArePaid => FullQueueUpdates
    BY RoomUpdates
<1> QED BY <1>1, BluetoothInvariant, PaidInit, PaidStep, DevicesCurrentUnlessCrowded, PTL
        DEF BtSpec

-----------------------------------------------------------------------------
(***************************************************************************)
(* DdcBrightness, for any monitors, values, callers and number of changes. *)
(***************************************************************************)

Shownable == Percents \cup {Unset}
TimerPlaces == {"none", "armed", "fired", "open", "write", "store", "read", "publish"}
SomeDevice == CHOOSE d \in Devices : TRUE
TimerRecords == [st : TimerPlaces, dev : Devices \cup {SomeDevice}, value : Shownable]
SetterRecords == [st : {"ready", "find", "debounce", "refused", "restore"},
                  dev : Devices \cup {SomeDevice}, value : Shownable]

Busy == {t \in Timers : timer[t].st # "none"}
Asking == {c \in Callers : setter[c].st \in {"find", "debounce"}}

DebounceTypes ==
    /\ debouncePending \in [Devices -> Shownable] /\ debounceTimers \in [Devices -> Timers \cup {0}]
    /\ lastSet \in [Devices -> Shownable]
    /\ overlappedSet \in [Devices -> BOOLEAN] /\ failedSet \in [Devices -> BOOLEAN]
TimerTypes ==
    /\ timer \in [Timers -> TimerRecords]
    /\ \A t \in Busy : timer[t].dev \in Devices
    /\ \A t \in Timers : timer[t].st \in {"open", "write", "store"} => timer[t].value \in Percents
SetterTypes ==
    /\ setter \in [Callers -> SetterRecords]
    /\ \A c \in Asking : setter[c].dev \in Devices /\ setter[c].value \in Percents
BusTypes ==
    /\ scanned \subseteq Devices /\ onBus \subseteq Devices
    /\ lastBrightness \in [Devices -> Percents] /\ shown \in [Devices -> Percents]
StateTypes ==
    /\ deviceState \in [Devices -> [current : Shownable, percent : Shownable]]
    /\ seenDevices \in [Updaters -> [Devices -> Shownable] \cup {NotRead}]
    /\ outrun \subseteq Updaters /\ outdated \in BOOLEAN
\* Who is to store the state has read it.
StorersHaveRead ==
    /\ \A t \in Timers : timer[t].st = "publish" => seenDevices[t] \in [Devices -> Shownable]
    /\ \A c \in Callers : setter[c].st = "restore" => seenDevices[c] \in [Devices -> Shownable]
DdcTypes ==
    DebounceTypes /\ TimerTypes /\ SetterTypes /\ BusTypes /\ StateTypes /\ StorersHaveRead

\* The wait group counts the timers, and no more timers are made than changes were asked for.
WaitGroupCounts ==
    /\ debounceWg = Cardinality(Busy)
    /\ IsFiniteSet(Asking) /\ Cardinality(Busy) + Cardinality(Asking) <= sets
    /\ sets \in 0..MaxSets

\* A value that is pending is the last one, and a timer in the map is to take it.
PendingIsLast == \A d \in Devices :
    /\ debounceTimers[d] # 0 =>
           timer[debounceTimers[d]].dev = d /\ timer[debounceTimers[d]].st \in {"armed", "fired"}
    /\ debouncePending[d] # Unset => debounceTimers[d] # 0 /\ debouncePending[d] = lastSet[d]

\* Once taken, the last value is on its way to the monitor or shown by it, and known.
WellWritten(d) ==
    debouncePending[d] = Unset /\ lastSet[d] # Unset /\ ~overlappedSet[d] /\ ~failedSet[d]
LastIsWritten == \A d \in Devices : WellWritten(d) =>
    /\ \A t \in Writing(d) : timer[t].value = lastSet[d]
    /\ \A s, t \in Writing(d) : s = t
    /\ Writing(d) = {} => lastBrightness[d] = lastSet[d]
    /\ shown[d] = lastSet[d] \/ \E t \in Writing(d) : timer[t].st \in {"open", "write"}

View(d) == IF d \in scanned THEN lastBrightness[d] ELSE Unset
\* Someone is to read the devices.
ReaderDue ==
    \/ \E c \in Callers : setter[c].st \in {"debounce", "refused"}
    \/ \E d \in Devices : debouncePending[d] # Unset
    \/ \E t \in Timers : timer[t].st \in {"open", "write", "store", "read"}
ReadUnderWay(u) == seenDevices[u] # NotRead
ReadsCurrent(u) == \A d \in Devices : seenDevices[u][d] = View(d)
\* What is known is published, or will be: by someone who has read it, or is to read it.
\* Whoever has read something else has been outrun.
PublishedOrDue ==
    \/ ReaderDue
    \/ \E u \in Updaters : ReadUnderWay(u) /\ ReadsCurrent(u)
    \/ /\ outdated \/ \A d \in Devices : deviceState[d].current = View(d)
       /\ \A u \in Updaters : ReadUnderWay(u) => u \in outrun

DdcInv == DdcTypes /\ WaitGroupCounts /\ PendingIsLast /\ LastIsWritten /\ PublishedOrDue
-----------------------------------------------------------------------------
LEMMA DdcInitInv == DdcInit => DdcInv
<1> SUFFICES ASSUME DdcInit PROVE DdcInv
    OBVIOUS
<1> DEFINE v == CHOOSE v \in Percents : TRUE
<1>0. v \in Percents /\ Percents # {} /\ Unset \notin Percents /\ MaxSets \in Nat
    BY DdcAssumption
<1>1. /\ timer = [t \in Timers |-> NoTimerSet] /\ NoTimerSet \in TimerRecords /\ NoTimerSet.st = "none"
      /\ setter = [c \in Callers |-> Ready] /\ Ready \in SetterRecords /\ Ready.st = "ready"
    BY DEF DdcInit, NoTimerSet, Ready, TimerRecords, SetterRecords, TimerPlaces, SomeDevice, Shownable
<1>2. Busy = {} /\ Asking = {}
    BY <1>1 DEF Busy, Asking
<1>3. /\ shown = [d \in Devices |-> v] /\ lastBrightness = [d \in Devices |-> v]
      /\ \A d \in Devices : deviceState[d] = [current |-> v, percent |-> v]
      /\ deviceState \in [Devices -> [current : Shownable, percent : Shownable]]
    BY <1>0 DEF DdcInit, Shownable
<1>4. DdcTypes
    <2>1. /\ timer \in [Timers -> TimerRecords] /\ setter \in [Callers -> SetterRecords]
          /\ \A t \in Timers : timer[t].st = "none"
          /\ \A c \in Callers : setter[c].st = "ready"
        BY <1>1
    <2>2. outdated \in BOOLEAN /\ overlappedSet \in [Devices -> BOOLEAN]
             /\ failedSet \in [Devices -> BOOLEAN]
        BY DEF DdcInit
    <2> QED BY <1>0, <1>2, <1>3, <2>1, <2>2 DEF DdcInit, DdcTypes, Shownable, DebounceTypes, TimerTypes,
            SetterTypes, BusTypes, StateTypes, StorersHaveRead
<1>5. WaitGroupCounts
    BY <1>0, <1>2, FS_EmptySet DEF WaitGroupCounts, DdcInit
<1>6. PendingIsLast /\ LastIsWritten
    BY DEF DdcInit, PendingIsLast, LastIsWritten, WellWritten
<1>7. PublishedOrDue
    BY <1>3 DEF DdcInit, PublishedOrDue, View, ReadUnderWay
<1> QED BY <1>4, <1>5, <1>6, <1>7 DEF DdcInv

\* A timer that moves on keeps its device; the others stay.
LEMMA TimerGoesTo ==
    ASSUME DdcTypes, NEW t \in Timers, NEW st \in TimerPlaces, TimerGoes(t, st)
    PROVE  /\ timer' \in [Timers -> TimerRecords]
           /\ timer'[t].st = st /\ timer'[t].dev = timer[t].dev /\ timer'[t].value = timer[t].value
           /\ \A s \in Timers : s # t => timer'[s] = timer[s]
BY DEF DdcTypes, TimerTypes, TimerGoes, TimerRecords

LEMMA TimerGoesBack ==
    ASSUME DdcTypes, NEW t \in Timers, TimerCallsBack(t)
    PROVE  /\ timer' \in [Timers -> TimerRecords]
           /\ timer'[t].st = "read" /\ timer'[t].dev = timer[t].dev
           /\ \A s \in Timers : s # t => timer'[s] = timer[s]
<1>1. timer[t] \in TimerRecords /\ timer \in [Timers -> TimerRecords]
    BY DEF DdcTypes, TimerTypes
<1>2. timer' = [timer EXCEPT ![t] = [[timer[t] EXCEPT !.st = "read"] EXCEPT !.value = Unset]]
    BY <1>1 DEF TimerCallsBack
<1>3. [timer[t] EXCEPT !.st = "read"] \in TimerRecords
    BY <1>1 DEF TimerRecords, TimerPlaces
<1>4. [[timer[t] EXCEPT !.st = "read"] EXCEPT !.value = Unset] \in TimerRecords
    BY <1>3 DEF TimerRecords, Shownable
<1> QED BY <1>1, <1>2, <1>4 DEF TimerRecords

LEMMA SetterGoesTo ==
    ASSUME DdcTypes, NEW c \in Callers, NEW st \in {"debounce", "restore"}, SetterGoes(c, st)
    PROVE  /\ setter' \in [Callers -> SetterRecords]
           /\ setter'[c].st = st /\ setter'[c].dev = setter[c].dev /\ setter'[c].value = setter[c].value
           /\ \A b \in Callers : b # c => setter'[b] = setter[b]
<1>1. setter[c] \in SetterRecords /\ setter \in [Callers -> SetterRecords]
    BY DEF DdcTypes, SetterTypes
<1>2. setter' = [setter EXCEPT ![c] = [setter[c] EXCEPT !.st = st]]
    BY <1>1 DEF SetterGoes
<1>3. [setter[c] EXCEPT !.st = st] \in SetterRecords
    BY <1>1 DEF SetterRecords
<1> QED BY <1>1, <1>2, <1>3 DEF SetterRecords

LEMMA NoneAndReady ==
    /\ NoTimerSet \in TimerRecords /\ NoTimerSet.st = "none"
    /\ Ready \in SetterRecords /\ Ready.st = "ready"
    /\ [Ready EXCEPT !.st = "refused"] \in SetterRecords /\ [Ready EXCEPT !.st = "refused"].st = "refused"
BY DEF NoTimerSet, Ready, TimerRecords, SetterRecords, TimerPlaces, SomeDevice, Shownable

\* Timers, callers and the rescan are different updaters.
LEMMA UpdatersApart ==
    /\ Timers \subseteq Updaters /\ Callers \subseteq Updaters /\ 0 \in Updaters
    /\ 0 \notin Timers /\ 0 \notin Callers /\ \A c \in Callers : c \notin Timers
<1>1. MaxSets \in Nat /\ Callers \cap 0..MaxSets = {}
    BY DdcAssumption
<1>2. 0 \in 0..MaxSets /\ Timers \subseteq 0..MaxSets /\ 0 \notin Timers
    BY <1>1 DEF Timers
<1> QED BY <1>1, <1>2 DEF Updaters

\* A scan leaves what is known and what is shown well-formed.
LEMMA ScanTypes ==
    ASSUME DdcTypes, Scan \/ UNCHANGED busVars
    PROVE  /\ scanned' \subseteq Devices /\ onBus' = onBus /\ shown' = shown
           /\ lastBrightness' \in [Devices -> Percents]
           /\ \A d \in Devices : lastBrightness'[d] \in {lastBrightness[d], shown[d]}
BY DEF DdcTypes, BusTypes, Scan, busVars

\* Whoever asked for a change finds an unused timer.
LEMMA UnusedExists ==
    ASSUME DdcInv, NEW c \in Callers, setter[c].st = "debounce"
    PROVE  Unused \in Timers /\ timer[Unused].st = "none"
<1>0. MaxSets \in Nat
    BY DdcAssumption
<1>1. Cardinality(Asking) \in Nat /\ Cardinality(Asking) # 0
    BY FS_EmptySet, FS_CardinalityType DEF DdcInv, WaitGroupCounts, Asking
<1>2. IsFiniteSet(Timers) /\ Cardinality(Timers) = MaxSets
    BY <1>0, FS_Interval DEF Timers
<1>3. IsFiniteSet(Busy) /\ Cardinality(Busy) \in Nat
    BY <1>2, FS_Subset, FS_CardinalityType DEF Busy
<1>4. Cardinality(Busy) < MaxSets
    BY <1>0, <1>1, <1>3 DEF DdcInv, WaitGroupCounts
<1>5. Busy # Timers
    BY <1>0, <1>2, <1>3, <1>4
<1>6. \E t \in Timers : timer[t].st = "none"
    BY <1>5 DEF Busy
<1> QED BY <1>6 DEF Unused

\* The devices read: a well-formed view of what is known then.
LEMMA ReadFacts ==
    ASSUME DdcTypes, NEW u \in Updaters, Scan \/ UNCHANGED busVars,
           seenDevices' = [seenDevices EXCEPT ![u] =
               [d \in Devices |-> IF d \in scanned' THEN lastBrightness'[d] ELSE Unset]]
    PROVE  /\ seenDevices'[u] \in [Devices -> Shownable]
           /\ \A d \in Devices : seenDevices'[u][d] = View(d)'
           /\ \A w \in Updaters : w # u => seenDevices'[w] = seenDevices[w]
           /\ seenDevices' \in [Updaters -> [Devices -> Shownable] \cup {NotRead}]
<1>1. scanned' \subseteq Devices /\ lastBrightness' \in [Devices -> Percents]
    BY ScanTypes
<1> QED BY <1>1 DEF DdcTypes, StateTypes, View, Shownable

\* The state stored is what was read.
LEMMA StoreFacts ==
    ASSUME DdcTypes, NEW u \in Updaters, StoreState(u), seenDevices[u] \in [Devices -> Shownable]
    PROVE  /\ deviceState' \in [Devices -> [current : Shownable, percent : Shownable]]
           /\ \A d \in Devices : deviceState'[d].current = seenDevices[u][d]
           /\ seenDevices'[u] = NotRead
           /\ \A w \in Updaters : w # u => seenDevices'[w] = seenDevices[w]
           /\ seenDevices' \in [Updaters -> [Devices -> Shownable] \cup {NotRead}]
           /\ outrun' \subseteq Updaters /\ outdated' \in BOOLEAN
           /\ outdated' = (u \in outrun)
           /\ \A w \in Updaters : w # u /\ ReadUnderWay(w) => w \in outrun'
<1>1. CASE \E d \in Devices : seenDevices[u][d] # deviceState[d].current
    BY <1>1 DEF DdcTypes, StateTypes, StoreState, ReadUnderWay
<1>2. CASE ~\E d \in Devices : seenDevices[u][d] # deviceState[d].current
    BY <1>2 DEF DdcTypes, StateTypes, StoreState, ReadUnderWay
<1> QED BY <1>1, <1>2

-----------------------------------------------------------------------------
(* Types. *)

LEMMA SetterTypesKept ==
    ASSUME DdcInv, NEW c \in Callers, SetStep(c)
    PROVE  DdcTypes'
<1> USE DEF DdcInv, DdcTypes
<1>1. ASSUME NEW d \in Devices, NEW v \in Percents, AskBrightness(c, d, v)
      PROVE  DdcTypes'
    <2> DEFINE r == [st |-> "find", dev |-> d, value |-> v]
    <2>1. setter' = [setter EXCEPT ![c] = r] /\ r \in SetterRecords
        BY <1>1 DEF AskBrightness, SetterRecords, Shownable
    <2>2. SetterTypes' /\ \A b \in Callers : setter'[b].st = "restore" => setter[b].st = "restore"
        BY <2>1 DEF SetterTypes, Asking
    <2>3. StateTypes'
        BY <1>1 DEF AskBrightness, StateTypes, Shownable
    <2> QED BY <1>1, <2>2, <2>3 DEF AskBrightness, busVars, debounceVars, DebounceTypes, TimerTypes,
                BusTypes, StorersHaveRead, Busy
<1>2. CASE FindDevice(c)
    <2>1. BusTypes'
        BY <1>2, ScanTypes DEF FindDevice, BusTypes
    <2>2. SetterTypes' /\ \A b \in Callers : setter'[b].st = "restore" => setter[b].st = "restore"
        <3>1. CASE SetterGoes(c, "debounce")
            BY <3>1, <1>2, SetterGoesTo DEF SetterTypes, Asking, FindDevice
        <3>2. CASE setter' = [setter EXCEPT ![c] = [Ready EXCEPT !.st = "refused"]]
            BY <3>2, NoneAndReady DEF SetterTypes, Asking
        <3> QED BY <1>2, <3>1, <3>2 DEF FindDevice
    <2> QED BY <1>2, <2>1, <2>2 DEF FindDevice, debounceVars, publishedVars, DebounceTypes, TimerTypes,
                StateTypes, StorersHaveRead, Busy
<1>3. CASE Debounce(c)
    <2> DEFINE d == setter[c].dev
               v == setter[c].value
               old == debounceTimers[d]
               stops == old # 0 /\ timer[old].st = "armed"
    <2>1. d \in Devices /\ v \in Percents /\ Unused \in Timers /\ timer[Unused].st = "none"
        BY <1>3, UnusedExists DEF Debounce, SetterTypes, Asking
    <2>2. TimerTypes' /\ \A t \in Timers : timer'[t].st = "publish" => timer[t].st = "publish"
        <3> DEFINE r == [st |-> "armed", dev |-> d, value |-> Unset]
        <3>1. r \in TimerRecords
            BY <2>1 DEF TimerRecords, TimerPlaces, Shownable
        <3>2. timer' = [s \in Timers |-> IF s = Unused THEN r
                                         ELSE IF stops /\ s = old THEN NoTimerSet ELSE timer[s]]
            BY <1>3 DEF Debounce
        <3>3. timer' \in [Timers -> TimerRecords]
            BY <3>1, <3>2, NoneAndReady DEF TimerTypes
        <3> QED BY <2>1, <3>2, <3>3, NoneAndReady DEF TimerTypes, Busy
    <2>3. DebounceTypes'
        BY <1>3, <2>1 DEF Debounce, DebounceTypes, Shownable
    <2>4. SetterTypes' /\ \A b \in Callers : setter'[b].st = "restore" => setter[b].st = "restore"
        <3>1. setter' = [setter EXCEPT ![c] = Ready]
            BY <1>3 DEF Debounce
        <3> QED BY <3>1, NoneAndReady DEF SetterTypes, Asking
    <2> QED BY <1>3, <2>2, <2>3, <2>4 DEF Debounce, busVars, publishedVars, BusTypes,
                StateTypes, StorersHaveRead
<1>4. CASE RefusedRead(c)
    <2>1. c \in Updaters /\ c \notin Timers
        BY UpdatersApart
    <2>2. /\ seenDevices'[c] \in [Devices -> Shownable]
          /\ \A w \in Updaters : w # c => seenDevices'[w] = seenDevices[w]
          /\ seenDevices' \in [Updaters -> [Devices -> Shownable] \cup {NotRead}]
        BY <1>4, <2>1, ReadFacts DEF RefusedRead, ReadDevices
    <2>3. BusTypes'
        BY <1>4, ScanTypes DEF RefusedRead, ReadDevices, BusTypes
    <2>4. /\ setter' \in [Callers -> SetterRecords] /\ setter'[c].st = "restore"
          /\ \A b \in Callers : b # c => setter'[b] = setter[b]
        BY <1>4, SetterGoesTo DEF RefusedRead
    <2>5. SetterTypes'
        BY <2>4 DEF SetterTypes, Asking
    <2>6. StateTypes'
        BY <1>4, <2>2 DEF RefusedRead, ReadDevices, StateTypes
    <2>7. StorersHaveRead'
        BY <1>4, <2>1, <2>2, <2>4 DEF RefusedRead, StorersHaveRead, Updaters
    <2> QED BY <1>4, <2>3, <2>5, <2>6, <2>7 DEF RefusedRead, debounceVars, DebounceTypes, TimerTypes, Busy
<1>5. CASE RefusedStore(c)
    <2>1. c \in Updaters /\ c \notin Timers /\ seenDevices[c] \in [Devices -> Shownable]
        BY <1>5, UpdatersApart DEF RefusedStore, StorersHaveRead
    <2>2. /\ StateTypes'
          /\ \A w \in Updaters : w # c => seenDevices'[w] = seenDevices[w]
        BY <1>5, <2>1, StoreFacts DEF RefusedStore, StateTypes
    <2>3. /\ setter' \in [Callers -> SetterRecords] /\ setter'[c].st = "ready"
          /\ \A b \in Callers : b # c => setter'[b] = setter[b]
        BY <1>5, NoneAndReady DEF RefusedStore, SetterTypes
    <2>4. SetterTypes'
        BY <2>3 DEF SetterTypes, Asking
    <2>5. StorersHaveRead'
        BY <1>5, <2>1, <2>2, <2>3 DEF RefusedStore, StorersHaveRead, Updaters
    <2> QED BY <1>5, <2>2, <2>4, <2>5 DEF RefusedStore, busVars, debounceVars, BusTypes, DebounceTypes,
                TimerTypes, Busy
<1> QED BY <1>1, <1>2, <1>3, <1>4, <1>5 DEF SetStep

LEMMA TimerTypesKept ==
    ASSUME DdcInv, NEW t \in Timers, TimerStep(t)
    PROVE  DdcTypes'
<1> USE DEF DdcInv, DdcTypes
<1>0. t \in Updaters /\ t \notin Callers
    BY UpdatersApart
<1>1. CASE Fire(t)
    <2>1. TimerTypes' /\ \A s \in Timers : timer'[s].st = "publish" => timer[s].st = "publish"
        BY <1>1, TimerGoesTo DEF Fire, TimerTypes, Busy, TimerPlaces
    <2> QED BY <1>1, <2>1 DEF Fire, busVars, debounceVars, publishedVars, DebounceTypes, SetterTypes,
                BusTypes, StateTypes, StorersHaveRead, Asking
<1>2. CASE TakePending(t)
    <2> DEFINE d == timer[t].dev
               v == debouncePending[d]
               r == [st |-> "open", dev |-> d, value |-> v]
    <2>1. d \in Devices /\ v \in Shownable
        BY <1>2 DEF TakePending, TimerTypes, Busy, DebounceTypes
    <2>2. timer' = [timer EXCEPT ![t] = IF v = Unset THEN NoTimerSet ELSE r] /\ r \in TimerRecords
        BY <1>2, <2>1 DEF TakePending, TimerRecords, TimerPlaces
    <2>3. TimerTypes' /\ \A s \in Timers : timer'[s].st = "publish" => timer[s].st = "publish"
        BY <2>1, <2>2, NoneAndReady DEF TimerTypes, Busy, Shownable
    <2>4. DebounceTypes'
        BY <1>2, <2>1 DEF TakePending, DebounceTypes, Shownable
    <2> QED BY <1>2, <2>3, <2>4 DEF TakePending, busVars, publishedVars, SetterTypes, BusTypes,
                StateTypes, StorersHaveRead, Asking
<1>3. CASE OpenBus(t)
    <2>1. timer[t].dev \in Devices
        BY <1>3 DEF OpenBus, TimerTypes, Busy
    <2>2. TimerTypes' /\ \A s \in Timers : timer'[s].st = "publish" => timer[s].st = "publish"
        BY <1>3, TimerGoesTo, TimerGoesBack DEF OpenBus, TimerTypes, Busy, TimerPlaces
    <2>3. BusTypes'
        <3>1. CASE Scan
            BY <3>1, ScanTypes DEF BusTypes
        <3>2. CASE ~Scan
            BY <3>2, <1>3 DEF OpenBus, BusTypes
        <3> QED BY <3>1, <3>2
    <2>4. DebounceTypes'
        BY <1>3, <2>1 DEF OpenBus, DebounceTypes, debounceVars
    <2> QED BY <1>3, <2>2, <2>3, <2>4 DEF OpenBus, publishedVars, SetterTypes,
                StateTypes, StorersHaveRead, Asking
<1>4. CASE WriteBus(t)
    <2>1. timer[t].dev \in Devices /\ timer[t].value \in Percents
        BY <1>4 DEF WriteBus, TimerTypes, Busy
    <2>2. TimerTypes' /\ \A s \in Timers : timer'[s].st = "publish" => timer[s].st = "publish"
        BY <1>4, TimerGoesTo, TimerGoesBack DEF WriteBus, TimerTypes, Busy, TimerPlaces
    <2>3. BusTypes' /\ DebounceTypes'
        BY <1>4, <2>1 DEF WriteBus, BusTypes, DebounceTypes, debounceVars
    <2> QED BY <1>4, <2>2, <2>3 DEF WriteBus, publishedVars, SetterTypes,
                StateTypes, StorersHaveRead, Asking
<1>5. CASE StoreDevice(t)
    <2>1. timer[t].dev \in Devices /\ timer[t].value \in Percents
        BY <1>5 DEF StoreDevice, TimerTypes, Busy
    <2>2. TimerTypes' /\ \A s \in Timers : timer'[s].st = "publish" => timer[s].st = "publish"
        BY <1>5, TimerGoesBack DEF StoreDevice, TimerTypes, Busy
    <2>3. BusTypes' /\ DebounceTypes'
        BY <1>5, <2>1 DEF StoreDevice, BusTypes, DebounceTypes, debounceVars
    <2> QED BY <1>5, <2>2, <2>3 DEF StoreDevice, publishedVars, SetterTypes,
                StateTypes, StorersHaveRead, Asking
<1>6. CASE CallbackRead(t)
    <2>1. /\ seenDevices'[t] \in [Devices -> Shownable]
          /\ \A w \in Updaters : w # t => seenDevices'[w] = seenDevices[w]
          /\ seenDevices' \in [Updaters -> [Devices -> Shownable] \cup {NotRead}]
        BY <1>6, <1>0, ReadFacts DEF CallbackRead, ReadDevices
    <2>2. BusTypes'
        BY <1>6, ScanTypes DEF CallbackRead, ReadDevices, BusTypes
    <2>3. TimerTypes' /\ \A s \in Timers : s # t => timer'[s] = timer[s]
        BY <1>6, TimerGoesTo DEF CallbackRead, TimerTypes, Busy, TimerPlaces
    <2>4. StateTypes'
        BY <1>6, <2>1 DEF CallbackRead, ReadDevices, StateTypes
    <2>5. StorersHaveRead'
        BY <1>0, <1>6, <2>1, <2>3 DEF CallbackRead, StorersHaveRead, Updaters
    <2> QED BY <1>6, <2>2, <2>3, <2>4, <2>5 DEF CallbackRead, debounceVars, DebounceTypes,
                SetterTypes, Asking
<1>7. CASE CallbackStore(t)
    <2>1. seenDevices[t] \in [Devices -> Shownable]
        BY <1>7 DEF CallbackStore, StorersHaveRead
    <2>2. StateTypes' /\ \A w \in Updaters : w # t => seenDevices'[w] = seenDevices[w]
        BY <1>0, <1>7, <2>1, StoreFacts DEF CallbackStore, StateTypes
    <2>3. TimerTypes' /\ timer'[t].st = "none" /\ \A s \in Timers : s # t => timer'[s] = timer[s]
        BY <1>7, NoneAndReady DEF CallbackStore, TimerTypes, Busy
    <2>4. StorersHaveRead'
        BY <1>0, <1>7, <2>2, <2>3 DEF CallbackStore, StorersHaveRead, Updaters
    <2> QED BY <1>7, <2>2, <2>3, <2>4 DEF CallbackStore, busVars, BusTypes, DebounceTypes,
                SetterTypes, Asking
<1> QED BY <1>1, <1>2, <1>3, <1>4, <1>5, <1>6, <1>7 DEF TimerStep

LEMMA RescanTypesKept ==
    ASSUME DdcInv, (\E d \in Devices : Hotplug(d)) \/ Rescan \/ RescanStore \/ UNCHANGED ddcVars
    PROVE  DdcTypes'
<1> USE DEF DdcInv, DdcTypes
<1>0. 0 \in Updaters /\ 0 \notin Callers /\ 0 \notin Timers
    BY UpdatersApart
<1>1. CASE UNCHANGED ddcVars
    BY <1>1 DEF ddcVars, DebounceTypes, TimerTypes, SetterTypes, BusTypes, StateTypes,
        StorersHaveRead, Busy, Asking
<1>2. ASSUME NEW d \in Devices, Hotplug(d) PROVE DdcTypes'
    BY <1>2 DEF Hotplug, debounceVars, publishedVars, DebounceTypes, TimerTypes, SetterTypes, BusTypes,
        StateTypes, StorersHaveRead, Busy, Asking
<1>3. CASE Rescan
    <2>1. /\ seenDevices'[0] \in [Devices -> Shownable]
          /\ \A w \in Updaters : w # 0 => seenDevices'[w] = seenDevices[w]
          /\ seenDevices' \in [Updaters -> [Devices -> Shownable] \cup {NotRead}]
        BY <1>3, <1>0, ReadFacts DEF Rescan
    <2>2. BusTypes'
        BY <1>3, ScanTypes DEF Rescan, BusTypes
    <2>3. StateTypes'
        BY <1>3, <2>1 DEF Rescan, StateTypes
    <2>4. StorersHaveRead'
        BY <1>0, <1>3, <2>1 DEF Rescan, StorersHaveRead, Updaters
    <2> QED BY <1>3, <2>2, <2>3, <2>4 DEF Rescan, debounceVars, DebounceTypes, TimerTypes, Busy,
                SetterTypes, Asking
<1>4. CASE RescanStore
    <2>1. seenDevices[0] \in [Devices -> Shownable]
        BY <1>0, <1>4 DEF RescanStore, StateTypes
    <2>2. StateTypes' /\ \A w \in Updaters : w # 0 => seenDevices'[w] = seenDevices[w]
        BY <1>0, <1>4, <2>1, StoreFacts DEF RescanStore, StateTypes
    <2>3. StorersHaveRead'
        BY <1>0, <1>4, <2>2 DEF RescanStore, StorersHaveRead, Updaters
    <2> QED BY <1>4, <2>2, <2>3 DEF RescanStore, busVars, debounceVars, BusTypes, DebounceTypes,
                TimerTypes, Busy, SetterTypes, Asking
<1> QED BY <1>1, <1>2, <1>3, <1>4

LEMMA DdcTypesKept == DdcInv /\ [DdcNext]_ddcVars => DdcTypes'
BY SetterTypesKept, TimerTypesKept, RescanTypesKept DEF DdcNext

-----------------------------------------------------------------------------
(* The wait group. *)

LEMMA BusyIsFinite ==
    ASSUME DdcInv
    PROVE  /\ IsFiniteSet(Busy) /\ Cardinality(Busy) \in Nat /\ Cardinality(Asking) \in Nat
           /\ IsFiniteSet(Asking) /\ MaxSets \in Nat /\ sets \in Nat
<1>1. MaxSets \in Nat
    BY DdcAssumption
<1>2. IsFiniteSet(Timers)
    BY <1>1, FS_Interval DEF Timers
<1> QED BY <1>1, <1>2, FS_Subset, FS_CardinalityType DEF Busy, DdcInv, WaitGroupCounts

LEMMA NoMoreBusy ==
    ASSUME DdcInv, Busy' = Busy, Asking' \subseteq Asking, debounceWg' = debounceWg, sets' = sets
    PROVE  WaitGroupCounts'
<1>1. IsFiniteSet(Asking') /\ Cardinality(Asking') <= Cardinality(Asking) /\ Cardinality(Asking') \in Nat
    BY BusyIsFinite, FS_Subset, FS_CardinalityType
<1> QED BY <1>1, BusyIsFinite DEF DdcInv, WaitGroupCounts

LEMMA OneLessBusy ==
    ASSUME DdcInv, NEW t \in Busy, Busy' = Busy \ {t}, Asking' = Asking,
           debounceWg' = debounceWg - 1, sets' = sets
    PROVE  WaitGroupCounts'
<1>1. Cardinality(Busy') = Cardinality(Busy) - 1
    BY BusyIsFinite, FS_RemoveElement
<1> QED BY <1>1, BusyIsFinite DEF DdcInv, WaitGroupCounts

LEMMA WaitGroupSetter ==
    ASSUME DdcInv, NEW c \in Callers, SetStep(c)
    PROVE  WaitGroupCounts'
<1>0. DdcTypes /\ SetterTypes /\ setter \in [Callers -> SetterRecords] /\ timer \in [Timers -> TimerRecords]
    BY DEF DdcInv, DdcTypes, SetterTypes, TimerTypes
<1>1. ASSUME NEW d \in Devices, NEW v \in Percents, AskBrightness(c, d, v)
      PROVE  WaitGroupCounts'
    <2>1. Asking' = Asking \cup {c} /\ c \notin Asking
        BY <1>0, <1>1 DEF AskBrightness, Asking
    <2>2. IsFiniteSet(Asking') /\ Cardinality(Asking') = Cardinality(Asking) + 1
        BY <2>1, BusyIsFinite, FS_AddElement
    <2>3. Busy' = Busy /\ debounceWg' = debounceWg /\ sets' = sets + 1 /\ sets < MaxSets
        BY <1>1 DEF AskBrightness, Busy, debounceVars
    <2> QED BY <2>2, <2>3, BusyIsFinite DEF DdcInv, WaitGroupCounts
<1>2. CASE FindDevice(c)
    <2>1. Asking' \subseteq Asking
        <3>1. CASE SetterGoes(c, "debounce")
            BY <1>0, <1>2, <3>1, SetterGoesTo DEF FindDevice, Asking
        <3>2. CASE setter' = [setter EXCEPT ![c] = [Ready EXCEPT !.st = "refused"]]
            BY <1>0, <3>2, NoneAndReady DEF Asking
        <3> QED BY <1>2, <3>1, <3>2 DEF FindDevice
    <2> QED BY <1>2, <2>1, NoMoreBusy DEF FindDevice, debounceVars, boundVars, Busy
<1>3. CASE Debounce(c)
    <2> DEFINE d == setter[c].dev
               old == debounceTimers[d]
               stops == old # 0 /\ timer[old].st = "armed"
               t == Unused
    <2>1. t \in Timers /\ timer[t].st = "none" /\ d \in Devices
        BY <1>0, <1>3, UnusedExists DEF Debounce, SetterTypes, Asking
    <2>2. Asking' = Asking \ {c} /\ c \in Asking
        BY <1>0, <1>3, NoneAndReady DEF Debounce, Asking
    <2>3. IsFiniteSet(Asking') /\ Cardinality(Asking') = Cardinality(Asking) - 1
        BY <2>2, BusyIsFinite, FS_RemoveElement
    <2>4. debounceTimers[d] \in Timers \cup {0} /\ t \notin Busy
        BY <2>1 DEF DdcInv, DdcTypes, DebounceTypes, Busy
    <2>5. CASE stops
        <3>1. Busy' = (Busy \ {old}) \cup {t} /\ old \in Busy /\ debounceWg' = debounceWg + 0
            BY <1>3, <2>1, <2>4, <2>5, NoneAndReady DEF Debounce, Busy
        <3>2. IsFiniteSet(Busy \ {old}) /\ Cardinality(Busy \ {old}) = Cardinality(Busy) - 1
            BY <3>1, BusyIsFinite, FS_RemoveElement
        <3>3. Cardinality(Busy') = Cardinality(Busy)
            <4> DEFINE S == Busy \ {old}
            <4> HIDE DEF S
            <4>1. IsFiniteSet(S) /\ t \notin S /\ Busy' = S \cup {t}
                BY <2>4, <3>1, <3>2 DEF S
            <4>2. Cardinality(S \cup {t}) = Cardinality(S) + 1
                BY <4>1, FS_AddElement
            <4> QED BY <4>1, <4>2, <3>2, BusyIsFinite DEF S
        <3> QED BY <1>3, <2>3, <3>1, <3>3, BusyIsFinite DEF Debounce, boundVars, DdcInv, WaitGroupCounts
    <2>6. CASE ~stops
        <3>1. Busy' = Busy \cup {t} /\ debounceWg' = debounceWg + 1
            BY <1>3, <2>1, <2>4, <2>6, NoneAndReady DEF Debounce, Busy
        <3>2. Cardinality(Busy') = Cardinality(Busy) + 1
            BY <2>4, <3>1, BusyIsFinite, FS_AddElement
        <3> QED BY <1>3, <2>3, <3>1, <3>2, BusyIsFinite DEF Debounce, boundVars, DdcInv, WaitGroupCounts
    <2> QED BY <2>5, <2>6
<1>4. CASE RefusedRead(c)
    <2>1. Asking' \subseteq Asking
        BY <1>0, <1>4, SetterGoesTo DEF RefusedRead, Asking
    <2> QED BY <1>4, <2>1, NoMoreBusy DEF RefusedRead, debounceVars, boundVars, Busy
<1>5. CASE RefusedStore(c)
    <2>1. Asking' \subseteq Asking
        BY <1>0, <1>5, NoneAndReady DEF RefusedStore, Asking
    <2> QED BY <1>5, <2>1, NoMoreBusy DEF RefusedStore, debounceVars, boundVars, Busy
<1> QED BY <1>1, <1>2, <1>3, <1>4, <1>5 DEF SetStep

LEMMA WaitGroupTimer ==
    ASSUME DdcInv, NEW t \in Timers, TimerStep(t)
    PROVE  WaitGroupCounts'
<1>0. DdcTypes /\ timer \in [Timers -> TimerRecords]
    BY DEF DdcInv, DdcTypes, TimerTypes
<1>1. CASE Fire(t) \/ OpenBus(t) \/ WriteBus(t) \/ StoreDevice(t) \/ CallbackRead(t)
    <2>1. Busy' = Busy
        BY <1>0, <1>1, TimerGoesTo, TimerGoesBack
            DEF Fire, OpenBus, WriteBus, StoreDevice, CallbackRead, Busy, TimerPlaces
    <2>2. Asking' = Asking /\ debounceWg' = debounceWg /\ sets' = sets
        BY <1>1 DEF Fire, OpenBus, WriteBus, StoreDevice, CallbackRead, Asking, debounceVars, boundVars
    <2> QED BY <2>1, <2>2, NoMoreBusy
<1>2. CASE TakePending(t)
    <2> DEFINE d == timer[t].dev
               v == debouncePending[d]
    <2>1. timer' = [timer EXCEPT ![t] = IF v = Unset THEN NoTimerSet
                                        ELSE [st |-> "open", dev |-> d, value |-> v]]
        BY <1>2 DEF TakePending
    <2>2. Asking' = Asking /\ sets' = sets /\ t \in Busy
        BY <1>2 DEF TakePending, Asking, boundVars, Busy
    <2>3. CASE v = Unset
        <3>1. Busy' = Busy \ {t} /\ debounceWg' = debounceWg - 1
            BY <1>0, <1>2, <2>1, <2>3, NoneAndReady DEF TakePending, Busy
        <3> QED BY <2>2, <3>1, OneLessBusy
    <2>4. CASE v # Unset
        <3>1. Busy' = Busy /\ debounceWg' = debounceWg
            BY <1>0, <1>2, <2>1, <2>2, <2>4 DEF TakePending, Busy
        <3> QED BY <2>2, <3>1, NoMoreBusy
    <2> QED BY <2>3, <2>4
<1>3. CASE CallbackStore(t)
    <2>1. Busy' = Busy \ {t} /\ t \in Busy
        BY <1>0, <1>3, NoneAndReady DEF CallbackStore, Busy
    <2>2. Asking' = Asking /\ debounceWg' = debounceWg - 1 /\ sets' = sets
        BY <1>3 DEF CallbackStore, Asking, boundVars
    <2> QED BY <2>1, <2>2, OneLessBusy
<1> QED BY <1>1, <1>2, <1>3 DEF TimerStep

LEMMA WaitGroupKept == DdcInv /\ [DdcNext]_ddcVars => WaitGroupCounts'
<1> SUFFICES ASSUME DdcInv, [DdcNext]_ddcVars PROVE WaitGroupCounts'
    OBVIOUS
<1>1. CASE (\E d \in Devices : Hotplug(d)) \/ Rescan \/ RescanStore \/ UNCHANGED ddcVars
    <2>1. Busy' = Busy /\ Asking' = Asking /\ debounceWg' = debounceWg /\ sets' = sets
        BY <1>1 DEF Hotplug, Rescan, RescanStore, ddcVars, debounceVars, boundVars, Busy, Asking
    <2> QED BY <2>1, NoMoreBusy
<1> QED BY <1>1, WaitGroupSetter, WaitGroupTimer DEF DdcNext

-----------------------------------------------------------------------------
(* What is pending, and what has been taken. *)

LEMMA PendingKept == DdcInv /\ [DdcNext]_ddcVars => PendingIsLast'
<1> SUFFICES ASSUME DdcInv, [DdcNext]_ddcVars PROVE PendingIsLast'
    OBVIOUS
<1>0. /\ DdcTypes /\ timer \in [Timers -> TimerRecords] /\ PendingIsLast
      /\ debounceTimers \in [Devices -> Timers \cup {0}] /\ 0 \notin Timers
      /\ debouncePending \in [Devices -> Shownable] /\ lastSet \in [Devices -> Shownable]
    BY UpdatersApart DEF DdcInv, DdcTypes, TimerTypes, DebounceTypes
<1>1. ASSUME UNCHANGED <<debouncePending, debounceTimers, lastSet>>,
             \A t \in Timers : timer[t].st \in {"armed", "fired"} =>
                 timer'[t].dev = timer[t].dev /\ timer'[t].st \in {"armed", "fired"}
      PROVE  PendingIsLast'
    BY <1>0, <1>1 DEF PendingIsLast
<1>2. ASSUME NEW c \in Callers, Debounce(c) PROVE PendingIsLast'
    <2> DEFINE d == setter[c].dev
               v == setter[c].value
               old == debounceTimers[d]
               stops == old # 0 /\ timer[old].st = "armed"
               t == Unused
    <2>1. t \in Timers /\ timer[t].st = "none" /\ d \in Devices
        BY <1>2, UnusedExists DEF Debounce, DdcInv, DdcTypes, SetterTypes, Asking
    <2>2. /\ debouncePending' = [debouncePending EXCEPT ![d] = v] /\ lastSet' = [lastSet EXCEPT ![d] = v]
          /\ debounceTimers' = [debounceTimers EXCEPT ![d] = t]
          /\ timer'[t] = [st |-> "armed", dev |-> d, value |-> Unset]
          /\ \A s \in Timers \ {t, old} : timer'[s] = timer[s]
        BY <1>2, <2>1 DEF Debounce
    <2>3. t \in Timers /\ t # 0
        BY <1>0, <2>1
    <2>4. SUFFICES ASSUME NEW e \in Devices
                   PROVE  /\ debounceTimers'[e] # 0 => /\ timer'[debounceTimers'[e]].dev = e
                                       /\ timer'[debounceTimers'[e]].st \in {"armed", "fired"}
                          /\ debouncePending'[e] # Unset => /\ debounceTimers'[e] # 0
                                                            /\ debouncePending'[e] = lastSet'[e]
        BY DEF PendingIsLast
    <2>5. CASE e = d
        BY <1>0, <2>1, <2>2, <2>3, <2>5
    <2>6. CASE e # d
        <3>1. /\ debounceTimers'[e] = debounceTimers[e] /\ debouncePending'[e] = debouncePending[e]
              /\ lastSet'[e] = lastSet[e]
            BY <1>0, <2>2, <2>6
        <3>2. debounceTimers[e] # 0 => /\ timer[debounceTimers[e]].dev = e
                                       /\ timer[debounceTimers[e]].st \in {"armed", "fired"}
            BY <1>0 DEF PendingIsLast
        <3>3. debounceTimers[e] # 0 => debounceTimers[e] \in Timers \ {t, old}
            BY <1>0, <2>1, <2>6, <3>2 DEF PendingIsLast
        <3> QED BY <1>0, <2>2, <3>1, <3>2, <3>3 DEF PendingIsLast
    <2> QED BY <2>5, <2>6
<1>3. ASSUME NEW t \in Timers, TakePending(t) PROVE PendingIsLast'
    <2> DEFINE d == timer[t].dev
    <2>1. d \in Devices
        BY <1>3 DEF TakePending, DdcInv, DdcTypes, TimerTypes, Busy
    <2>2. /\ debouncePending' = [debouncePending EXCEPT ![d] = Unset] /\ lastSet' = lastSet
          /\ debounceTimers' = [debounceTimers EXCEPT ![d] = 0]
          /\ \A s \in Timers \ {t} : timer'[s] = timer[s]
        BY <1>0, <1>3 DEF TakePending
    <2>3. SUFFICES ASSUME NEW e \in Devices, e # d
                   PROVE  /\ debounceTimers'[e] # 0 => /\ timer'[debounceTimers'[e]].dev = e
                                       /\ timer'[debounceTimers'[e]].st \in {"armed", "fired"}
                          /\ debouncePending'[e] # Unset => /\ debounceTimers'[e] # 0
                                                            /\ debouncePending'[e] = lastSet'[e]
        BY <1>0, <2>1, <2>2 DEF PendingIsLast
    <2>4. debounceTimers'[e] = debounceTimers[e] /\ debouncePending'[e] = debouncePending[e]
        BY <1>0, <2>2, <2>3
    <2>5. debounceTimers[e] # 0 => debounceTimers[e] \in Timers \ {t}
        BY <1>0, <2>3 DEF PendingIsLast
    <2> QED BY <1>0, <2>2, <2>4, <2>5 DEF PendingIsLast
<1>4. ASSUME NEW t \in Timers, TimerStep(t), ~TakePending(t) PROVE PendingIsLast'
    <2>1. UNCHANGED <<debouncePending, debounceTimers, lastSet>>
        BY <1>4 DEF TimerStep, Fire, OpenBus, WriteBus, StoreDevice, CallbackRead, CallbackStore,
            debounceVars
    <2>2. \A s \in Timers : s # t => timer'[s] = timer[s]
        BY <1>0, <1>4, TimerGoesTo, TimerGoesBack DEF TimerStep, Fire, OpenBus, WriteBus, StoreDevice,
            CallbackRead, CallbackStore, TimerPlaces
    <2>3. timer[t].st \in {"armed", "fired"} =>
              timer'[t].dev = timer[t].dev /\ timer'[t].st \in {"armed", "fired"}
        BY <1>0, <1>4, TimerGoesTo DEF TimerStep, Fire, OpenBus, WriteBus, StoreDevice,
            CallbackRead, CallbackStore, TimerPlaces
    <2> QED BY <1>1, <2>1, <2>2, <2>3
<1>5. CASE \/ \E c \in Callers : SetStep(c) /\ ~Debounce(c)
           \/ (\E d \in Devices : Hotplug(d)) \/ Rescan \/ RescanStore \/ UNCHANGED ddcVars
    <2>1. UNCHANGED <<debouncePending, debounceTimers, lastSet>> /\ timer' = timer
        BY <1>5 DEF SetStep, AskBrightness, FindDevice, RefusedRead, RefusedStore, Hotplug, Rescan,
            RescanStore, ddcVars, debounceVars
    <2> QED BY <1>1, <2>1
<1> QED BY <1>2, <1>3, <1>4, <1>5 DEF DdcNext, SetStep

LEMMA WrittenFrame ==
    ASSUME DdcInv, UNCHANGED <<debouncePending, lastSet, overlappedSet, failedSet, shown>>,
           \A d \in Devices : Writing(d)' = Writing(d),
           \A t \in Timers : timer[t].st \in {"open", "write", "store"} =>
               /\ timer'[t].value = timer[t].value
               /\ timer[t].st \in {"open", "write"} => timer'[t].st \in {"open", "write"},
           \A d \in Devices : lastBrightness'[d] \in {lastBrightness[d], shown[d]}
    PROVE  LastIsWritten'
<1> SUFFICES ASSUME NEW d \in Devices, WellWritten(d)
             PROVE  /\ \A t \in Writing(d) : timer'[t].value = lastSet[d]
                    /\ \A s, t \in Writing(d) : s = t
                    /\ Writing(d) = {} => lastBrightness'[d] = lastSet[d]
                    /\ shown[d] = lastSet[d] \/ \E t \in Writing(d) : timer'[t].st \in {"open", "write"}
    BY DEF LastIsWritten, WellWritten
<1> QED BY DEF DdcInv, LastIsWritten, Writing

LEMMA WrittenKept == DdcInv /\ [DdcNext]_ddcVars => LastIsWritten'
<1> SUFFICES ASSUME DdcInv, [DdcNext]_ddcVars PROVE LastIsWritten'
    OBVIOUS
<1>0. /\ DdcTypes /\ timer \in [Timers -> TimerRecords] /\ LastIsWritten
      /\ debouncePending \in [Devices -> Shownable] /\ lastSet \in [Devices -> Shownable]
      /\ overlappedSet \in [Devices -> BOOLEAN] /\ failedSet \in [Devices -> BOOLEAN]
      /\ lastBrightness \in [Devices -> Percents] /\ shown \in [Devices -> Percents]
      /\ \A t \in Busy : timer[t].dev \in Devices
    BY DEF DdcInv, DdcTypes, TimerTypes, DebounceTypes, BusTypes
<1>1. ASSUME NEW c \in Callers, SetStep(c), ~Debounce(c) PROVE LastIsWritten'
    <2>1. UNCHANGED <<debouncePending, lastSet, overlappedSet, failedSet, timer>>
        BY <1>1 DEF SetStep, AskBrightness, FindDevice, RefusedRead, RefusedStore, debounceVars
    <2>2. Scan \/ UNCHANGED busVars
        BY <1>1 DEF SetStep, AskBrightness, FindDevice, RefusedRead, RefusedStore, ReadDevices
    <2> QED BY <1>0, <2>1, <2>2, ScanTypes, WrittenFrame DEF Writing
<1>2. ASSUME NEW c \in Callers, Debounce(c) PROVE LastIsWritten'
    <2> DEFINE d == setter[c].dev
               old == debounceTimers[d]
               t == Unused
    <2>1. t \in Timers /\ timer[t].st = "none" /\ d \in Devices /\ setter[c].value # Unset
        BY <1>2, UnusedExists, DdcAssumption DEF Debounce, DdcInv, DdcTypes, SetterTypes, Asking
    <2>2. /\ debouncePending'[d] # Unset
          /\ \A e \in Devices \ {d} : debouncePending'[e] = debouncePending[e] /\ lastSet'[e] = lastSet[e]
          /\ UNCHANGED <<overlappedSet, failedSet, shown, lastBrightness>>
        BY <1>0, <1>2, <2>1 DEF Debounce, busVars
    <2>3. \A s \in Timers : \/ timer'[s] = timer[s]
                           \/ /\ timer[s].st \notin {"open", "write", "store"}
                              /\ timer'[s].st \notin {"open", "write", "store"}
        BY <1>2, <2>1, NoneAndReady DEF Debounce
    <2>4. \A e \in Devices : Writing(e)' = Writing(e)
        BY <2>3 DEF Writing
    <2>5. SUFFICES ASSUME NEW e \in Devices, WellWritten(e)'
                   PROVE  /\ \A s \in Writing(e) : timer'[s].value = lastSet'[e]
                          /\ \A r, s \in Writing(e) : r = s
                          /\ Writing(e) = {} => lastBrightness'[e] = lastSet'[e]
                          /\ shown'[e] = lastSet'[e] \/ \E s \in Writing(e) : timer'[s].st \in {"open", "write"}
        BY <2>4 DEF LastIsWritten
    <2>6. e # d /\ WellWritten(e) /\ lastSet'[e] = lastSet[e]
        BY <2>1, <2>2, <2>5 DEF WellWritten
    <2>7. \A s \in Writing(e) : timer'[s] = timer[s]
        BY <2>3 DEF Writing
    <2> QED BY <1>0, <2>2, <2>6, <2>7 DEF LastIsWritten
<1>3. ASSUME NEW t \in Timers, TakePending(t) PROVE LastIsWritten'
    <2>1. PICK d \in Devices : timer[t].dev = d /\ timer[t].st = "fired"
        BY <1>0, <1>3 DEF TakePending, Busy
    <2> DEFINE v == debouncePending[d]
    <2>2. /\ debouncePending' = [debouncePending EXCEPT ![d] = Unset]
          /\ timer' = [timer EXCEPT ![t] = IF v = Unset THEN NoTimerSet
                                           ELSE [st |-> "open", dev |-> d, value |-> v]]
          /\ UNCHANGED <<shown, lastBrightness, lastSet>>
          /\ \A e \in Devices \ {d} : overlappedSet'[e] = overlappedSet[e] /\ failedSet'[e] = failedSet[e]
        BY <1>0, <1>3, <2>1 DEF TakePending, busVars
    <2>3. CASE v = Unset
        <3>1. UNCHANGED <<overlappedSet, failedSet>> /\ debouncePending' = debouncePending
            BY <1>0, <1>3, <2>1, <2>2, <2>3 DEF TakePending
        <3>2. timer' = [timer EXCEPT ![t] = NoTimerSet]
            BY <2>2, <2>3
        <3>3. \A e \in Devices : Writing(e)' = Writing(e)
            BY <1>0, <2>1, <3>2, NoneAndReady DEF Writing
        <3> QED BY <1>0, <2>1, <2>2, <3>1, <3>2, <3>3, WrittenFrame
    <2>4. CASE v # Unset
        <3>1. timer' = [timer EXCEPT ![t] = [st |-> "open", dev |-> d, value |-> v]]
            BY <2>2, <2>4
        <3>2. Writing(d)' = Writing(d) \cup {t} /\ t \notin Writing(d)
            BY <1>0, <2>1, <3>1 DEF Writing
        <3>3. \A e \in Devices \ {d} : Writing(e)' = Writing(e) /\ t \notin Writing(e)
            BY <1>0, <2>1, <3>1 DEF Writing
        <3>4. overlappedSet'[d] = (Writing(d) # {}) /\ v = lastSet[d]
            BY <1>0, <1>3, <2>1, <2>4 DEF TakePending, DdcInv, PendingIsLast
        <3>5. SUFFICES ASSUME NEW e \in Devices, WellWritten(e)'
                       PROVE  /\ \A s \in Writing(e)' : timer'[s].value = lastSet'[e]
                              /\ \A r, s \in Writing(e)' : r = s
                              /\ Writing(e)' = {} => lastBrightness'[e] = lastSet'[e]
                              /\ shown'[e] = lastSet'[e] \/ \E s \in Writing(e)' : timer'[s].st \in {"open", "write"}
            BY DEF LastIsWritten
        <3>6. CASE e = d
            <4>1. Writing(e)' = {t}
                <5>1. ~overlappedSet'[d]
                    BY <3>5, <3>6 DEF WellWritten
                <5>2. Writing(d) = {}
                    BY <3>4, <5>1
                <5> QED BY <3>2, <3>6, <5>2
            <4>2. timer'[t].st = "open" /\ timer'[t].value = v
                BY <1>0, <3>1
            <4> QED BY <2>2, <3>4, <3>6, <4>1, <4>2
        <3>7. CASE e # d
            <4>1. WellWritten(e)
                BY <1>0, <2>2, <3>5, <3>7 DEF WellWritten
            <4>2. \A s \in Writing(e) : timer'[s] = timer[s]
                BY <1>0, <3>1, <3>3, <3>7 DEF Writing
            <4> QED BY <1>0, <2>2, <3>3, <3>7, <4>1, <4>2 DEF LastIsWritten
        <3> QED BY <3>6, <3>7
    <2> QED BY <2>3, <2>4
<1>4. ASSUME NEW t \in Timers, Fire(t) \/ CallbackRead(t) \/ CallbackStore(t) PROVE LastIsWritten'
    <2>1. UNCHANGED <<debouncePending, lastSet, overlappedSet, failedSet>> /\ (Scan \/ UNCHANGED busVars)
        BY <1>4 DEF Fire, CallbackRead, CallbackStore, debounceVars, ReadDevices
    <2>2. \A s \in Timers : \/ timer'[s] = timer[s]
                           \/ /\ timer[s].st \notin {"open", "write", "store"}
                              /\ timer'[s].st \notin {"open", "write", "store"}
        BY <1>0, <1>4, TimerGoesTo, NoneAndReady DEF Fire, CallbackRead, CallbackStore, TimerPlaces
    <2>3. \A e \in Devices : Writing(e)' = Writing(e)
        BY <2>2 DEF Writing
    <2> QED BY <1>0, <2>1, <2>2, <2>3, ScanTypes, WrittenFrame
<1>5. ASSUME NEW t \in Timers, OpenBus(t) \/ WriteBus(t) \/ StoreDevice(t) PROVE LastIsWritten'
    <2>1. PICK d \in Devices : timer[t].dev = d /\ t \in Writing(d)
        BY <1>0, <1>5 DEF OpenBus, WriteBus, StoreDevice, Busy, Writing
    <2>2. /\ timer'[t].dev = d /\ timer'[t].st \in {"write", "store", "read"}
          /\ timer'[t].st # "read" => timer'[t].value = timer[t].value
          /\ \A s \in Timers \ {t} : timer'[s] = timer[s]
        BY <1>0, <1>5, <2>1, TimerGoesTo, TimerGoesBack DEF OpenBus, WriteBus, StoreDevice, TimerPlaces
    <2>3. UNCHANGED <<debouncePending, lastSet, overlappedSet>>
        BY <1>5 DEF OpenBus, WriteBus, StoreDevice, debounceVars
    <2>4. /\ \A e \in Devices \ {d} : /\ failedSet'[e] = failedSet[e] /\ shown'[e] = shown[e]
                                      /\ lastBrightness'[e] \in {lastBrightness[e], shown[e]}
          /\ failedSet[d] => failedSet'[d]
        <3>1. CASE Scan
            BY <1>0, <1>5, <2>1, <3>1, ScanTypes DEF OpenBus, WriteBus, StoreDevice
        <3>2. CASE ~Scan
            BY <1>0, <1>5, <2>1, <3>2 DEF OpenBus, WriteBus, StoreDevice
        <3> QED BY <3>1, <3>2
    <2>5. ASSUME NEW e \in Devices, e # d
          PROVE  Writing(e)' = Writing(e) /\ \A s \in Writing(e) : timer'[s] = timer[s]
        BY <2>1, <2>2, <2>5 DEF Writing
    <2>6. SUFFICES ASSUME NEW e \in Devices, WellWritten(e)'
                   PROVE  /\ \A s \in Writing(e)' : timer'[s].value = lastSet'[e]
                          /\ \A r, s \in Writing(e)' : r = s
                          /\ Writing(e)' = {} => lastBrightness'[e] = lastSet'[e]
                          /\ shown'[e] = lastSet'[e] \/ \E s \in Writing(e)' : timer'[s].st \in {"open", "write"}
        BY DEF LastIsWritten
    <2>7. CASE e # d
        <3>1. WellWritten(e)
            BY <2>3, <2>4, <2>6, <2>7 DEF WellWritten
        <3> QED BY <1>0, <2>3, <2>4, <2>5, <2>7, <3>1 DEF LastIsWritten
    <2>8. CASE e = d
        <3>1. WellWritten(d)
            BY <2>3, <2>4, <2>6, <2>8 DEF WellWritten
        <3>2. Writing(d) = {t} /\ timer[t].value = lastSet[d]
            BY <1>0, <2>1, <3>1 DEF LastIsWritten
        <3>3. \A s \in Timers \ {t} : s \notin Writing(d)'
            BY <2>2, <3>2 DEF Writing
        <3>4. ~failedSet'[d]
            BY <2>6, <2>8 DEF WellWritten
        <3>5. CASE OpenBus(t)
            <4>1. timer'[t].st = "write"
                BY <1>0, <2>1, <3>4, <3>5, TimerGoesTo DEF OpenBus, TimerPlaces
            <4>2. Writing(d)' = {t}
                BY <2>2, <3>3, <4>1 DEF Writing
            <4> QED BY <2>2, <2>3, <2>8, <3>2, <4>1, <4>2
        <3>6. CASE WriteBus(t)
            <4>1. timer'[t].st = "store" /\ shown'[d] = timer[t].value
                BY <1>0, <2>1, <3>4, <3>6, TimerGoesTo DEF WriteBus, TimerPlaces
            <4>2. Writing(d)' = {t}
                BY <2>2, <3>3, <4>1 DEF Writing
            <4> QED BY <2>2, <2>3, <2>8, <3>2, <4>1, <4>2
        <3>7. CASE StoreDevice(t)
            <4>1. timer'[t].st = "read" /\ lastBrightness'[d] = timer[t].value /\ shown' = shown
                BY <1>0, <2>1, <3>7, TimerGoesBack DEF StoreDevice
            <4>2. Writing(d)' = {}
                BY <2>2, <3>3, <4>1 DEF Writing
            <4>3. shown[d] = lastSet[d]
                <5>1. timer[t].st = "store"
                    BY <3>7 DEF StoreDevice
                <5> QED BY <1>0, <2>1, <3>1, <3>2, <5>1 DEF LastIsWritten
            <4>4. Writing(e)' = {} /\ lastSet' = lastSet
                BY <2>3, <2>8, <4>2
            <4>5. lastBrightness'[e] = lastSet'[e] /\ shown'[e] = lastSet'[e]
                BY <2>8, <3>2, <4>1, <4>3, <4>4
            <4> QED BY <4>4, <4>5
        <3> QED BY <1>5, <3>5, <3>6, <3>7
    <2> QED BY <2>7, <2>8
<1>6. CASE (\E d \in Devices : Hotplug(d)) \/ Rescan \/ RescanStore \/ UNCHANGED ddcVars
    <2>1. UNCHANGED <<debouncePending, lastSet, overlappedSet, failedSet, timer, shown>>
        BY <1>6 DEF Hotplug, Rescan, RescanStore, ddcVars, debounceVars, busVars, Scan
    <2>2. \A d \in Devices : lastBrightness'[d] \in {lastBrightness[d], shown[d]}
        BY <1>0, <1>6, ScanTypes DEF Hotplug, Rescan, RescanStore, ddcVars, busVars
    <2> QED BY <2>1, <2>2, WrittenFrame DEF Writing
<1> QED BY <1>1, <1>2, <1>3, <1>4, <1>5, <1>6 DEF DdcNext, TimerStep, SetStep

-----------------------------------------------------------------------------
(* What is published. *)

\* A reading leaves someone who has read what is known.
LEMMA ReadPublishes ==
    ASSUME DdcInv, NEW u \in Updaters, Scan \/ UNCHANGED busVars, deviceState' = deviceState,
           seenDevices' = [seenDevices EXCEPT ![u] =
               [d \in Devices |-> IF d \in scanned' THEN lastBrightness'[d] ELSE Unset]]
    PROVE  PublishedOrDue'
<1>1. /\ seenDevices'[u] \in [Devices -> Shownable]
      /\ \A d \in Devices : seenDevices'[u][d] = View(d)'
      /\ seenDevices' \in [Updaters -> [Devices -> Shownable] \cup {NotRead}]
    BY ReadFacts DEF DdcInv
<1>2. CASE Devices # {}
    <2>1. seenDevices'[u] # NotRead
        <3>1. "not read" \notin Shownable
            BY DdcAssumption DEF Shownable
        <3> QED BY <1>1, <1>2, <3>1 DEF NotRead
    <2> QED BY <1>1, <2>1 DEF PublishedOrDue, ReadUnderWay, ReadsCurrent
<1>3. CASE Devices = {}
    <2>1. \A w \in Updaters : seenDevices'[w] = NotRead
        BY <1>1, <1>3 DEF NotRead
    <2> QED BY <1>3, <2>1 DEF PublishedOrDue, ReadUnderWay
<1> QED BY <1>2, <1>3

\* A state that is stored is known, or outdated, or someone else has read what is known.
LEMMA StorePublishes ==
    ASSUME DdcInv, NEW u \in Updaters, StoreState(u), seenDevices[u] \in [Devices -> Shownable],
           UNCHANGED busVars, ReaderDue => ReaderDue'
    PROVE  PublishedOrDue'
<1>1. /\ \A d \in Devices : deviceState'[d].current = seenDevices[u][d]
      /\ seenDevices'[u] = NotRead
      /\ \A w \in Updaters : w # u => seenDevices'[w] = seenDevices[w]
      /\ outdated' = (u \in outrun)
      /\ \A w \in Updaters : w # u /\ ReadUnderWay(w) => w \in outrun'
    BY StoreFacts DEF DdcInv
<1>2. \A d \in Devices : View(d)' = View(d)
    BY DEF View, busVars
<1>3. \A w \in Updaters : ReadUnderWay(w)' => w # u /\ ReadUnderWay(w) /\ w \in outrun'
    BY <1>1 DEF ReadUnderWay
<1>4. CASE ReaderDue
    BY <1>4 DEF PublishedOrDue
<1>5. CASE ReadsCurrent(u)
    <2>1. \A d \in Devices : deviceState'[d].current = View(d)'
        BY <1>1, <1>2, <1>5 DEF ReadsCurrent
    <2> QED BY <1>3, <2>1 DEF PublishedOrDue
<1>6. ASSUME NEW w \in Updaters, w # u, ReadUnderWay(w), ReadsCurrent(w) PROVE PublishedOrDue'
    BY <1>1, <1>2, <1>6 DEF PublishedOrDue, ReadUnderWay, ReadsCurrent
<1>7. CASE ReadUnderWay(u) /\ \A w \in Updaters : ReadUnderWay(w) => w \in outrun
    <2>1. outdated' = TRUE
        BY <1>1, <1>7
    <2> QED BY <1>3, <2>1 DEF PublishedOrDue
<1>8. CASE ~ReadUnderWay(u)
    <2>1. Devices = {}
        <3>1. "not read" \notin Shownable
            BY DdcAssumption DEF Shownable
        <3> QED BY <1>8, <3>1 DEF ReadUnderWay, NotRead
    <2> QED BY <1>3, <2>1 DEF PublishedOrDue
<1> QED BY <1>4, <1>5, <1>6, <1>7, <1>8 DEF DdcInv, PublishedOrDue

\* Nothing read or stored changes nothing, nor does more to be read.
LEMMA PublishedFrame ==
    ASSUME DdcInv, UNCHANGED <<seenDevices, outrun, outdated>>,
           \A d \in Devices : deviceState'[d].current = deviceState[d].current,
           ReaderDue' \/ ((ReaderDue => ReaderDue') /\ UNCHANGED <<scanned, lastBrightness>>)
    PROVE  PublishedOrDue'
<1>1. CASE ReaderDue'
    BY <1>1 DEF PublishedOrDue
<1>2. CASE ~ReaderDue /\ UNCHANGED <<scanned, lastBrightness>>
    <2>1. \A d \in Devices : View(d)' = View(d)
        BY <1>2 DEF View
    <2>2. \A u \in Updaters : ReadUnderWay(u)' = ReadUnderWay(u) /\ ReadsCurrent(u)' = ReadsCurrent(u)
        BY <2>1 DEF ReadUnderWay, ReadsCurrent
    <2> QED BY <1>2, <2>1, <2>2 DEF DdcInv, PublishedOrDue
<1> QED BY <1>1, <1>2

LEMMA PublishedKept == DdcInv /\ [DdcNext]_ddcVars => PublishedOrDue'
<1> SUFFICES ASSUME DdcInv, [DdcNext]_ddcVars PROVE PublishedOrDue'
    OBVIOUS
<1>0. /\ DdcTypes /\ timer \in [Timers -> TimerRecords] /\ setter \in [Callers -> SetterRecords]
      /\ debouncePending \in [Devices -> Shownable]
      /\ deviceState \in [Devices -> [current : Shownable, percent : Shownable]]
      /\ \A t \in Busy : timer[t].dev \in Devices
    BY DEF DdcInv, DdcTypes, TimerTypes, SetterTypes, DebounceTypes, StateTypes
<1>1. ASSUME NEW c \in Callers, NEW d \in Devices, NEW v \in Percents, AskBrightness(c, d, v)
      PROVE  PublishedOrDue'
    <2>1. \A e \in Devices : deviceState'[e].current = deviceState[e].current
        BY <1>0, <1>1 DEF AskBrightness
    <2>2. ReaderDue => ReaderDue'
        BY <1>0, <1>1 DEF AskBrightness, ReaderDue, debounceVars
    <2> QED BY <1>1, <2>1, <2>2, PublishedFrame DEF AskBrightness, busVars
<1>2. ASSUME NEW c \in Callers, FindDevice(c) PROVE PublishedOrDue'
    <2>1. setter'[c].st \in {"debounce", "refused"}
        BY <1>0, <1>2, SetterGoesTo, NoneAndReady DEF FindDevice
    <2> QED BY <1>2, <2>1, PublishedFrame DEF FindDevice, publishedVars, ReaderDue
<1>3. ASSUME NEW c \in Callers, Debounce(c) PROVE PublishedOrDue'
    <2>1. setter[c].dev \in Devices /\ setter[c].value # Unset
        BY <1>3, DdcAssumption DEF Debounce, DdcInv, DdcTypes, SetterTypes, Asking
    <2>2. debouncePending'[setter[c].dev] # Unset
        BY <1>0, <1>3, <2>1 DEF Debounce
    <2> QED BY <1>3, <2>1, <2>2, PublishedFrame DEF Debounce, publishedVars, ReaderDue
<1>4. ASSUME NEW c \in Callers, RefusedRead(c) PROVE PublishedOrDue'
    BY <1>4, UpdatersApart, ReadPublishes DEF RefusedRead, ReadDevices
<1>5. ASSUME NEW c \in Callers, RefusedStore(c) PROVE PublishedOrDue'
    <2>1. ReaderDue => ReaderDue'
        BY <1>0, <1>5 DEF RefusedStore, ReaderDue, debounceVars
    <2>2. c \in Updaters /\ seenDevices[c] \in [Devices -> Shownable]
        BY <1>0, <1>5, UpdatersApart DEF RefusedStore, DdcTypes, StorersHaveRead
    <2> QED BY <1>5, <2>1, <2>2, StorePublishes DEF RefusedStore
<1>6. ASSUME NEW t \in Timers, Fire(t) PROVE PublishedOrDue'
    <2>1. ReaderDue => ReaderDue'
        BY <1>0, <1>6, TimerGoesTo DEF Fire, ReaderDue, debounceVars, TimerPlaces
    <2> QED BY <1>6, <2>1, PublishedFrame DEF Fire, publishedVars, busVars
<1>7. ASSUME NEW t \in Timers, TakePending(t) PROVE PublishedOrDue'
    <2> DEFINE d == timer[t].dev
               v == debouncePending[d]
    <2>1. d \in Devices /\ timer[t].st = "fired"
        BY <1>0, <1>7 DEF TakePending, Busy
    <2>2. timer' = [timer EXCEPT ![t] = IF v = Unset THEN NoTimerSet
                                       ELSE [st |-> "open", dev |-> d, value |-> v]]
        BY <1>7 DEF TakePending
    <2>3. ReaderDue => ReaderDue'
        <3>1. CASE v = Unset
            <4>1. debouncePending' = debouncePending /\ setter' = setter
                BY <1>0, <1>7, <2>1, <3>1 DEF TakePending
            <4>2. \A s \in Timers : timer[s].st \in {"open", "write", "store", "read"} => timer'[s] = timer[s]
                BY <1>0, <2>1, <2>2
            <4> QED BY <4>1, <4>2 DEF ReaderDue
        <3>2. CASE v # Unset
            <4>1. timer'[t].st = "open"
                BY <1>0, <2>2, <3>2
            <4> QED BY <4>1 DEF ReaderDue
        <3> QED BY <3>1, <3>2
    <2> QED BY <1>7, <2>3, PublishedFrame DEF TakePending, publishedVars, busVars
<1>8. ASSUME NEW t \in Timers, OpenBus(t) \/ WriteBus(t) \/ StoreDevice(t) PROVE PublishedOrDue'
    <2>1. timer'[t].st \in {"write", "store", "read"}
        BY <1>0, <1>8, TimerGoesTo, TimerGoesBack DEF OpenBus, WriteBus, StoreDevice, TimerPlaces
    <2> QED BY <1>8, <2>1, PublishedFrame DEF OpenBus, WriteBus, StoreDevice, publishedVars, ReaderDue
<1>9. ASSUME NEW t \in Timers, CallbackRead(t) PROVE PublishedOrDue'
    BY <1>9, UpdatersApart, ReadPublishes DEF CallbackRead, ReadDevices
<1>10. ASSUME NEW t \in Timers, CallbackStore(t) PROVE PublishedOrDue'
    <2>1. ReaderDue => ReaderDue'
        BY <1>0, <1>10 DEF CallbackStore, ReaderDue
    <2>2. t \in Updaters /\ seenDevices[t] \in [Devices -> Shownable]
        BY <1>0, <1>10, UpdatersApart DEF CallbackStore, DdcTypes, StorersHaveRead
    <2> QED BY <1>10, <2>1, <2>2, StorePublishes DEF CallbackStore
<1>11. ASSUME NEW d \in Devices, Hotplug(d) PROVE PublishedOrDue'
    <2>1. ReaderDue => ReaderDue'
        BY <1>11 DEF Hotplug, ReaderDue, debounceVars
    <2> QED BY <1>11, <2>1, PublishedFrame DEF Hotplug, publishedVars
<1>12. CASE Rescan
    BY <1>12, UpdatersApart, ReadPublishes DEF Rescan
<1>13. CASE RescanStore
    <2>1. ReaderDue => ReaderDue'
        BY <1>13 DEF RescanStore, ReaderDue, debounceVars
    <2>2. 0 \in Updaters /\ seenDevices[0] \in [Devices -> Shownable]
        BY <1>0, <1>13, UpdatersApart DEF RescanStore, DdcTypes, StateTypes
    <2> QED BY <1>13, <2>1, <2>2, StorePublishes DEF RescanStore
<1>14. CASE UNCHANGED ddcVars
    <2>1. ReaderDue' = ReaderDue
        BY <1>14 DEF ddcVars, ReaderDue
    <2> QED BY <1>14, <2>1, PublishedFrame DEF ddcVars
<1> QED BY <1>1, <1>2, <1>3, <1>4, <1>5, <1>6, <1>7, <1>8, <1>9, <1>10, <1>11, <1>12, <1>13, <1>14
        DEF DdcNext, SetStep, TimerStep

-----------------------------------------------------------------------------
\* Callers, timers and a rescan, in any order, keep DdcInv.
THEOREM DdcInvariant == DdcSpec => []DdcInv
<1>1. DdcInv /\ [DdcNext]_ddcVars => DdcInv'
    BY DdcTypesKept, WaitGroupKept, PendingKept, WrittenKept, PublishedKept DEF DdcInv
<1> QED BY <1>1, DdcInitInv, PTL DEF DdcSpec

LEMMA DdcInvTypes == DdcInv => DdcTypeOK
<1> SUFFICES ASSUME DdcInv PROVE DdcTypeOK
    OBVIOUS
<1>1. debounceWg \in 0..MaxSets
    BY BusyIsFinite DEF DdcInv, WaitGroupCounts
<1> QED BY <1>1 DEF DdcInv, DdcTypes, DdcTypeOK, DebounceTypes, BusTypes, StateTypes, Shownable

\* When no timer and no caller is left, the last value asked for is on the monitor, in the
\* backend and, unless an older reading was stored last, in the manager's state (ddc.go).
THEOREM BrightnessSettles == DdcSpec => []LastSetIsShown
<1>1. DdcInv => LastSetIsShown
    <2> SUFFICES ASSUME DdcInv, WrittenAll, NEW d \in Devices
                 PROVE  /\ debouncePending[d] = Unset
                        /\ lastSet[d] # Unset /\ d \in scanned /\ ~overlappedSet[d] /\ ~failedSet[d] =>
                              /\ shown[d] = lastSet[d]
                              /\ (\A u \in Updaters : seenDevices[u] = NotRead) /\ ~outdated
                                     => deviceState[d].current = lastSet[d]
        BY DEF LastSetIsShown
    <2>1. \A t \in Timers : timer[t].st = "none"
        <3>1. Busy = {}
            BY BusyIsFinite, FS_EmptySet DEF DdcInv, WaitGroupCounts, WrittenAll
        <3> QED BY <3>1 DEF Busy
    <2>2. \A e \in Devices : debouncePending[e] = Unset /\ Writing(e) = {}
        BY <2>1 DEF DdcInv, DdcTypes, DebounceTypes, PendingIsLast, Writing
    <2>3. WellWritten(d) => shown[d] = lastSet[d] /\ lastBrightness[d] = lastSet[d]
        BY <2>2 DEF DdcInv, LastIsWritten
    <2>4. ~ReaderDue
        BY <2>1, <2>2 DEF ReaderDue, WrittenAll
    <2>5. (\A u \in Updaters : seenDevices[u] = NotRead) /\ ~outdated => deviceState[d].current = View(d)
        BY <2>4 DEF DdcInv, PublishedOrDue, ReadUnderWay
    <2> QED BY <2>2, <2>3, <2>5 DEF WellWritten, View
<1> QED BY <1>1, DdcInvariant, PTL

\* The debounce maps, timers and published states keep their types, and the wait group never
\* counts more than the changes asked for (ddc.go).
THEOREM DdcTypesHold == DdcSpec => []DdcTypeOK
BY DdcInvTypes, DdcInvariant, PTL

-----------------------------------------------------------------------------
(***************************************************************************)
(* ClipboardHistory, for any contents, handlers and limits: the types, no  *)
(* content twice unpinned, sweeps that name only what is still too old, a  *)
(* published history that is the stored one, and no content lost.          *)
(***************************************************************************)

Entries == [data : Contents, pinned : BOOLEAN, old : BOOLEAN] \cup {Nothing}
Tables == [Ids -> Entries]
Places == {"idle", "store", "copy", "touch", "pin", "pinTwins", "pinCount", "pinPut",
           "unpin", "delete", "clear", "count", "close", "open", "read", "publish"}
Records == [pc : Places, id : Ids \cup {0}, data : Contents \cup {NoContent}, pinned : BOOLEAN,
            seen : [ids : SUBSET Ids, pins : SUBSET Ids]]
\* Who works on an entry knows its number, and who stores something has a content.
Servings == {r \in Records :
    /\ r.pc \in {"copy", "touch", "pin", "pinTwins", "pinCount", "pinPut", "unpin", "delete"}
           => r.id \in Ids
    /\ r.pc = "store" => r.data \in Contents}

\* What UnpinnedUnique says, of any table.
UniqueIn(e) == \A i, j \in Unpinned(e) : e[i].data = e[j].data => i = j

\* The numbers given out bound the sweeps, so that a new entry is in none of them.
SweepsNumbered == \A ids \in sweeps : ids \subseteq 1..sequence

ClipInv ==
    /\ ClipTypeOK /\ entry \in Tables /\ serving \in [Handlers -> Servings]
    /\ UnpinnedUnique /\ SweepsNumbered /\ SweepsAreStale

\* e has nothing that f has not: each entry is f's or has been removed.
Thinner(e, f) == \A i \in Ids : e[i] = Nothing \/ e[i] = f[i]
\* No number is taken again, and no entry is younger in e than in f.
Ages(e, f) == \A i \in Ids : e[i] = Nothing \/ (f[i] # Nothing /\ (f[i].old => e[i].old))

-----------------------------------------------------------------------------
\* Removing entries from a table yields a thinner one.
LEMMA WithoutThins ==
    ASSUME NEW e \in Tables, NEW ids
    PROVE  Without(e, ids) \in Tables /\ Thinner(Without(e, ids), e)
BY ClipboardAssumption DEF Without, Tables, Entries, Thinner, Nothing

\* A thinner table keeps its contents unique and holds no number that was not held.
LEMMA ThinnerIsUnique ==
    ASSUME NEW e \in Tables, NEW f \in Tables, Thinner(e, f), UniqueIn(f)
    PROVE  UniqueIn(e) /\ Stored(e) \subseteq Stored(f) /\ Ages(e, f)
<1>1. \A i \in Stored(e) : e[i] = f[i] /\ i \in Stored(f)
    BY DEF Stored, Thinner, Nothing
<1>2. Unpinned(e) \subseteq Unpinned(f)
    BY <1>1 DEF Unpinned, Pinned, Stored
<1>3. Ages(e, f)
    BY DEF Ages, Thinner
<1> QED BY <1>1, <1>2, <1>3 DEF UniqueIn, Unpinned

\* trimLengthInTx only removes.
LEMMA TrimThins ==
    ASSUME NEW e \in Tables
    PROVE  Trimmed(e) \in Tables /\ Thinner(Trimmed(e), e)
BY WithoutThins DEF Trimmed

\* storeEntry, before the trim: the twins of the new entry have made room for it.
LEMMA PutIsUnique ==
    ASSUME NEW e \in Tables, UniqueIn(e), NEW d \in Contents, NEW pin \in BOOLEAN, NEW n \in Ids,
           NEW f, f = [Deduplicated(e, d) EXCEPT ![n] = [data |-> d, pinned |-> pin, old |-> FALSE]]
    PROVE  f \in Tables /\ UniqueIn(f)
<1> DEFINE g == Deduplicated(e, d)
<1>1. g \in Tables /\ Thinner(g, e)
    BY WithoutThins DEF Deduplicated
<1>2. UniqueIn(g)
    BY <1>1, ThinnerIsUnique
<1>3. \A i \in Unpinned(g) : g[i].data # d
  <2> SUFFICES ASSUME NEW i \in Unpinned(g) PROVE g[i].data # d
      OBVIOUS
  <2>1. i \in Ids /\ g[i] # Nothing /\ g[i] = e[i]
      BY <1>1 DEF Unpinned, Stored, Thinner, Nothing
  <2>2. i \notin SameContent(e, d) \cap Unpinned(e)
      BY <2>1 DEF Deduplicated, Without
  <2>3. i \in Unpinned(e)
      BY <2>1 DEF Unpinned, Stored, Pinned
  <2> QED BY <2>1, <2>2, <2>3 DEF SameContent, Unpinned
<1>4. f \in Tables
    BY <1>1 DEF Tables, Entries
<1>5. \A i \in Unpinned(f) : i # n => i \in Unpinned(g) /\ f[i] = g[i]
    BY <1>1, <1>4 DEF Unpinned, Stored, Pinned, Tables
<1>6. f[n].data = d
    BY <1>1 DEF Tables
<1>7. ASSUME NEW i \in Unpinned(f), NEW j \in Unpinned(f), f[i].data = f[j].data PROVE i = j
  <2>1. CASE i # n /\ j # n
      BY <1>2, <1>5, <1>7, <2>1 DEF UniqueIn
  <2>2. CASE i = n /\ j # n
      BY <1>3, <1>5, <1>6, <1>7, <2>2
  <2>3. CASE i # n /\ j = n
      BY <1>3, <1>5, <1>6, <1>7, <2>3
  <2> QED BY <2>1, <2>2, <2>3
<1> HIDE DEF g
<1> QED BY <1>4, <1>7 DEF UniqueIn

\* UnpinEntry: with a twin the entry goes, without one it alone is unpinned.
LEMMA UnpinIsUnique ==
    ASSUME NEW e \in Tables, UniqueIn(e), NEW i \in Ids, e[i] # Nothing
    PROVE  /\ WithoutPin(e, i) \in Tables /\ UniqueIn(WithoutPin(e, i))
           /\ Ages(WithoutPin(e, i), e) /\ Stored(WithoutPin(e, i)) \subseteq Stored(e)
<1> DEFINE twins == (SameContent(e, e[i].data) \cap Unpinned(e)) \ {i}
           f == [e EXCEPT ![i].pinned = FALSE]
<1>1. CASE e[i].pinned /\ twins # {}
  <2> DEFINE out == {i} \cup {j \in twins : \E k \in twins : k > j}
  <2>1. WithoutPin(e, i) = Without(e, out)
      BY <1>1 DEF WithoutPin
  <2>2. Without(e, out) \in Tables /\ Thinner(Without(e, out), e)
      BY WithoutThins
  <2> QED BY <2>1, <2>2, ThinnerIsUnique
<1>2. CASE ~(e[i].pinned /\ twins # {})
  <2>1. WithoutPin(e, i) = f
      BY <1>2 DEF WithoutPin
  <2>2. f \in Tables /\ \A j \in Ids : f[j].data = e[j].data /\ f[j].old = e[j].old
      BY DEF Tables, Entries
  <2>3. \A j \in Ids : j # i => f[j] = e[j]
      BY DEF Tables
  <2>4. Stored(f) = Stored(e)
      BY <2>2 DEF Stored
  <2>5. \A j \in Unpinned(f) : j # i => j \in Unpinned(e)
      BY <2>3, <2>4 DEF Unpinned, Pinned
  <2>6. \A j \in Unpinned(f) : j # i => e[j].data # e[i].data \/ i \in Unpinned(e)
    <3> SUFFICES ASSUME NEW j \in Unpinned(f), j # i, e[j].data = e[i].data, i \notin Unpinned(e)
                 PROVE  FALSE
        OBVIOUS
    <3>1. j \in twins
        BY <2>4, <2>5 DEF SameContent, Unpinned
    <3>2. i \in Stored(e)
        BY <2>4, <2>5, <3>1 DEF SameContent, Stored, Unpinned
    <3>3. e[i].pinned
        BY <3>2 DEF Unpinned, Pinned
    <3> QED BY <1>2, <3>1, <3>3
  <2>7. UniqueIn(f)
      BY <2>2, <2>5, <2>6 DEF UniqueIn, Unpinned, Stored
  <2>8. Ages(f, e)
      BY <2>2, <2>3 DEF Ages
  <2> QED BY <2>1, <2>2, <2>4, <2>7, <2>8
<1> QED BY <1>1, <1>2
-----------------------------------------------------------------------------
LEMMA TablesType ==
    Tables \subseteq [Ids -> [data : Contents \cup {NoContent}, pinned : BOOLEAN, old : BOOLEAN]]
<1>1. Entries \subseteq [data : Contents \cup {NoContent}, pinned : BOOLEAN, old : BOOLEAN]
  <2>1. Nothing \in [data : Contents \cup {NoContent}, pinned : BOOLEAN, old : BOOLEAN]
      BY DEF Nothing
  <2> QED BY <2>1 DEF Entries
<1> QED BY <1>1 DEF Tables

LEMMA ServingsType ==
    [Handlers -> Servings] \subseteq [Handlers ->
          [pc : {"idle", "store", "copy", "touch", "pin", "pinTwins", "pinCount", "pinPut",
                 "unpin", "delete", "clear", "count", "close", "open", "read", "publish"},
           id : Ids \cup {0}, data : Contents \cup {NoContent}, pinned : BOOLEAN,
           seen : [ids : SUBSET Ids, pins : SUBSET Ids]]]
BY DEF Servings, Records, Places

LEMMA IdleType == Idle \in Servings
BY DEF Idle, Servings, Records, Places

LEMMA ClipInitInv == ClipInit => ClipInv
<1> SUFFICES ASSUME ClipInit PROVE ClipInv
    OBVIOUS
<1>1. \A i \in Ids : entry[i] = Nothing
    BY DEF ClipInit
<1>2. Stored(entry) = {}
    BY <1>1 DEF Stored, Nothing
<1>3. entry \in [Ids -> Entries]
    BY DEF ClipInit, Nothing, Entries
<1>4. sequence \in 0..MaxIds /\ Stored(entry) \subseteq 1..sequence
    BY <1>2, ClipboardAssumption DEF ClipInit
<1>5. serving \in [Handlers -> Servings]
    BY IdleType DEF ClipInit
<1>6. ClipTypeOK
    BY <1>3, <1>4, <1>5, TablesType, ServingsType DEF ClipInit, ClipTypeOK, Tables
<1> QED BY <1>2, <1>3, <1>5, <1>6 DEF Tables, ClipInit, ClipInv, UnpinnedUnique, Unpinned, SweepsNumbered, SweepsAreStale

\* What is published of a table is within the types.
LEMMA HistoryType ==
    ASSUME NEW e
    PROVE  /\ History(e) \in [ids : SUBSET Ids, pins : SUBSET Ids]
           /\ Stale(e) \subseteq Stored(e)
           /\ \A i \in Stale(e) : e[i].old
BY DEF History, Stored, Pinned, Stale

\* A step that gives out no number and makes no entry younger preserves what is said of
\* the table and the sweeps.
LEMMA OlderKeepsInv ==
    ASSUME ClipInv, UniqueIn(entry'), Stored(entry') \subseteq Stored(entry),
           Ages(entry', entry), UNCHANGED sequence, sweeps' \subseteq sweeps
    PROVE  /\ UnpinnedUnique' /\ SweepsNumbered' /\ SweepsAreStale'
           /\ Stored(entry') \subseteq 1..sequence'
<1>1. UnpinnedUnique'
    BY DEF UnpinnedUnique, UniqueIn
<1>2. SweepsNumbered'
    BY DEF ClipInv, SweepsNumbered
<1>3. SweepsAreStale'
    BY DEF ClipInv, SweepsAreStale, SweepsNumbered, Ages, ClipTypeOK
<1> QED BY <1>1, <1>2, <1>3 DEF ClipInv, ClipTypeOK

\* A goroutine's step keeps the type of its record.
LEMMA ServingType ==
    ASSUME serving \in [Handlers -> Servings], NEW h \in Handlers
    PROVE  /\ \A r \in Servings : Becomes(h, r) => serving' \in [Handlers -> Servings]
           /\ \A pc : /\ Goes(h, pc)
                      /\ [serving[h] EXCEPT !.pc = pc] \in Servings
                      => serving' \in [Handlers -> Servings]
           /\ Ends(h) => serving' \in [Handlers -> Servings]
<1>1. \A r \in Servings : Becomes(h, r) => serving' \in [Handlers -> Servings]
    BY DEF Becomes
<1> QED BY <1>1, IdleType DEF Goes, Ends

\* A step that leaves the table, the numbers and the sweeps alone preserves the invariant.
LEMMA TableUntouched ==
    ASSUME ClipInv, UNCHANGED <<entry, sequence, autoClear, clearAtStartup, sweeps>>,
           closed' \in BOOLEAN, serving' \in [Handlers -> Servings]
    PROVE  ClipInv'
<1>1. ClipTypeOK'
    BY DEF ClipInv, ClipTypeOK, Servings, Records, Places, Stored
<1>2. entry' \in Tables
    BY DEF ClipInv
<1> QED BY <1>1, <1>2 DEF ClipInv, UnpinnedUnique, SweepsNumbered, SweepsAreStale, Unpinned, Stored, Pinned

\* What the invariant says of the table, under the names used here.
LEMMA TableFacts ==
    ASSUME ClipInv
    PROVE  /\ entry \in Tables /\ UniqueIn(entry) /\ Stored(entry) \subseteq 1..sequence
           /\ serving \in [Handlers -> Servings] /\ sequence \in 0..MaxIds
BY DEF ClipInv, ClipTypeOK, UnpinnedUnique, UniqueIn

\* A step on the table that gives out no number preserves the invariant.
LEMMA TableOlder ==
    ASSUME ClipInv, entry' \in Tables, UniqueIn(entry'), Stored(entry') \subseteq Stored(entry),
           Ages(entry', entry), UNCHANGED <<sequence, autoClear, clearAtStartup>>,
           sweeps' \subseteq sweeps, closed' \in BOOLEAN, serving' \in [Handlers -> Servings]
    PROVE  ClipInv'
<1>1. ClipTypeOK'
    BY OlderKeepsInv, TablesType, ServingsType DEF ClipInv, ClipTypeOK
<1> QED BY <1>1, OlderKeepsInv DEF ClipInv

-----------------------------------------------------------------------------
(* The steps.                                                              *)

LEMMA ClipRequestKeepsInv == ASSUME ClipInv, NEW h \in Handlers, Request(h) PROVE ClipInv'
<1>1. ASSUME NEW pc, NEW i, NEW d, Arrive(h, pc, i, d),
             [Idle EXCEPT !.pc = pc, !.id = i, !.data = d] \in Servings
      PROVE  ClipInv'
  <2>1. serving' \in [Handlers -> Servings]
      BY <1>1, TableFacts DEF Arrive
  <2> QED BY <1>1, <2>1, TableUntouched DEF Arrive, ClipInv, ClipTypeOK
<1>2. CASE \E d \in Contents : Arrive(h, "store", 0, d)
  <2>1. \A d \in Contents : [Idle EXCEPT !.pc = "store", !.id = 0, !.data = d] \in Servings
      BY DEF Servings, Records, Places, Idle
  <2> QED BY <1>1, <1>2, <2>1
<1>3. CASE \E i \in 1..sequence, pc \in {"copy", "pin", "unpin", "delete"} :
              Arrive(h, pc, i, NoContent)
  <2>1. 1..sequence \subseteq Ids
      BY TableFacts, ClipboardAssumption DEF Ids
  <2>2. \A i \in Ids, pc \in {"copy", "pin", "unpin", "delete"} :
           [Idle EXCEPT !.pc = pc, !.id = i, !.data = NoContent] \in Servings
      BY DEF Servings, Records, Places, Idle
  <2> QED BY <1>1, <1>3, <2>1, <2>2
<1>4. CASE Arrive(h, "clear", 0, NoContent)
  <2>1. [Idle EXCEPT !.pc = "clear", !.id = 0, !.data = NoContent] \in Servings
      BY DEF Servings, Records, Places, Idle
  <2> QED BY <1>1, <1>4, <2>1
<1> QED BY <1>2, <1>3, <1>4 DEF Request

\* The steps that only look.
LEMMA LookingKeepsInv ==
    ASSUME ClipInv, NEW h \in Handlers,
           GetToCopy(h) \/ GetToTouch(h) \/ GetToPin(h) \/ LookForPinnedTwin(h)
              \/ CountPinned(h) \/ CountToCompact(h)
    PROVE  ClipInv'
<1>1. UNCHANGED <<entry, sequence, closed, autoClear, clearAtStartup, sweeps>>
    BY DEF GetToCopy, GetToTouch, GetToPin, LookForPinnedTwin, CountPinned, CountToCompact,
           ReadOnly, Kept
<1>2. serving \in [Handlers -> Servings] /\ entry \in Tables
    BY TableFacts
<1>3. serving[h] \in Servings /\ serving[h] \in Records
    BY <1>2 DEF Servings
<1>4. \A i \in Ids : entry[i] # Nothing => /\ entry[i].data \in Contents
                                           /\ entry[i].pinned \in BOOLEAN
    BY <1>2 DEF Tables, Entries
<1>5. CASE GetToCopy(h)
  <2> DEFINE e == entry[Target(h)]
  <2>1. Target(h) \in Ids
      BY <1>3, <1>5 DEF GetToCopy, At, Target, Servings
  <2>2. e # Nothing => [serving[h] EXCEPT !.pc = "store", !.data = e.data] \in Servings
      BY <1>3, <1>4, <2>1 DEF Servings, Records, Places
  <2>3. [serving[h] EXCEPT !.pc = "touch"] \in Servings
      BY <1>3, <2>1 DEF Target, Servings, Records, Places
  <2>4. serving' \in [Handlers -> Servings]
      BY <1>2, <1>5, <2>2, <2>3, ServingType DEF GetToCopy
  <2> QED BY <1>1, <2>4, TableUntouched DEF ClipInv, ClipTypeOK
<1>6. CASE GetToTouch(h)
  <2> DEFINE e == entry[Target(h)]
  <2>1. Target(h) \in Ids
      BY <1>3, <1>6 DEF GetToTouch, At, Target, Servings
  <2>2. e # Nothing =>
          [serving[h] EXCEPT !.pc = "store", !.data = e.data, !.pinned = e.pinned] \in Servings
      BY <1>3, <1>4, <2>1 DEF Servings, Records, Places
  <2>3. serving' \in [Handlers -> Servings]
      BY <1>2, <1>6, <2>2, ServingType DEF GetToTouch
  <2> QED BY <1>1, <2>3, TableUntouched DEF ClipInv, ClipTypeOK
<1>7. CASE GetToPin(h)
  <2> DEFINE e == entry[Target(h)]
  <2>1. Target(h) \in Ids
      BY <1>3, <1>7 DEF GetToPin, At, Target, Servings
  <2>2. e # Nothing => [serving[h] EXCEPT !.pc = "pinTwins", !.data = e.data] \in Servings
      BY <1>3, <1>4, <2>1 DEF Target, Servings, Records, Places
  <2>3. serving' \in [Handlers -> Servings]
      BY <1>2, <1>7, <2>2, ServingType DEF GetToPin
  <2> QED BY <1>1, <2>3, TableUntouched DEF ClipInv, ClipTypeOK
<1>8. CASE LookForPinnedTwin(h)
  <2>1. [serving[h] EXCEPT !.pc = "pinCount"] \in Servings
      BY <1>3, <1>8 DEF LookForPinnedTwin, At, Servings, Records, Places
  <2>2. serving' \in [Handlers -> Servings]
      BY <1>2, <1>8, <2>1, ServingType DEF LookForPinnedTwin
  <2> QED BY <1>1, <2>2, TableUntouched DEF ClipInv, ClipTypeOK
<1>9. CASE CountPinned(h)
  <2>1. [serving[h] EXCEPT !.pc = "pinPut"] \in Servings
      BY <1>3, <1>9 DEF CountPinned, At, Servings, Records, Places
  <2>2. serving' \in [Handlers -> Servings]
      BY <1>2, <1>9, <2>1, ServingType DEF CountPinned
  <2> QED BY <1>1, <2>2, TableUntouched DEF ClipInv, ClipTypeOK
<1>10. CASE CountToCompact(h)
  <2>1. \A pc \in {"close", "read"} : [serving[h] EXCEPT !.pc = pc] \in Servings
      BY <1>3 DEF Servings, Records, Places
  <2>2. serving' \in [Handlers -> Servings]
      BY <1>2, <1>10, <2>1, ServingType DEF CountToCompact
  <2> QED BY <1>1, <2>2, TableUntouched DEF ClipInv, ClipTypeOK
<1> QED BY <1>5, <1>6, <1>7, <1>8, <1>9, <1>10

\* storeEntry: the new number is above every one that was given out, so no sweep names it.
LEMMA StoreKeepsInv == ASSUME ClipInv, NEW h \in Handlers, StoreEntry(h) PROVE ClipInv'
<1> DEFINE d == serving[h].data
           pin == serving[h].pinned
           n == sequence + 1
           f == [Deduplicated(entry, d) EXCEPT ![n] = [data |-> d, pinned |-> pin, old |-> FALSE]]
<1>1. /\ serving \in [Handlers -> Servings] /\ entry \in Tables /\ UniqueIn(entry)
      /\ Stored(entry) \subseteq 1..sequence /\ sequence \in 0..MaxIds
    BY TableFacts
<1>2. d \in Contents /\ pin \in BOOLEAN
    BY <1>1 DEF StoreEntry, At, Servings, Records
<1>3. n \in Ids /\ n \in 1..MaxIds /\ n \notin 1..sequence
    BY <1>1, ClipboardAssumption DEF StoreEntry, Ids
<1>4. serving' \in [Handlers -> Servings]
  <2>1. [serving[h] EXCEPT !.pc = "read"] \in Servings
      BY <1>1 DEF Servings, Records, Places
  <2> QED BY <1>1, <2>1, ServingType DEF StoreEntry
<1>5. CASE closed
    BY <1>4, <1>5, TableUntouched DEF StoreEntry, Kept, ClipInv, ClipTypeOK
<1>6. CASE ~closed
  <2>1. f \in Tables /\ UniqueIn(f)
      BY <1>1, <1>2, <1>3, PutIsUnique
  <2>2. entry' = Trimmed(f) /\ sequence' = n
      BY <1>6 DEF StoreEntry, WithEntry
  <2>3. entry' \in Tables /\ UniqueIn(entry') /\ Stored(entry') \subseteq Stored(f) /\ Ages(entry', f)
      BY <2>1, <2>2, TrimThins, ThinnerIsUnique
  <2>4. \A i \in Ids : i # n => f[i] = Nothing \/ f[i] = entry[i]
      BY <1>1, WithoutThins DEF Deduplicated, Thinner, Tables
  <2>5. Stored(f) \subseteq Stored(entry) \cup {n}
      BY <2>4 DEF Stored, Nothing
  <2>6. Stored(entry') \subseteq 1..sequence' /\ sequence' \in 0..MaxIds
      BY <1>1, <1>3, <2>2, <2>3, <2>5, ClipboardAssumption
  <2>7. UNCHANGED <<closed, autoClear, clearAtStartup, sweeps>>
      BY DEF StoreEntry, Kept
  <2>8. ClipTypeOK'
      BY <1>4, <2>3, <2>6, <2>7, TablesType, ServingsType DEF ClipInv, ClipTypeOK
  <2>9. UnpinnedUnique'
      BY <2>3 DEF UnpinnedUnique, UniqueIn
  <2>10. SweepsNumbered'
      BY <1>1, <2>2, <2>7, ClipboardAssumption DEF ClipInv, SweepsNumbered
  <2>11. SweepsAreStale'
    <3> SUFFICES ASSUME NEW ids \in sweeps, NEW i \in ids, entry'[i] # Nothing PROVE entry'[i].old
        BY <2>7 DEF SweepsAreStale
    <3>1. i \in Ids /\ i # n
        BY <1>3 DEF ClipInv, ClipTypeOK, SweepsNumbered
    <3>2. f[i] # Nothing /\ (f[i].old => entry'[i].old)
        BY <2>3, <3>1 DEF Ages
    <3>3. f[i] = entry[i]
        BY <2>4, <3>1, <3>2
    <3> QED BY <3>2, <3>3 DEF ClipInv, SweepsAreStale
  <2> QED BY <1>4, <2>3, <2>8, <2>9, <2>10, <2>11 DEF ClipInv
<1> QED BY <1>5, <1>6

\* The other steps of a goroutine that change the table give out no number.
LEMMA ChangingKeepsInv ==
    ASSUME ClipInv, NEW h \in Handlers,
           PutPinned(h) \/ UnpinEntry(h) \/ DeleteEntry(h) \/ ClearHistory(h)
    PROVE  ClipInv'
<1>1. /\ serving \in [Handlers -> Servings] /\ entry \in Tables /\ UniqueIn(entry)
      /\ Stored(entry) \subseteq 1..sequence /\ sequence \in 0..MaxIds
    BY TableFacts
<1>2. UNCHANGED <<sequence, closed, autoClear, clearAtStartup, sweeps>>
    BY DEF PutPinned, UnpinEntry, DeleteEntry, ClearHistory, Kept
<1>3. serving' \in [Handlers -> Servings]
  <2>1. \A pc \in {"read", "count"} : [serving[h] EXCEPT !.pc = pc] \in Servings
      BY <1>1 DEF Servings, Records, Places
  <2> QED BY <1>1, <2>1, ServingType DEF PutPinned, UnpinEntry, DeleteEntry, ClearHistory
<1>4. closed \in BOOLEAN
    BY DEF ClipInv, ClipTypeOK
<1>5. CASE entry' = entry
    BY <1>2, <1>3, <1>4, <1>5, TableUntouched
<1>6. ASSUME NEW ids, entry' = Without(entry, ids) PROVE ClipInv'
    BY <1>1, <1>2, <1>3, <1>4, <1>6, WithoutThins, ThinnerIsUnique, TableOlder
<1>7. CASE PutPinned(h) /\ entry' # entry
  <2> DEFINE i == Target(h)
             f == [entry EXCEPT ![i].pinned = TRUE]
  <2>1. i \in Ids /\ entry[i] # Nothing /\ entry' = f
      BY <1>1, <1>7 DEF PutPinned, At, Target, Servings
  <2>2. f \in Tables /\ \A j \in Ids : f[j].data = entry[j].data /\ f[j].old = entry[j].old
      BY <1>1, <2>1 DEF Tables, Entries
  <2>3. \A j \in Ids : j # i => f[j] = entry[j]
      BY <1>1 DEF Tables
  <2>4. f[i].pinned
      BY <1>1, <2>1 DEF Tables, Entries
  <2>5. Stored(f) = Stored(entry)
      BY <2>2 DEF Stored
  <2>6. Unpinned(f) \subseteq Unpinned(entry)
      BY <2>3, <2>4, <2>5 DEF Unpinned, Pinned
  <2>7. UniqueIn(f)
      BY <1>1, <2>2, <2>6 DEF UniqueIn, Unpinned, Stored
  <2>8. Ages(f, entry)
      BY <2>1, <2>2, <2>3 DEF Ages
  <2> QED BY <1>2, <1>3, <1>4, <2>1, <2>2, <2>5, <2>7, <2>8, TableOlder
<1>8. CASE UnpinEntry(h) /\ entry' # entry
  <2> DEFINE i == Target(h)
  <2>1. i \in Ids /\ entry[i] # Nothing /\ entry' = WithoutPin(entry, i)
      BY <1>1, <1>8 DEF UnpinEntry, At, Target, Servings
  <2> QED BY <1>1, <1>2, <1>3, <1>4, <2>1, UnpinIsUnique, TableOlder
<1>9. CASE DeleteEntry(h) /\ entry' # entry
    BY <1>6, <1>9 DEF DeleteEntry
<1>10. CASE ClearHistory(h)
    BY <1>6, <1>10 DEF ClearHistory
<1> QED BY <1>5, <1>7, <1>8, <1>9, <1>10

\* Compacting, reading and publishing leave the table alone.
LEMMA PublishingKeepsInv ==
    ASSUME ClipInv, NEW h \in Handlers,
           CloseToCompact(h) \/ OpenCompacted(h) \/ ReadHistory(h) \/ PublishHistory(h)
    PROVE  ClipInv'
<1>1. /\ serving \in [Handlers -> Servings] /\ entry \in Tables
      /\ Stored(entry) \subseteq 1..sequence
    BY TableFacts
<1>2. CASE CloseToCompact(h) \/ OpenCompacted(h)
  <2>1. \A pc \in {"open", "read"} : [serving[h] EXCEPT !.pc = pc] \in Servings
      BY <1>1 DEF Servings, Records, Places
  <2>2. serving' \in [Handlers -> Servings]
      BY <1>1, <1>2, <2>1, ServingType DEF CloseToCompact, OpenCompacted
  <2> QED BY <1>2, <2>2, TableUntouched DEF CloseToCompact, OpenCompacted, Kept
<1>3. CASE ReadHistory(h)
  <2>1. \A r \in [ids : SUBSET Ids, pins : SUBSET Ids] :
           [Idle EXCEPT !.pc = "publish", !.seen = r] \in Servings
      BY IdleType DEF Servings, Records, Places
  <2>2. Idle.seen \in [ids : SUBSET Ids, pins : SUBSET Ids]
      BY DEF Idle
  <2>3. serving' \in [Handlers -> Servings]
      BY <1>1, <1>3, <2>1, <2>2, HistoryType, ServingType DEF ReadHistory
  <2>4. sweeps' \subseteq sweeps \cup {Stale(entry)}
      BY <1>3 DEF ReadHistory
  <2>5. /\ Stale(entry) \subseteq 1..sequence /\ Stale(entry) \subseteq Ids
        /\ \A i \in Stale(entry) : entry[i].old
      BY <1>1, HistoryType DEF Stored
  <2>6. UNCHANGED <<entry, sequence, closed, autoClear, clearAtStartup>>
      BY <1>3 DEF ReadHistory
  <2>7. ClipTypeOK'
      BY <2>3, <2>4, <2>5, <2>6, ServingsType DEF ClipInv, ClipTypeOK, Stored
  <2>8. SweepsNumbered' /\ SweepsAreStale'
      BY <2>4, <2>5, <2>6 DEF ClipInv, SweepsNumbered, SweepsAreStale
  <2>9. UnpinnedUnique' /\ entry' \in Tables
      BY <1>1, <2>6 DEF ClipInv, UnpinnedUnique, Unpinned, Stored, Pinned
  <2> QED BY <2>3, <2>7, <2>8, <2>9 DEF ClipInv
<1>4. CASE PublishHistory(h)
  <2>1. serving' \in [Handlers -> Servings]
      BY <1>1, <1>4, ServingType DEF PublishHistory
  <2> QED BY <1>4, <2>1, TableUntouched DEF PublishHistory, ClipInv, ClipTypeOK
<1> QED BY <1>2, <1>3, <1>4

LEMMA SweepKeepsInv == ASSUME ClipInv, NEW ids, DeleteStaleEntries(ids) PROVE ClipInv'
<1>1. /\ serving' \in [Handlers -> Servings] /\ entry \in Tables /\ UniqueIn(entry)
      /\ UNCHANGED <<sequence, closed, autoClear, clearAtStartup>> /\ closed \in BOOLEAN
      /\ sweeps' \subseteq sweeps
    BY TableFacts DEF DeleteStaleEntries, ClipInv, ClipTypeOK
<1>2. entry' = entry \/ entry' = Without(entry, ids)
    BY DEF DeleteStaleEntries
<1>3. entry' \in Tables /\ Thinner(entry', entry)
    BY <1>1, <1>2, WithoutThins DEF Thinner
<1> QED BY <1>1, <1>3, ThinnerIsUnique, TableOlder

LEMMA AgeKeepsInv == ASSUME ClipInv, NEW i \in Ids, Age(i) PROVE ClipInv'
<1> DEFINE f == [entry EXCEPT ![i].old = TRUE]
<1>1. /\ serving' \in [Handlers -> Servings] /\ entry \in Tables /\ UniqueIn(entry)
      /\ UNCHANGED <<sequence, closed, autoClear, clearAtStartup, sweeps>> /\ closed \in BOOLEAN
    BY TableFacts DEF Age, ClipInv, ClipTypeOK
<1>2. entry[i].data # NoContent /\ entry[i] # Nothing /\ entry' = f
    BY DEF Age, Stored, Nothing
<1>3. f \in Tables /\ f[i].old
    BY <1>1, <1>2 DEF Tables, Entries
<1>4. \A j \in Ids : f[j].data = entry[j].data /\ f[j].pinned = entry[j].pinned
    BY <1>1, <1>2 DEF Tables, Entries
<1>5. \A j \in Ids : j # i => f[j] = entry[j]
    BY <1>1 DEF Tables
<1>6. Stored(f) = Stored(entry) /\ Unpinned(f) = Unpinned(entry)
    BY <1>4 DEF Stored, Unpinned, Pinned
<1>7. UniqueIn(f)
    BY <1>1, <1>4, <1>6 DEF UniqueIn, Unpinned, Stored
<1>8. Ages(f, entry)
    BY <1>2, <1>3, <1>5 DEF Ages
<1> QED BY <1>1, <1>2, <1>3, <1>6, <1>7, <1>8, TableOlder

\* A restart forgets the sweeps, and may forget the numbers with the entries.
LEMMA RestartKeepsInv == ASSUME ClipInv, Restart PROVE ClipInv'
<1> DEFINE none == [i \in Ids |-> Nothing]
<1>1. /\ entry \in Tables /\ UniqueIn(entry) /\ Stored(entry) \subseteq 1..sequence
      /\ sequence \in 0..MaxIds /\ clearAtStartup \in BOOLEAN
    BY TableFacts DEF ClipInv, ClipTypeOK
<1>2. none \in Tables /\ Thinner(none, entry) /\ Stored(none) = {}
    BY DEF Tables, Entries, Thinner, Stored, Nothing
<1>3. entry' \in Tables /\ Thinner(entry', entry)
    BY <1>1, <1>2, WithoutThins DEF Restart
<1>4. UniqueIn(entry') /\ Stored(entry') \subseteq Stored(entry)
    BY <1>1, <1>3, ThinnerIsUnique
<1>5. Stored(entry') \subseteq 1..sequence' /\ sequence' \in 0..MaxIds
  <2>1. CASE clearAtStartup
    <3>1. entry' = none /\ sequence' = 0
        BY <2>1 DEF Restart
    <3>2. Stored(entry') = {}
        BY <1>2, <3>1
    <3> QED BY <3>1, <3>2, ClipboardAssumption
  <2>2. CASE ~clearAtStartup
    <3>1. sequence' = sequence
        BY <2>2 DEF Restart
    <3> QED BY <1>1, <1>4, <3>1
  <2> QED BY <2>1, <2>2
<1>6. sweeps' \subseteq {Stale(entry)'}
    BY DEF Restart, Stale, Stored
<1>7. /\ Stale(entry)' \subseteq 1..sequence' /\ Stale(entry)' \subseteq Ids
      /\ \A i \in Stale(entry)' : entry'[i].old
    BY <1>5 DEF Stale, Stored
<1>8. serving' \in [Handlers -> Servings]
    BY IdleType DEF Restart
<1>9. ClipTypeOK'
  <2>1. closed' \in BOOLEAN /\ autoClear' \in BOOLEAN /\ clearAtStartup' \in BOOLEAN
      BY DEF Restart, ClipInv, ClipTypeOK
  <2>2. sweeps' \subseteq SUBSET Ids
      BY <1>6, <1>7
  <2> QED BY <1>3, <1>5, <1>8, <2>1, <2>2, TablesType, ServingsType DEF ClipTypeOK
<1>10. SweepsNumbered' /\ SweepsAreStale'
    BY <1>6, <1>7 DEF SweepsNumbered, SweepsAreStale
<1>11. UnpinnedUnique'
    BY <1>4 DEF UnpinnedUnique, UniqueIn
<1> QED BY <1>3, <1>8, <1>9, <1>10, <1>11 DEF ClipInv

-----------------------------------------------------------------------------
\* Every step preserves the invariant.
LEMMA ClipStepKeepsInv == ClipInv /\ [ClipNext]_clipVars => ClipInv'
<1> SUFFICES ASSUME ClipInv, [ClipNext]_clipVars PROVE ClipInv'
    OBVIOUS
<1>1. ASSUME NEW h \in Handlers, Request(h) \/ ServeStep(h) PROVE ClipInv'
    BY <1>1, ClipRequestKeepsInv, LookingKeepsInv, StoreKeepsInv, ChangingKeepsInv,
       PublishingKeepsInv DEF ServeStep
<1>2. CASE UNCHANGED clipVars
  <2>1. serving' \in [Handlers -> Servings] /\ closed' \in BOOLEAN
      BY <1>2 DEF clipVars, ClipInv, ClipTypeOK
  <2> QED BY <1>2, <2>1, TableUntouched DEF clipVars
<1> QED BY <1>1, <1>2, SweepKeepsInv, AgeKeepsInv, RestartKeepsInv DEF ClipNext

\* The inductive invariant of the history.
THEOREM HistoryInvariant == ClipSpec => []ClipInv
<1> QED BY ClipInitInv, ClipStepKeepsInv, PTL DEF ClipSpec

\* The table, the records of the goroutines and the sweeps keep their types, and no number
\* is in use that was not given out (storeEntry, GetHistory).
THEOREM ClipTypes == ClipSpec => []ClipTypeOK
<1>1. ClipInv => ClipTypeOK
    BY DEF ClipInv
<1> QED BY <1>1, HistoryInvariant, PTL

\* No content is in the history twice unpinned (deduplicateInTx, UnpinEntry, PinEntry).
THEOREM ContentsAreUnique == ClipSpec => []UnpinnedUnique
<1>1. ClipInv => UnpinnedUnique
    BY DEF ClipInv
<1> QED BY <1>1, HistoryInvariant, PTL

\* A sweep deletes only what is gone or still too old (deleteStaleEntries).
THEOREM SweepsStayStale == ClipSpec => []SweepsAreStale
<1>1. ClipInv => SweepsAreStale
    BY DEF ClipInv
<1> QED BY <1>1, HistoryInvariant, PTL

-----------------------------------------------------------------------------
(* The published history.                                                  *)

\* On its way from a change of the table to a new reading of it.
Reading == {"read", "count", "close", "open"}
\* v is what the table holds, but for what is too old; and nothing a sweep may yet delete.
Shows(v) ==
    /\ \A i \in Ids \ Stale(entry) : /\ i \in v.ids <=> i \in Stored(entry)
                                     /\ i \in v.pins <=> i \in Pinned(entry)
    /\ \A ids \in sweeps : ids \cap (v.ids \cup v.pins) = {}

\* The table is read again, or has been read and not been published; or, when nobody publishes,
\* what is published last shows it.
Reflected ==
    \/ \E h \in Handlers : serving[h].pc \in Reading
    \/ \E h \in Handlers : At(h, "publish") /\ (h \in overtaken \/ Shows(serving[h].seen))
    \/ (\A h \in Handlers : ~At(h, "publish")) /\ (lagging \/ Shows(published))

PublishInv ==
    /\ closed => \E h \in Handlers : At(h, "open")
    /\ sweeps # {} => autoClear
    /\ Reflected

LEMMA PublishInit == ClipInit => PublishInv
<1> SUFFICES ASSUME ClipInit PROVE PublishInv
    OBVIOUS
<1>1. \A h \in Handlers : serving[h].pc = "idle"
    BY DEF ClipInit, Idle
<1>2. Stored(entry) = {} /\ Pinned(entry) = {}
    BY DEF ClipInit, Stored, Pinned, Nothing
<1>3. Shows(published)
    BY <1>2 DEF ClipInit, Shows
<1> QED BY <1>1, <1>3 DEF ClipInit, PublishInv, Reflected, At

\* A goroutine's step, and the others where they were.
LEMMA BecomesAt ==
    ASSUME ClipInv, NEW h \in Handlers, NEW r, Becomes(h, r)
    PROVE  serving'[h] = r /\ \A g \in Handlers \ {h} : serving'[g] = serving[g]
BY TableFacts DEF Becomes

\* A goroutine that moves on without having changed anything.
LEMMA MovesReflected ==
    ASSUME ClipInv, PublishInv, NEW h \in Handlers, NEW r, Becomes(h, r),
           UNCHANGED <<entry, closed, autoClear, sweeps, published, overtaken, lagging>>,
           serving[h].pc \notin {"publish", "open"}, r.pc # "publish",
           serving[h].pc \in Reading => r.pc \in Reading
    PROVE  PublishInv'
<1>1. serving'[h] = r /\ \A g \in Handlers \ {h} : serving'[g] = serving[g]
    BY BecomesAt
<1>2. closed' => \E g \in Handlers : At(g, "open")'
    BY <1>1 DEF PublishInv, At
<1>4. CASE \E g \in Handlers : serving[g].pc \in Reading
    BY <1>1, <1>2, <1>4 DEF PublishInv, Reflected
<1>5. CASE \E g \in Handlers : At(g, "publish") /\ (g \in overtaken \/ Shows(serving[g].seen))
  <2>1. PICK g \in Handlers : At(g, "publish") /\ (g \in overtaken \/ Shows(serving[g].seen))
      BY <1>5
  <2>2. g # h /\ serving'[g] = serving[g]
      BY <1>1, <2>1 DEF At
  <2>3. Shows(serving[g].seen) => Shows(serving[g].seen)'
      BY <2>2 DEF Shows, Stale, Stored, Pinned
  <2>4. At(g, "publish")'
      BY <2>1, <2>2 DEF At
  <2>5. Reflected'
      BY <2>1, <2>3, <2>4 DEF Reflected
  <2>6. sweeps' # {} => autoClear'
      BY DEF PublishInv
  <2> QED BY <1>2, <2>5, <2>6 DEF PublishInv
<1>6. CASE (\A g \in Handlers : ~At(g, "publish")) /\ (lagging \/ Shows(published))
  <2>1. (\A g \in Handlers : ~At(g, "publish"))'
      BY <1>1, <1>6 DEF At
  <2>2. lagging' \/ Shows(published)'
    <3>1. Shows(published) => Shows(published)'
        BY DEF Shows, Stale, Stored, Pinned
    <3> QED BY <1>6, <3>1
  <2> QED BY <1>2, <2>1, <2>2 DEF PublishInv, Reflected
<1> QED BY <1>4, <1>5, <1>6 DEF PublishInv, Reflected

\* A goroutine that is going to read the table again.
LEMMA ReadsAgain ==
    ASSUME ClipInv, PublishInv, NEW h \in Handlers, NEW pc \in Reading, Goes(h, pc),
           UNCHANGED <<autoClear, sweeps>>,
           closed' => pc = "open" \/ (closed /\ serving[h].pc # "open")
    PROVE  PublishInv'
<1>1. serving[h] \in Records
    BY TableFacts DEF Servings
<1>2. [serving[h] EXCEPT !.pc = pc].pc = pc
    BY <1>1 DEF Records
<1>3. serving'[h].pc = pc /\ \A g \in Handlers \ {h} : serving'[g] = serving[g]
    BY <1>2, BecomesAt DEF Goes
<1>4. closed' => \E g \in Handlers : At(g, "open")'
    BY <1>3 DEF PublishInv, At
<1> QED BY <1>3, <1>4 DEF PublishInv, Reflected

LEMMA RequestPublish ==
    ASSUME ClipInv, PublishInv, NEW h \in Handlers, Request(h) PROVE PublishInv'
<1>1. PICK pc \in {"store", "copy", "pin", "unpin", "delete", "clear"} :
          \E i, d : Arrive(h, pc, i, d)
    BY DEF Request
<1>2. PICK i, d : Arrive(h, pc, i, d)
    BY <1>1
<1> DEFINE r == [Idle EXCEPT !.pc = pc, !.id = i, !.data = d]
<1>3. r.pc = pc
    BY DEF Idle
<1>4. /\ Becomes(h, r) /\ serving[h].pc = "idle"
      /\ UNCHANGED <<entry, closed, autoClear, sweeps, published, overtaken, lagging>>
    BY <1>2 DEF Arrive, Becomes
<1> HIDE DEF r
<1> QED BY <1>3, <1>4, MovesReflected DEF Reading

\* The steps that only look, and those that found the database closed or nothing to do.
LEMMA LookingPublish ==
    ASSUME ClipInv, PublishInv, NEW h \in Handlers,
           GetToCopy(h) \/ GetToTouch(h) \/ GetToPin(h) \/ LookForPinnedTwin(h)
              \/ CountPinned(h) \/ CountToCompact(h)
    PROVE  PublishInv'
<1>1. UNCHANGED <<entry, closed, autoClear, sweeps, published, overtaken, lagging>>
    BY DEF GetToCopy, GetToTouch, GetToPin, LookForPinnedTwin, CountPinned, CountToCompact,
           ReadOnly, Kept
<1>2. CASE CountToCompact(h)
  <2>1. PICK pc \in {"close", "read"} : Goes(h, pc)
      BY <1>2 DEF CountToCompact
  <2>2. serving[h].pc = "count"
      BY <1>2 DEF CountToCompact, At
  <2> QED BY <1>1, <2>1, <2>2, ReadsAgain DEF Reading
<1>3. CASE GetToCopy(h) \/ GetToTouch(h) \/ GetToPin(h) \/ LookForPinnedTwin(h) \/ CountPinned(h)
  <2>1. serving[h].pc \in {"copy", "touch", "pin", "pinTwins", "pinCount"}
      BY <1>3 DEF GetToCopy, GetToTouch, GetToPin, LookForPinnedTwin, CountPinned, At
  <2>2. serving[h] \in Records /\ Idle.pc = "idle"
      BY TableFacts DEF Servings, Idle
  <2>3. /\ \A e : [serving[h] EXCEPT !.pc = "store", !.data = e.data].pc = "store"
        /\ \A e : [serving[h] EXCEPT !.pc = "pinTwins", !.data = e.data].pc = "pinTwins"
        /\ \A e : [serving[h] EXCEPT !.pc = "store", !.data = e.data, !.pinned = e.pinned].pc
                     = "store"
        /\ \A pc : [serving[h] EXCEPT !.pc = pc].pc = pc
      BY <2>2 DEF Records
  <2>4. PICK r : Becomes(h, r) /\ r.pc \in {"idle", "touch", "store", "pinTwins", "pinCount", "pinPut"}
    <3>1. CASE Ends(h)
        BY <2>2, <3>1 DEF Ends
    <3>2. CASE ~Ends(h) /\ GetToCopy(h)
        BY <2>3, <3>2 DEF GetToCopy, Goes
    <3>3. CASE ~Ends(h) /\ GetToTouch(h)
      <4> DEFINE e == entry[Target(h)]
                 t == [serving[h] EXCEPT !.pc = "store", !.data = e.data, !.pinned = e.pinned]
      <4>1. Becomes(h, t)
          BY <3>3 DEF GetToTouch
      <4>2. t.pc = "store"
          BY <2>2 DEF Records
      <4> HIDE DEF t
      <4> QED BY <4>1, <4>2
    <3>4. CASE ~Ends(h) /\ GetToPin(h)
        BY <2>3, <3>4 DEF GetToPin
    <3>5. CASE ~Ends(h) /\ LookForPinnedTwin(h)
        BY <2>3, <3>5 DEF LookForPinnedTwin, Goes
    <3>6. CASE ~Ends(h) /\ CountPinned(h)
        BY <2>3, <3>6 DEF CountPinned, Goes
    <3> QED BY <1>3, <3>1, <3>2, <3>3, <3>4, <3>5, <3>6
  <2> QED BY <1>1, <2>1, <2>4, MovesReflected DEF Reading
<1> QED BY <1>2, <1>3

\* Whoever changes the table goes on to read it.
LEMMA ChangingPublish ==
    ASSUME ClipInv, PublishInv, NEW h \in Handlers,
           StoreEntry(h) \/ PutPinned(h) \/ UnpinEntry(h) \/ DeleteEntry(h) \/ ClearHistory(h)
    PROVE  PublishInv'
<1>1. UNCHANGED <<closed, autoClear, sweeps, published, overtaken, lagging>>
    BY DEF StoreEntry, PutPinned, UnpinEntry, DeleteEntry, ClearHistory, Kept
<1>2. serving[h].pc \in {"store", "pinPut", "unpin", "delete", "clear"}
    BY DEF StoreEntry, PutPinned, UnpinEntry, DeleteEntry, ClearHistory, At
<1>3. \/ Goes(h, "read") \/ Goes(h, "count")
      \/ Ends(h) /\ UNCHANGED entry
    BY DEF StoreEntry, PutPinned, UnpinEntry, DeleteEntry, ClearHistory
<1>4. CASE Goes(h, "read") \/ Goes(h, "count")
    BY <1>1, <1>2, <1>4, ReadsAgain DEF Reading
<1>5. CASE Ends(h) /\ UNCHANGED entry
    BY <1>1, <1>2, <1>5, MovesReflected DEF Reading, Ends, Idle
<1> QED BY <1>3, <1>4, <1>5

LEMMA CompactPublish ==
    ASSUME ClipInv, PublishInv, NEW h \in Handlers, CloseToCompact(h) \/ OpenCompacted(h)
    PROVE  PublishInv'
<1>1. UNCHANGED <<autoClear, sweeps>>
    BY DEF CloseToCompact, OpenCompacted, Kept
<1>2. (Goes(h, "open") \/ (Goes(h, "read") /\ closed' = FALSE))
    BY DEF CloseToCompact, OpenCompacted
<1> QED BY <1>1, <1>2, ReadsAgain DEF Reading

\* A reading of the open table shows it; no sweep started before names what is read.
LEMMA ReadPublish ==
    ASSUME ClipInv, PublishInv, NEW h \in Handlers, ReadHistory(h) PROVE PublishInv'
<1> DEFINE saw == IF closed THEN Idle.seen ELSE History(entry)
           r == [Idle EXCEPT !.pc = "publish", !.seen = saw]
<1>1. /\ Becomes(h, r) /\ At(h, "read")
      /\ UNCHANGED <<entry, closed, autoClear, published, lagging>>
    BY DEF ReadHistory
<1>2. r.pc = "publish" /\ r.seen = saw
    BY DEF Idle
<1> HIDE DEF r
<1>3. serving'[h] = r /\ \A g \in Handlers \ {h} : serving'[g] = serving[g]
    BY <1>1, BecomesAt
<1>4. closed' => \E g \in Handlers : At(g, "open")'
    BY <1>1, <1>3 DEF PublishInv, At
<1>5. sweeps' # {} => autoClear'
    BY DEF ReadHistory, PublishInv, Stale
<1>6. CASE closed
  <2>1. PICK g \in Handlers : At(g, "open")'
      BY <1>1, <1>4, <1>6
  <2> QED BY <1>4, <1>5, <2>1 DEF PublishInv, Reflected, At, Reading
<1>7. CASE ~closed
  <2>1. saw = History(entry) /\ sweeps' \subseteq sweeps \cup {Stale(entry)}
      BY <1>7 DEF ReadHistory
  <2>2. saw.ids = Stored(entry) \ Stale(entry) /\ saw.pins = Pinned(entry) \ Stale(entry)
      BY <2>1 DEF History
  <2>3. ASSUME NEW ids \in sweeps', NEW i \in ids PROVE i \notin Stored(entry) \ Stale(entry)
    <3>1. CASE ids = Stale(entry)
        BY <2>3, <3>1
    <3>2. CASE ids \in sweeps
      <4>1. autoClear /\ (entry[i] = Nothing \/ entry[i].old)
          BY <3>2, <2>3 DEF PublishInv, ClipInv, SweepsAreStale
      <4> QED BY <4>1 DEF Stale, Stored, Nothing
    <3> QED BY <2>1, <3>1, <3>2
  <2>4. Pinned(entry) \subseteq Stored(entry)
      BY DEF Pinned
  <2>5. \A ids \in sweeps' : ids \cap (saw.ids \cup saw.pins) = {}
      BY <2>2, <2>3, <2>4
  <2> HIDE DEF saw
  <2>6. Shows(serving[h].seen)'
    <3>1. /\ Stale(entry)' = Stale(entry) /\ Stored(entry)' = Stored(entry)
          /\ Pinned(entry)' = Pinned(entry)
        BY <1>1 DEF Stale, Stored, Pinned
    <3>2. serving'[h].seen = saw
        BY <1>2, <1>3
    <3> QED BY <2>2, <2>5, <3>1, <3>2 DEF Shows
  <2>7. At(h, "publish")'
      BY <1>2, <1>3 DEF At
  <2> QED BY <1>4, <1>5, <2>6, <2>7 DEF PublishInv, Reflected
<1> QED BY <1>6, <1>7

\* The last to publish shows the table, or was overtaken and says so.
LEMMA PublishPublish ==
    ASSUME ClipInv, PublishInv, NEW h \in Handlers, PublishHistory(h) PROVE PublishInv'
<1>1. /\ Becomes(h, Idle) /\ At(h, "publish") /\ UNCHANGED <<entry, closed, autoClear, sweeps>>
      /\ published' = serving[h].seen /\ lagging' = (h \in overtaken)
      /\ overtaken' = {g \in Handlers \ {h} : At(g, "publish")}
    BY DEF PublishHistory, Ends
<1>2. serving'[h] = Idle /\ \A g \in Handlers \ {h} : serving'[g] = serving[g]
    BY <1>1, BecomesAt
<1>3. Idle.pc = "idle"
    BY DEF Idle
<1>4. closed' => \E g \in Handlers : At(g, "open")'
    BY <1>1, <1>2 DEF PublishInv, At
<1>5. sweeps' # {} => autoClear'
    BY <1>1 DEF PublishInv
<1>6. CASE \E g \in Handlers : serving[g].pc \in Reading
  <2>1. PICK g \in Handlers : serving[g].pc \in Reading
      BY <1>6
  <2>2. g # h
      BY <1>1, <2>1 DEF At, Reading
  <2>3. serving'[g].pc \in Reading
      BY <1>2, <2>1, <2>2
  <2> QED BY <1>4, <1>5, <2>3 DEF PublishInv, Reflected
<1>7. CASE \E g \in Handlers \ {h} : At(g, "publish")
  <2>1. PICK g \in Handlers \ {h} : At(g, "publish")
      BY <1>7
  <2>2. At(g, "publish")' /\ g \in overtaken'
      BY <1>1, <1>2, <2>1 DEF At
  <2> QED BY <1>4, <1>5, <2>2 DEF PublishInv, Reflected
<1>8. CASE /\ ~\E g \in Handlers : serving[g].pc \in Reading
           /\ ~\E g \in Handlers \ {h} : At(g, "publish")
  <2>1. h \in overtaken \/ Shows(serving[h].seen)
      BY <1>1, <1>8 DEF PublishInv, Reflected
  <2>2. (\A g \in Handlers : ~At(g, "publish"))'
      BY <1>2, <1>3, <1>8 DEF At
  <2>3. Shows(serving[h].seen) => Shows(published)'
      BY <1>1 DEF Shows, Stale, Stored, Pinned
  <2>4. lagging' \/ Shows(published)'
      BY <1>1, <2>1, <2>3
  <2> QED BY <1>4, <1>5, <2>2, <2>4 DEF PublishInv, Reflected
<1> QED BY <1>6, <1>7, <1>8

\* What is shown stays shown when an entry grows too old, or is swept away for being so.
LEMMA AgingPublish ==
    ASSUME ClipInv, PublishInv,
           (\E i \in Ids : Age(i)) \/ (\E ids \in SUBSET Ids : DeleteStaleEntries(ids))
    PROVE  PublishInv'
<1>1. UNCHANGED <<closed, autoClear, serving, published, overtaken, lagging>> /\ sweeps' \subseteq sweeps
    BY DEF Age, DeleteStaleEntries
<1>2. entry \in Tables
    BY TableFacts
<1>3. ASSUME NEW v, Shows(v) PROVE Shows(v)'
  <2>1. \A ids \in sweeps' : ids \cap (v.ids \cup v.pins) = {}
      BY <1>1, <1>3 DEF Shows
  <2>2. ASSUME NEW i \in Ids, Age(i) PROVE Shows(v)'
    <3>1. entry' = [entry EXCEPT ![i].old = TRUE] /\ entry[i] # Nothing
        BY <2>2 DEF Age, Stored, Nothing
    <3>2. \A j \in Ids : entry'[j].data = entry[j].data /\ entry'[j].pinned = entry[j].pinned
        BY <1>2, <3>1 DEF Tables, Entries
    <3>3. \A j \in Ids : entry[j].old => entry'[j].old
        BY <1>2, <3>1 DEF Tables, Entries
    <3>4. Stored(entry)' = Stored(entry) /\ Pinned(entry)' = Pinned(entry)
        BY <3>2 DEF Stored, Pinned
    <3>5. Stale(entry) \subseteq Stale(entry)'
      <4> SUFFICES ASSUME NEW j \in Stale(entry) PROVE j \in Stale(entry)'
          OBVIOUS
      <4>1. autoClear /\ j \in Stored(entry) /\ entry[j].old
          BY DEF Stale
      <4>2. autoClear' /\ j \in Stored(entry)' /\ entry'[j].old
          BY <1>1, <3>3, <3>4, <4>1 DEF Stored
      <4> QED BY <4>2 DEF Stale
    <3> QED BY <1>3, <2>1, <3>4, <3>5 DEF Shows
  <2>3. ASSUME NEW ids \in SUBSET Ids, DeleteStaleEntries(ids) PROVE Shows(v)'
    <3>1. ids \in sweeps /\ entry' \in {entry, Without(entry, ids)}
        BY <2>3 DEF DeleteStaleEntries
    <3>2. \A j \in Ids : entry'[j] = Nothing \/ entry'[j] = entry[j]
        BY <1>2, <3>1, WithoutThins DEF Thinner
    <3>3. \A j \in Ids \ ids : entry'[j] = entry[j]
        BY <3>1 DEF Without
    <3>4. \A j \in ids : j \notin v.ids /\ j \notin v.pins
        BY <1>3, <3>1 DEF Shows
    <3>5. \A j \in ids : autoClear /\ (entry[j] = Nothing \/ entry[j].old)
        BY <3>1 DEF PublishInv, ClipInv, SweepsAreStale
    <3>6. ASSUME NEW j \in Ids, j \notin Stale(entry)'
          PROVE  /\ j \in v.ids <=> j \in Stored(entry)'
                 /\ j \in v.pins <=> j \in Pinned(entry)'
      <4>1. CASE j \notin ids
        <5>1. entry'[j] = entry[j] /\ autoClear' = autoClear
            BY <1>1, <3>3, <4>1
        <5>2. j \notin Stale(entry)
            BY <3>6, <5>1 DEF Stale, Stored
        <5>3. (j \in v.ids <=> j \in Stored(entry)) /\ (j \in v.pins <=> j \in Pinned(entry))
            BY <1>3, <5>2 DEF Shows
        <5> QED BY <5>1, <5>3 DEF Stored, Pinned
      <4>2. CASE j \in ids
        <5>1. entry'[j] = Nothing \/ entry'[j].old
            BY <3>2, <3>5, <4>2
        <5>2. j \notin Stored(entry)'
            BY <1>1, <3>5, <3>6, <4>2, <5>1 DEF Stale, Stored, Nothing
        <5> QED BY <3>4, <4>2, <5>2 DEF Pinned
      <4> QED BY <4>1, <4>2
    <3> QED BY <2>1, <3>6 DEF Shows
  <2> QED BY <2>2, <2>3
<1>4. \A h \in Handlers : At(h, "publish")' = At(h, "publish")
    BY <1>1 DEF At
<1>5. closed' => \E g \in Handlers : At(g, "open")'
    BY <1>1 DEF PublishInv, At
<1>6. sweeps' # {} => autoClear'
    BY <1>1 DEF PublishInv
<1>7. Reflected'
  <2>1. CASE \E h \in Handlers : serving[h].pc \in Reading
      BY <1>1, <2>1 DEF Reflected
  <2>2. CASE \E h \in Handlers : At(h, "publish") /\ (h \in overtaken \/ Shows(serving[h].seen))
    <3>1. PICK h \in Handlers : At(h, "publish") /\ (h \in overtaken \/ Shows(serving[h].seen))
        BY <2>2
    <3>2. Shows(serving[h].seen) => Shows(serving[h].seen)'
      <4>1. serving'[h].seen = serving[h].seen
          BY <1>1
      <4> DEFINE w == serving[h].seen
      <4>2. ASSUME Shows(w) PROVE Shows(serving[h].seen)'
          BY <1>1, <1>3, <4>2 DEF Shows
      <4> QED BY <4>2
    <3> QED BY <1>1, <1>4, <3>1, <3>2 DEF Reflected
  <2>3. CASE (\A h \in Handlers : ~At(h, "publish")) /\ (lagging \/ Shows(published))
    <3>1. Shows(published) => Shows(published)'
        BY <1>1, <1>3 DEF Shows
    <3> QED BY <1>1, <1>4, <2>3, <3>1 DEF Reflected
  <2> QED BY <2>1, <2>2, <2>3 DEF PublishInv, Reflected
<1> QED BY <1>5, <1>6, <1>7 DEF PublishInv

LEMMA RestartPublish == ASSUME ClipInv, PublishInv, Restart PROVE PublishInv'
<1>1. /\ ~closed' /\ published' = History(entry)' /\ autoClear' = autoClear
      /\ sweeps' = (IF Stale(entry)' = {} THEN {} ELSE {Stale(entry)'})
      /\ serving' = [h \in Handlers |-> Idle]
    BY DEF Restart, History, Stale, Stored, Pinned
<1>2. \A h \in Handlers : ~At(h, "publish")'
    BY <1>1 DEF At, Idle
<1>3. /\ published'.ids = Stored(entry)' \ Stale(entry)'
      /\ published'.pins = Pinned(entry)' \ Stale(entry)'
    BY <1>1 DEF History
<1>4. Shows(published)'
    BY <1>1, <1>3 DEF Shows
<1>5. sweeps' # {} => autoClear'
    BY <1>1 DEF Stale
<1> QED BY <1>1, <1>2, <1>4, <1>5 DEF PublishInv, Reflected

LEMMA PublishStep == ClipInv /\ PublishInv /\ [ClipNext]_clipVars => PublishInv'
<1> SUFFICES ASSUME ClipInv, PublishInv, [ClipNext]_clipVars PROVE PublishInv'
    OBVIOUS
<1>1. ASSUME NEW h \in Handlers, Request(h) \/ ServeStep(h) PROVE PublishInv'
    BY <1>1, RequestPublish, LookingPublish, ChangingPublish, CompactPublish, ReadPublish,
       PublishPublish DEF ServeStep
<1>2. CASE UNCHANGED clipVars
    BY <1>2 DEF clipVars, PublishInv, Reflected, Shows, At, Stale, Stored, Pinned
<1> QED BY <1>1, <1>2, AgingPublish, RestartPublish DEF ClipNext

LEMMA ReflectedIsCurrent == PublishInv => PublishedIsCurrent
<1> SUFFICES ASSUME PublishInv, \A h \in Handlers : At(h, "idle"), ~lagging
             PROVE  Shows(published)
    BY DEF PublishedIsCurrent, Shows
<1> QED BY DEF PublishInv, Reflected, At, Reading

\* With no request running the published history is the stored one, whatever stored, deleted,
\* swept and compacted at the same time; unless an older reading was published last.
THEOREM PublishedStaysCurrent == ClipSpec => []PublishedIsCurrent
<1> QED BY HistoryInvariant, PublishInit, PublishStep, ReflectedIsCurrent, PTL DEF ClipSpec

-----------------------------------------------------------------------------
(* No content is lost.                                                     *)

\* The M newest of a set of numbers: their ranks are 0 to M-1, each taken once.
LEMMA NewestAreM ==
    ASSUME NEW U \in SUBSET Nat, IsFiniteSet(U), NEW M \in Nat, NEW i \in U,
           Cardinality({j \in U : j > i}) >= M
    PROVE  Cardinality({k \in U : ~(Cardinality({j \in U : j > k}) >= M)}) = M
<1> DEFINE newer(k) == {j \in U : j > k}
           rank == [k \in U |-> Cardinality(newer(k))]
           n == Cardinality(U)
           newest == {k \in U : ~(Cardinality(newer(k)) >= M)}
           place == [k \in newest |-> rank[k]]
<1>1. n \in Nat
    BY FS_CardinalityType
<1>2. \A k \in U : IsFiniteSet(newer(k)) /\ Cardinality(newer(k)) \in Nat /\ newer(k) \subseteq U \ {k}
  <2> TAKE k \in U
  <2>1. newer(k) \subseteq U /\ newer(k) \subseteq U \ {k}
      OBVIOUS
  <2>2. IsFiniteSet(newer(k))
      BY <2>1, FS_Subset
  <2> QED BY <2>1, <2>2, FS_CardinalityType
<1>3. \A k \in U : rank[k] \in 0..(n - 1)
  <2> TAKE k \in U
  <2>1. IsFiniteSet(U \ {k}) /\ Cardinality(U \ {k}) = n - 1
      BY FS_RemoveElement
  <2>2. Cardinality(newer(k)) <= n - 1
      BY <1>2, <2>1, FS_Subset
  <2> HIDE DEF newer, n
  <2> QED BY <1>1, <1>2, <2>2
<1>4. ASSUME NEW k \in U, NEW m \in U, k < m PROVE rank[m] < rank[k]
  <2>1. newer(m) \subseteq newer(k) \ {m} /\ m \in newer(k)
    <3>1. \A j \in U : j > m => j > k /\ j # m
        BY <1>4
    <3> QED BY <1>4, <3>1
  <2>2. IsFiniteSet(newer(k) \ {m}) /\ Cardinality(newer(k) \ {m}) = Cardinality(newer(k)) - 1
      BY <1>2, <2>1, FS_RemoveElement
  <2>3. Cardinality(newer(m)) <= Cardinality(newer(k)) - 1
      BY <2>1, <2>2, FS_Subset
  <2> HIDE DEF newer
  <2> QED BY <1>2, <2>3
<1> HIDE DEF rank
<1>5. \A k, m \in U : rank[k] = rank[m] => k = m
  <2>1. \A k, m \in U : k < m \/ m < k \/ k = m
      OBVIOUS
  <2>2. \A k \in U : rank[k] \in Nat
      BY <1>1, <1>3
  <2> QED BY <1>4, <2>1, <2>2
<1>6. rank \in Injection(U, 0..(n - 1))
    BY <1>3, <1>5 DEF rank, Injection, IsInjective
<1>7. IsFiniteSet(0..(n - 1)) /\ Cardinality(0..(n - 1)) = n
  <2>1. n - 1 \in Int /\ 0 \in Int
      BY <1>1
  <2>2. IsFiniteSet(0..(n - 1)) /\ Cardinality(0..(n - 1)) = IF 0 > n - 1 THEN 0 ELSE (n - 1) - 0 + 1
      BY <2>1, FS_Interval
  <2> HIDE DEF n
  <2> QED BY <1>1, <2>2
<1>8. \A t \in 0..(n - 1) : \E k \in U : rank[k] = t
  <2>1. rank \in Surjection(U, 0..(n - 1))
    <3> DEFINE T == 0..(n - 1)
    <3>1. rank \in Injection(U, T) /\ IsFiniteSet(T) /\ Cardinality(U) = Cardinality(T)
        BY <1>6, <1>7
    <3> HIDE DEF T, n
    <3>2. rank \in Surjection(U, T)
        BY <3>1, FS_Injection
    <3> QED BY <3>2 DEF T
  <2> QED BY <2>1 DEF Surjection
<1>9. M <= n - 1
  <2>1. rank[i] >= M
      BY DEF rank
  <2> HIDE DEF n
  <2> QED BY <1>1, <1>3, <2>1
<1>10. \A k \in U : k \in newest <=> rank[k] \in 0..(M - 1)
  <2>1. \A k \in U : k \in newest <=> ~(rank[k] >= M)
      BY DEF rank
  <2> HIDE DEF newest, n
  <2> QED BY <1>1, <1>3, <2>1
<1>11. place \in Bijection(newest, 0..(M - 1))
  <2>1. newest \subseteq U
      OBVIOUS
  <2> HIDE DEF newest, n
  <2>2. place \in [newest -> 0..(M - 1)] /\ \A k, m \in newest : place[k] = place[m] => k = m
      BY <1>5, <1>10, <2>1
  <2>3. \A t \in 0..(M - 1) : \E k \in newest : place[k] = t
    <3> TAKE t \in 0..(M - 1)
    <3>1. t \in 0..(n - 1)
        BY <1>1, <1>9
    <3>2. PICK k \in U : rank[k] = t
        BY <1>8, <3>1
    <3> QED BY <1>10, <3>2
  <2> QED BY <2>2, <2>3 DEF Bijection, Injection, Surjection, IsInjective
<1>12. IsFiniteSet(newest)
  <2>1. newest \subseteq U
      OBVIOUS
  <2> QED BY <2>1, FS_Subset
<1>13. Cardinality(0..(M - 1)) = M
  <2>1. M - 1 \in Int /\ 0 \in Int
      OBVIOUS
  <2>2. Cardinality(0..(M - 1)) = IF 0 > M - 1 THEN 0 ELSE (M - 1) - 0 + 1
      BY <2>1, FS_Interval
  <2> QED BY <2>2
<1>14. Cardinality(0..(M - 1)) = Cardinality(newest)
    BY <1>11, <1>12, FS_Bijection DEF ExistsBijection
<1> QED BY <1>13, <1>14

\* If the trim removed an entry, it left as many unpinned ones as it is told to.
LEMMA TrimLeavesMax ==
    ASSUME NEW e \in Tables, NEW i \in Unpinned(e), Trimmed(e)[i] = Nothing
    PROVE  Cardinality(Unpinned(Trimmed(e))) = MaxHistory
<1> DEFINE U == Unpinned(e)
           out == {k \in U : Cardinality({j \in U : j > k}) >= MaxHistory}
<1>1. U \subseteq 1..MaxIds /\ MaxIds \in Nat /\ MaxHistory \in Nat
    BY ClipboardAssumption DEF Unpinned, Stored, Ids
<1>2. IsFiniteSet(U) /\ U \in SUBSET Nat
  <2>1. IsFiniteSet(1..MaxIds)
      BY <1>1, FS_Interval
  <2>2. IsFiniteSet(U)
      BY <1>1, <2>1, FS_Subset
  <2> QED BY <1>1, <2>2
<1>3. Trimmed(e) = Without(e, out)
    BY DEF Trimmed
<1>4. i \in out
    BY <1>3 DEF Without, Unpinned, Stored, Nothing
<1>5. Unpinned(Trimmed(e)) = {k \in U : ~(Cardinality({j \in U : j > k}) >= MaxHistory)}
  <2>1. \A k \in Ids : Without(e, out)[k] = IF k \in out THEN Nothing ELSE e[k]
      BY DEF Without
  <2> HIDE DEF out
  <2>2. Unpinned(Without(e, out)) = U \ out
      BY <2>1 DEF Unpinned, Stored, Pinned, Nothing
  <2> USE DEF out
  <2> QED BY <1>3, <2>2
<1>6. Cardinality({j \in U : j > i}) >= MaxHistory
    BY <1>4
<1> HIDE DEF U
<1> QED BY <1>1, <1>2, <1>5, <1>6, NewestAreM DEF U

\* storeEntry: what it makes a content disappear for is newer, and not pinned.
LEMMA StoreLosesOldest ==
    ASSUME ClipInv, NEW h \in Handlers, StoreEntry(h), NEW c \in Contents,
           SameContent(entry, c) # {}, SameContent(entry', c) = {}
    PROVE  /\ SameContent(entry, c) \cap Pinned(entry) = {}
           /\ Cardinality(Unpinned(entry')) = MaxHistory
<1> DEFINE d == serving[h].data
           n == sequence + 1
           g == Deduplicated(entry, d)
           new == [data |-> d, pinned |-> serving[h].pinned, old |-> FALSE]
           f == [g EXCEPT ![n] = new]
<1>1. /\ serving \in [Handlers -> Servings] /\ entry \in Tables /\ UniqueIn(entry)
      /\ Stored(entry) \subseteq 1..sequence /\ sequence \in 0..MaxIds
    BY TableFacts
<1>2. d \in Contents /\ serving[h].pinned \in BOOLEAN
    BY <1>1 DEF StoreEntry, At, Servings, Records
<1>3. n \in Ids /\ n \notin 1..sequence
    BY <1>1, ClipboardAssumption DEF StoreEntry, Ids
<1>4. entry' = Trimmed(f)
    BY DEF StoreEntry, WithEntry
<1>5. f \in Tables
    BY <1>1, <1>2, <1>3, PutIsUnique
<1>6. f[n] = new /\ \A i \in Ids \ {n} : f[i] = g[i]
    BY <1>1, <1>3 DEF Deduplicated, Without
<1>7. \A i \in Ids : g[i] = IF i \in SameContent(entry, d) \cap Unpinned(entry) THEN Nothing
                            ELSE entry[i]
    BY DEF Deduplicated, Without
<1> HIDE DEF f, g, new
<1>8. \A i \in Ids : i \notin Unpinned(f) => entry'[i] = f[i]
    BY <1>4 DEF Trimmed, Without
<1>9. \A i \in Ids : entry'[i] = Nothing \/ entry'[i] = f[i]
    BY <1>4, <1>5, TrimThins DEF Thinner
<1>10. ASSUME NEW i \in Ids, f[i].data = c
       PROVE  i \in Unpinned(f) /\ entry'[i] = Nothing
  <2>1. entry'[i].data # c
      BY ClipboardAssumption DEF SameContent, Stored
  <2> QED BY <1>8, <1>9, <1>10, <2>1
<1>11. \A i \in Pinned(entry) : entry[i].data # c
  <2> SUFFICES ASSUME NEW i \in Pinned(entry), entry[i].data = c PROVE FALSE
      OBVIOUS
  <2>1. i \in Ids /\ i # n /\ i \notin Unpinned(entry) /\ i \in Stored(entry) /\ entry[i].pinned
      BY <1>1, <1>3 DEF Pinned, Unpinned, Stored
  <2>2. f[i] = entry[i]
      BY <1>6, <1>7, <2>1
  <2>3. i \notin Unpinned(f)
      BY <2>1, <2>2 DEF Unpinned, Pinned, Stored
  <2> QED BY <1>10, <2>1, <2>2, <2>3
<1>12. \E i \in Ids : f[i].data = c
  <2>1. CASE c = d
      BY <1>3, <1>6, <2>1 DEF new
  <2>2. CASE c # d
    <3>1. PICK i \in Stored(entry) : entry[i].data = c
        BY DEF SameContent
    <3>2. i \in Ids /\ i # n /\ i \notin SameContent(entry, d)
        BY <1>1, <1>3, <2>2, <3>1 DEF SameContent, Stored
    <3> QED BY <1>6, <1>7, <3>1, <3>2
  <2> QED BY <2>1, <2>2
<1>13. PICK i \in Unpinned(f) : entry'[i] = Nothing
    BY <1>10, <1>12
<1>14. Cardinality(Unpinned(entry')) = MaxHistory
    BY <1>4, <1>5, <1>13, TrimLeavesMax
<1> QED BY <1>11, <1>14 DEF SameContent

\* Pinning, unpinning and growing old leave a content in the history.
LEMMA ContentsStay ==
    ASSUME ClipInv, NEW c \in Contents, SameContent(entry, c) # {},
           \/ \E h \in Handlers : PutPinned(h) \/ UnpinEntry(h)
           \/ \E i \in Ids : Age(i)
    PROVE  SameContent(entry', c) # {}
<1>1. entry \in Tables /\ UniqueIn(entry) /\ serving \in [Handlers -> Servings]
    BY TableFacts
<1>2. PICK i \in Stored(entry) : i \in Ids /\ entry[i].data = c
    BY DEF SameContent, Stored
<1>3. ASSUME NEW j \in Ids, entry'[j].data = c PROVE SameContent(entry', c) # {}
    BY <1>3, ClipboardAssumption DEF SameContent, Stored
<1>4. CASE \A j \in Ids : entry'[j].data = entry[j].data
    BY <1>2, <1>3, <1>4
<1>5. ASSUME NEW h \in Handlers, PutPinned(h) PROVE \A j \in Ids : entry'[j].data = entry[j].data
  <2>1. CASE entry' = entry
      BY <2>1
  <2>2. CASE entry' = [entry EXCEPT ![Target(h)].pinned = TRUE]
    <3>1. (Target(h) \in Ids /\ entry[Target(h)] # Nothing) \/ entry' = entry
        BY <1>1, <1>5 DEF PutPinned, At, Target, Servings
    <3> QED BY <1>1, <2>2, <3>1 DEF Tables, Entries
  <2> QED BY <1>5, <2>1, <2>2 DEF PutPinned
<1>6. ASSUME NEW j \in Ids, Age(j) PROVE \A k \in Ids : entry'[k].data = entry[k].data
  <2>1. entry' = [entry EXCEPT ![j].old = TRUE] /\ entry[j] # Nothing
      BY <1>6 DEF Age, Stored, Nothing
  <2> QED BY <1>1, <2>1 DEF Tables, Entries
<1>7. ASSUME NEW h \in Handlers, UnpinEntry(h) PROVE SameContent(entry', c) # {}
  <2> DEFINE t == Target(h)
             twins == (SameContent(entry, entry[t].data) \cap Unpinned(entry)) \ {t}
  <2>1. CASE entry' = entry
      BY <2>1
  <2>2. CASE entry' # entry
    <3>1. t \in Ids /\ entry[t] # Nothing /\ entry' = WithoutPin(entry, t)
        BY <1>1, <1>7, <2>2 DEF UnpinEntry, At, Target, Servings
    <3>2. CASE entry[t].pinned /\ twins # {}
      <4>1. PICK k \in twins : TRUE
          BY <3>2
      <4>2. k \in Ids /\ k # t /\ entry[k].data = entry[t].data /\ k \in Unpinned(entry)
          BY DEF SameContent, Stored
      <4>3. twins = {k}
          BY <1>1, <4>2 DEF UniqueIn, SameContent
      <4> DEFINE out == {t} \cup {j \in twins : \E l \in twins : l > j}
      <4>4. entry' = Without(entry, out)
          BY <3>1, <3>2 DEF WithoutPin
      <4>5. out = {t}
          BY <4>2, <4>3 DEF Ids
      <4>6. \A j \in Ids \ {t} : entry'[j] = entry[j]
          BY <4>4, <4>5 DEF Without
      <4> QED BY <1>2, <1>3, <4>2, <4>6
    <3>3. CASE ~(entry[t].pinned /\ twins # {})
      <4>1. entry' = [entry EXCEPT ![t].pinned = FALSE]
          BY <3>1, <3>3 DEF WithoutPin
      <4>2. \A j \in Ids : entry'[j].data = entry[j].data
          BY <1>1, <3>1, <4>1 DEF Tables, Entries
      <4> QED BY <1>2, <1>3, <4>2
    <3> QED BY <3>2, <3>3
  <2> QED BY <2>1, <2>2
<1> QED BY <1>4, <1>5, <1>6, <1>7

\* What ContentKept says of one step.
ContentStep ==
    \A d \in Contents : SameContent(entry, d) # {} /\ SameContent(entry', d) = {} =>
          \/ \E h \in Handlers : DeleteEntry(h) \/ ClearHistory(h)
          \/ \E ids \in sweeps : DeleteStaleEntries(ids)
          \/ Restart
          \/ /\ SameContent(entry, d) \cap Pinned(entry) = {}
             /\ Cardinality(Unpinned(entry')) = MaxHistory

LEMMA ContentNext == ClipInv /\ [ClipNext]_clipVars => [ContentStep]_clipVars
<1> SUFFICES ASSUME ClipInv, ClipNext PROVE ContentStep
    OBVIOUS
<1>1. CASE UNCHANGED entry
    BY <1>1 DEF ContentStep, SameContent, Stored
<1>2. ASSUME NEW h \in Handlers, Request(h) \/ ServeStep(h) PROVE ContentStep
  <2>1. CASE Request(h)
      BY <1>1, <2>1 DEF Request, Arrive
  <2>2. CASE StoreEntry(h)
      BY <2>2, StoreLosesOldest DEF ContentStep
  <2>3. CASE PutPinned(h) \/ UnpinEntry(h)
      BY <2>3, ContentsStay DEF ContentStep
  <2>4. CASE DeleteEntry(h) \/ ClearHistory(h)
      BY <2>4 DEF ContentStep
  <2>5. CASE GetToCopy(h) \/ GetToTouch(h) \/ GetToPin(h) \/ LookForPinnedTwin(h)
                \/ CountPinned(h) \/ CountToCompact(h)
      BY <1>1, <2>5 DEF GetToCopy, GetToTouch, GetToPin, LookForPinnedTwin, CountPinned,
                        CountToCompact, ReadOnly
  <2>6. CASE CloseToCompact(h) \/ OpenCompacted(h) \/ ReadHistory(h) \/ PublishHistory(h)
      BY <1>1, <2>6 DEF CloseToCompact, OpenCompacted, ReadHistory, PublishHistory
  <2> QED BY <1>2, <2>1, <2>2, <2>3, <2>4, <2>5, <2>6 DEF ServeStep
<1>3. ASSUME NEW ids \in SUBSET Ids, DeleteStaleEntries(ids) PROVE ContentStep
  <2>1. ids \in sweeps
      BY <1>3 DEF DeleteStaleEntries
  <2> QED BY <1>3, <2>1 DEF ContentStep
<1>4. ASSUME NEW i \in Ids, Age(i) PROVE ContentStep
    BY <1>4, ContentsStay DEF ContentStep
<1>5. CASE Restart
    BY <1>5 DEF ContentStep
<1> QED BY <1>2, <1>3, <1>4, <1>5 DEF ClipNext

\* A content leaves the history by being deleted, cleared, swept for its age, at a restart or
\* for newer ones that fill it; pinning, unpinning and storing anything else keep it.
THEOREM ContentsAreKept == ClipSpec => ContentKept
<1>1. ClipInv /\ [ClipNext]_clipVars => [ContentStep]_clipVars
    BY ContentNext
<1> QED BY <1>1, HistoryInvariant, PTL DEF ClipSpec, ContentKept, ContentStep

-----------------------------------------------------------------------------
(***************************************************************************)
(* WallpaperSchedule, for any schedules, times, interval and length of day.*)
(***************************************************************************)

Moments == [wall : Int, mono : Int]
Plans == [cfg : Settings, next : Moments, late : BOOLEAN]

\* m is an instant of the daily time c.
IsTime(c, m) == \E q \in Int : m = q * Day + c

WallTypes ==
    /\ WallTypeOK
    /\ wall \in Nat /\ mono \in Nat
    /\ asleep \in BOOLEAN /\ changed \in BOOLEAN /\ toReset \subseteq Schedules
    /\ planned \in [Schedules -> Plans]
    /\ lastFires \in [Schedules -> Int] /\ disk \in [Schedules -> Int]
    /\ rotated \in [Schedules -> Int] /\ \A k \in Schedules : rotated[k] \in -1..wall
    /\ decided \in 0..wall

\* A daily schedule that does not catch up waits for one of its times, at most a day
\* away, later than the last rotation and than one that is about to be published.
WaitsForATime == \A k \in Schedules : Daily(planned[k].cfg) /\ ~planned[k].late =>
    /\ planned[k].next.mono = Never
    /\ IsTime(planned[k].cfg, planned[k].next.wall)
    /\ planned[k].next.wall <= wall + Day
    /\ rotated[k] < planned[k].next.wall
    /\ k \in due => decided < planned[k].next.wall
\* What is about to be published was decided after a time that was not served, and is
\* the last fire already.
DueAreNew == \A k \in due :
    /\ wallLoop \in {"persist", "publish"} /\ ~planned[k].late
    /\ Daily(planned[k].cfg) =>
          rotated[k] < PrevDaily(planned[k].cfg, decided) /\ lastFires[k] = decided
\* A catch-up is for a time after the last rotation.
LateAreMissed == \A k \in Schedules : planned[k].late =>
    Daily(planned[k].cfg) /\ rotated[k] < PrevDaily(planned[k].cfg, wall)
\* No last fire, in memory or on disk, is older than the last rotation.
FiresRemember ==
    /\ \A k \in Schedules : /\ lastFires[k] = Never \/ rotated[k] <= lastFires[k]
                            /\ disk[k] = Never \/ rotated[k] <= disk[k]
    /\ wallLoop \notin {"persist", "down"} => disk = lastFires

WallInv == WallTypes /\ WaitsForATime /\ DueAreNew /\ LateAreMissed /\ FiresRemember

LEMMA DivBy ==
    ASSUME NEW t \in Int, NEW d \in Nat, d # 0
    PROVE  /\ t \div d \in Int /\ (t \div d) * d \in Int
           /\ (t \div d) * d <= t /\ t < (t \div d) * d + d
<1>1. t \div d \in Int
    OBVIOUS
<1>2. (t \div d) * d \in Int
    BY <1>1
<1>3. (t \div d) * d <= t
    OBVIOUS
<1>4. t < (t \div d) * d + d
    OBVIOUS
<1> QED BY <1>1, <1>2, <1>3, <1>4

LEMMA ManyDays ==
    ASSUME NEW p \in Int, NEW q \in Int, NEW d \in Nat, p < q
    PROVE  p * d \in Int /\ q * d \in Int /\ p * d + d <= q * d
<1>1. q * d = p * d + (q - p) * d
    OBVIOUS
<1>2. (q - p) * d >= d
    OBVIOUS
<1> QED BY <1>1, <1>2

\* The latest instant of a daily time at or before t.
LEMMA PrevIsTime ==
    ASSUME NEW c, Daily(c), NEW t \in Nat
    PROVE  /\ PrevDaily(c, t) \in Int /\ IsTime(c, PrevDaily(c, t))
           /\ PrevDaily(c, t) <= t /\ t < PrevDaily(c, t) + Day
           /\ IsTime(c, PrevDaily(c, t) + Day)
<1> DEFINE q == t \div Day
<1>0. Day \in Nat /\ Day # 0 /\ c \in Int /\ 0 <= c /\ c < Day
    BY ScheduleAssumption DEF Daily
<1>1. q \in Int /\ q * Day \in Int /\ q * Day <= t /\ t < q * Day + Day
    BY <1>0, DivBy
<1>2. (q + 1) * Day = q * Day + Day /\ (q - 1) * Day = q * Day - Day
    BY <1>0, <1>1
<1>3. CASE q * Day + c > t
    <2>1. PrevDaily(c, t) = q * Day + c - Day
        BY <1>0, <1>1, <1>3 DEF PrevDaily
    <2>2. PrevDaily(c, t) = (q - 1) * Day + c /\ PrevDaily(c, t) + Day = q * Day + c
        BY <2>1, <1>0, <1>1, <1>2
    <2>3. q - 1 \in Int
        BY <1>1
    <2>4. IsTime(c, PrevDaily(c, t)) /\ IsTime(c, PrevDaily(c, t) + Day)
        BY <2>2, <2>3, <1>1 DEF IsTime
    <2> QED BY <2>1, <2>4, <1>0, <1>1, <1>3
<1>4. CASE ~(q * Day + c > t)
    <2>1. PrevDaily(c, t) = q * Day + c
        BY <1>0, <1>1, <1>4 DEF PrevDaily
    <2>2. PrevDaily(c, t) + Day = (q + 1) * Day + c
        BY <2>1, <1>0, <1>1, <1>2
    <2>3. q + 1 \in Int
        BY <1>1
    <2>4. IsTime(c, PrevDaily(c, t)) /\ IsTime(c, PrevDaily(c, t) + Day)
        BY <2>1, <2>2, <2>3, <1>1 DEF IsTime
    <2> QED BY <2>1, <2>4, <1>0, <1>1, <1>4
<1> QED BY <1>3, <1>4

\* Two instants of one time are a day apart, or more.
LEMMA TimesApart ==
    ASSUME NEW c, Daily(c), NEW m, NEW n, IsTime(c, m), IsTime(c, n)
    PROVE  m \in Int /\ n \in Int /\ (m < n => m + Day <= n)
<1>0. Day \in Nat /\ c \in Int
    BY ScheduleAssumption DEF Daily
<1>1. PICK p \in Int : m = p * Day + c
    BY DEF IsTime
<1>2. PICK q \in Int : n = q * Day + c
    BY DEF IsTime
<1>3. p * Day \in Int /\ q * Day \in Int
    BY <1>0
<1>4. CASE p < q
    BY <1>0, <1>1, <1>2, <1>4, ManyDays
<1>5. CASE q < p
    <2>1. q * Day + Day <= p * Day
        BY <1>0, <1>5, ManyDays
    <2> QED BY <2>1, <1>0, <1>1, <1>2, <1>3
<1>6. CASE p = q
    BY <1>0, <1>1, <1>2, <1>3, <1>6
<1> QED BY <1>4, <1>5, <1>6

\* An instant that has come is not after the latest one.
LEMMA PrevIsLatest ==
    ASSUME NEW c, Daily(c), NEW t \in Nat, NEW m, IsTime(c, m)
    PROVE  /\ m <= t => m <= PrevDaily(c, t)
           /\ t < m /\ m <= t + Day => m = PrevDaily(c, t) + Day
<1>0. Day \in Nat \ {0}
    BY ScheduleAssumption
<1>1. /\ PrevDaily(c, t) \in Int /\ IsTime(c, PrevDaily(c, t))
      /\ PrevDaily(c, t) <= t /\ t < PrevDaily(c, t) + Day
      /\ IsTime(c, PrevDaily(c, t) + Day)
    BY PrevIsTime
<1>2. m \in Int /\ (PrevDaily(c, t) < m => PrevDaily(c, t) + Day <= m)
    BY <1>1, TimesApart
<1>3. PrevDaily(c, t) + Day < m => PrevDaily(c, t) + Day + Day <= m
    BY <1>1, TimesApart
<1> QED BY <1>0, <1>1, <1>2, <1>3

LEMMA PrevGrows ==
    ASSUME NEW c, Daily(c), NEW t \in Nat, NEW u \in Nat, t <= u
    PROVE  PrevDaily(c, t) <= PrevDaily(c, u)
<1>1. IsTime(c, PrevDaily(c, t)) /\ PrevDaily(c, t) <= u
    BY PrevIsTime
<1> QED BY <1>1, PrevIsLatest

-----------------------------------------------------------------------------
LEMMA WallInitInv == WallInit => WallInv
<1> SUFFICES ASSUME WallInit PROVE WallInv
    OBVIOUS
<1>1. Off \in Settings /\ Unplanned \in Plans /\ Unplanned.cfg = Off
    BY DEF Settings, Unplanned, Plans, Moments, Moment
<1>2. /\ wanted \in [Schedules -> Settings] /\ planned \in [Schedules -> Plans]
      /\ \A k \in Schedules : planned[k].cfg \in Settings
    BY <1>1 DEF WallInit
<1>3. WallTypes
    <2>1. /\ lastFires \in [Schedules -> Int] /\ disk \in [Schedules -> Int]
          /\ rotated \in [Schedules -> Int]
          /\ \A k \in Schedules : lastFires[k] = -1 /\ disk[k] = -1 /\ rotated[k] = -1
        BY DEF WallInit, Never
    <2>2. -1 \in -1..wall /\ wall \in Nat /\ mono \in Nat /\ mono <= wall /\ left \in Nat
        BY DEF WallInit
    <2>3. toReset = {} /\ resets = {} /\ due = {} /\ wallLoop = "iterate" /\ decided \in 0..wall
        BY DEF WallInit
    <2>4. asleep \in BOOLEAN /\ changed \in BOOLEAN
        BY DEF WallInit
    <2> QED BY <1>2, <2>1, <2>2, <2>3, <2>4 DEF WallTypes, WallTypeOK
<1>4. ~Daily(Off)
    BY DEF Daily, Off
<1> QED
    BY <1>3, <1>4 DEF WallInit, WallInv, WaitsForATime, DueAreNew, LateAreMissed, FiresRemember,
        Unplanned, Never

LEMMA NextIsTime ==
    ASSUME NEW c, Daily(c), wall \in Nat
    PROVE  /\ ComputeNext(c) = Moment(NextDaily(c), Never)
           /\ NextDaily(c) \in Int /\ IsTime(c, NextDaily(c))
           /\ wall < NextDaily(c) /\ NextDaily(c) <= wall + Day
<1>1. Day \in Nat
    BY ScheduleAssumption
<1> QED BY <1>1, PrevIsTime DEF ComputeNext, NextDaily

\* What Iterate plans for a schedule, and what is due.
LEMMA PlannedFacts ==
    ASSUME WallInv, wallLoop = "iterate", NEW k \in Schedules
    PROVE  /\ Planned(k) \in Plans
           /\ [cfg |-> wanted[k], late |-> FALSE, next |-> ComputeNext(wanted[k])] \in Plans
           /\ Planned(k).cfg = wanted[k]
           /\ k \in Due => k \in Active /\ Planned(k) = planned[k] /\ planned[k].cfg = wanted[k]
           /\ k \notin Due /\ Daily(wanted[k]) /\ ~Planned(k).late =>
                 /\ Planned(k).next.mono = Never
                 /\ IsTime(wanted[k], Planned(k).next.wall)
                 /\ Planned(k).next.wall <= wall + Day
                 /\ rotated[k] < Planned(k).next.wall
           /\ Planned(k).late => Daily(wanted[k]) /\ rotated[k] < PrevDaily(wanted[k], wall)
<1> DEFINE p == [cfg |-> wanted[k], late |-> FALSE, next |-> ComputeNext(wanted[k])]
<1>0. /\ wall \in Nat /\ mono \in Nat /\ wanted[k] \in Settings /\ rotated[k] \in -1..wall
      /\ planned[k] \in Plans /\ lastFires[k] \in -1..wall
      /\ Day \in Nat \ {0, 1} /\ Interval \in Nat \ {0} /\ ~Daily(Off)
    BY ScheduleAssumption DEF WallInv, WallTypes, WallTypeOK, Daily, Off
<1>1. ComputeNext(wanted[k]) \in Moments /\ ~Before(ComputeNext(wanted[k]), Now)
         /\ Before(Now, ComputeNext(wanted[k]))
    <2>1. CASE Daily(wanted[k])
        BY <2>1, <1>0, NextIsTime DEF Moments, Moment, Never, Before, Now
    <2>2. CASE ~Daily(wanted[k])
        BY <2>2, <1>0 DEF ComputeNext, Moments, Moment, Never, Before, Now, Later
    <2> QED BY <2>1, <2>2
<1>2. p \in Plans /\ p.cfg = wanted[k] /\ ~p.late /\ Before(Now, p.next)
    BY <1>0, <1>1 DEF Plans
<1>3. Daily(wanted[k]) => /\ p.next.mono = Never /\ IsTime(wanted[k], p.next.wall)
                          /\ p.next.wall <= wall + Day /\ rotated[k] < p.next.wall
    BY <1>0, NextIsTime DEF Moment
<1>4. CASE k \notin Active
    <2>1. Planned(k) = Unplanned /\ wanted[k] = Off
        BY <1>4 DEF Planned, Active, New
    <2>2. Unplanned \in Plans /\ Unplanned.cfg = Off /\ ~Unplanned.late
        BY DEF Unplanned, Plans, Moments, Moment, Settings
    <2> QED BY <2>1, <2>2, <1>0, <1>2, <1>4 DEF Due
<1>5. CASE k \in New
    <2>1. Planned(k) = Appears(k) /\ k \in Active
        BY <1>5 DEF Planned, New
    <2>2. CASE Missed(k)
        <3>1. Appears(k) = [cfg |-> wanted[k], late |-> TRUE, next |-> Later(CatchUpDelay)]
            BY <2>2 DEF Appears
        <3>2. /\ Later(CatchUpDelay) \in Moments /\ Before(Now, Later(CatchUpDelay))
            BY <1>0 DEF Later, CatchUpDelay, Moments, Moment, Before, Now, Never
        <3>3. rotated[k] < PrevDaily(wanted[k], wall)
            <4>1. rotated[k] <= lastFires[k]
                BY <2>2 DEF Missed, WallInv, FiresRemember
            <4> QED BY <4>1, <2>2, <1>0, PrevIsTime DEF Missed
        <3> QED BY <2>1, <2>2, <3>1, <3>2, <3>3, <1>0, <1>2 DEF Plans, Due, Missed
    <2>3. CASE ~Missed(k)
        <3>1. Missed(k) = FALSE
            BY <2>3 DEF Missed
        <3>2. Appears(k) = p
            BY <3>1 DEF Appears
        <3> QED BY <2>1, <3>2, <1>2, <1>3 DEF Due
    <2> QED BY <2>2, <2>3
<1>6. CASE k \in Active /\ k \notin New /\ (planned[k].cfg # wanted[k] \/ k \in resets)
    <2>1. Planned(k) = p
        BY <1>6 DEF Planned
    <2> QED BY <2>1, <1>2, <1>3 DEF Due
<1>7. CASE k \in Active /\ k \notin New /\ planned[k].cfg = wanted[k] /\ k \notin resets
    <2>1. Planned(k) = planned[k]
        BY <1>7 DEF Planned
    <2>2. planned[k].late => Daily(wanted[k]) /\ rotated[k] < PrevDaily(wanted[k], wall)
        BY <1>7 DEF WallInv, LateAreMissed
    <2>3. Daily(wanted[k]) /\ ~planned[k].late =>
              /\ planned[k].next.mono = Never
              /\ IsTime(wanted[k], planned[k].next.wall)
              /\ planned[k].next.wall <= wall + Day
              /\ rotated[k] < planned[k].next.wall
        BY <1>7 DEF WallInv, WaitsForATime
    <2> QED BY <2>1, <2>2, <2>3, <1>0, <1>2, <1>7
<1> QED BY <1>4, <1>5, <1>6, <1>7

LEMMA IterateKeeps == WallInv /\ Iterate => WallInv'
<1> SUFFICES ASSUME WallInv, Iterate PROVE WallInv'
    OBVIOUS
<1> DEFINE p(k) == [cfg |-> wanted[k], late |-> FALSE, next |-> ComputeNext(wanted[k])]
<1>0. /\ wall \in Nat /\ wallLoop = "iterate" /\ due = {} /\ wall' = wall /\ rotated' = rotated
      /\ rotated \in [Schedules -> Int] /\ lastFires \in [Schedules -> Int]
      /\ \A k \in Schedules : rotated[k] \in -1..wall /\ lastFires[k] \in -1..wall
      /\ disk = lastFires /\ disk' = disk
    BY DEF WallInv, WallTypes, WallTypeOK, Iterate, DueAreNew, FiresRemember
<1>1. /\ planned' \in [Schedules -> Plans] /\ Due \subseteq Schedules
      /\ \A k \in Schedules : planned'[k] = IF k \in Due THEN p(k) ELSE Planned(k)
      /\ \A k \in Schedules : planned'[k].cfg = wanted[k]
    BY PlannedFacts DEF Iterate, Due, Active
<1>2. /\ lastFires' \in [Schedules -> Int]
      /\ \A k \in Schedules : lastFires'[k] \in {lastFires[k], Never, wall}
      /\ \A k \in Due : Daily(wanted[k]) => lastFires'[k] = wall
    <2>1. lastFires' = Fires
        BY DEF Iterate
    <2>2. \A k \in Due : Daily(wanted[k]) =>
              k \in Active /\ k \in Schedules /\ Seeded \cup {d \in Due : Daily(wanted[d])} # {}
        BY DEF Due, Active
    <2> QED BY <1>0, <2>1, <2>2 DEF Fires, Never
<1>3. WallTypes'
    <2>1. \A k \in Schedules : lastFires'[k] \in -1..wall /\ planned'[k].cfg \in Settings
        BY <1>0, <1>1, <1>2 DEF Never, WallInv, WallTypes, WallTypeOK
    <2> QED BY <1>0, <1>1, <1>2, <2>1 DEF WallInv, WallTypes, WallTypeOK, Iterate
<1>4. WaitsForATime'
    <2> SUFFICES ASSUME NEW k \in Schedules, Daily(wanted[k]), ~planned'[k].late
                 PROVE  /\ planned'[k].next.mono = Never
                        /\ IsTime(wanted[k], planned'[k].next.wall)
                        /\ planned'[k].next.wall <= wall + Day
                        /\ rotated[k] < planned'[k].next.wall
                        /\ k \in due' => decided' < planned'[k].next.wall
        BY <1>0, <1>1 DEF WaitsForATime
    <2>1. CASE k \in Due
        BY <2>1, <1>0, <1>1, NextIsTime DEF Moment, Iterate
    <2>2. CASE k \notin Due
        BY <2>2, <1>1, PlannedFacts DEF Iterate
    <2> QED BY <2>1, <2>2
<1>5. DueAreNew'
    <2> SUFFICES ASSUME NEW k \in Due
                 PROVE  /\ wallLoop' \in {"persist", "publish"} /\ ~planned'[k].late
                        /\ Daily(wanted[k]) =>
                              rotated[k] < PrevDaily(wanted[k], wall) /\ lastFires'[k] = wall
        BY <1>0, <1>1 DEF DueAreNew, Iterate
    <2>1. k \in Schedules /\ ~planned'[k].late /\ wallLoop' \in {"persist", "publish"}
        BY <1>1 DEF Iterate
    <2>2. ASSUME Daily(wanted[k]) PROVE rotated[k] < PrevDaily(wanted[k], wall)
        <3>1. Planned(k) = planned[k] /\ planned[k].cfg = wanted[k] /\ ~Before(Now, planned[k].next)
            BY <1>0, <2>1, PlannedFacts DEF Due
        <3>2. CASE planned[k].late
            BY <3>1, <3>2, <2>1 DEF WallInv, LateAreMissed
        <3>3. CASE ~planned[k].late
            <4>1. /\ planned[k].next.mono = Never /\ IsTime(wanted[k], planned[k].next.wall)
                  /\ rotated[k] < planned[k].next.wall
                BY <3>1, <3>3, <2>1, <2>2 DEF WallInv, WaitsForATime
            <4>2. ~(wall < planned[k].next.wall)
                BY <3>1, <4>1 DEF Before, Now, Moment
            <4>3. planned[k].next.wall \in Int
                BY <2>1 DEF WallInv, WallTypes, Plans, Moments
            <4>4. planned[k].next.wall <= PrevDaily(wanted[k], wall)
                BY <4>1, <4>2, <4>3, <1>0, <2>2, PrevIsLatest
            <4>5. PrevDaily(wanted[k], wall) \in Int
                BY <1>0, <2>2, PrevIsTime
            <4> QED BY <1>0, <2>1, <4>1, <4>3, <4>4, <4>5
        <3> QED BY <3>2, <3>3
    <2> QED BY <2>1, <2>2, <1>2
<1>6. LateAreMissed'
    <2> SUFFICES ASSUME NEW k \in Schedules, planned'[k].late
                 PROVE  Daily(wanted[k]) /\ rotated[k] < PrevDaily(wanted[k], wall)
        BY <1>0, <1>1 DEF LateAreMissed
    <2>1. k \notin Due /\ Planned(k).late
        BY <1>1
    <2> QED BY <2>1, <1>0, PlannedFacts
<1>7. FiresRemember'
    <2>1. \A k \in Schedules : lastFires'[k] = Never \/ rotated[k] <= lastFires'[k]
        BY <1>0, <1>2 DEF WallInv, FiresRemember
    <2>2. wallLoop' # "persist" => lastFires' = lastFires
        BY DEF Iterate
    <2> QED BY <1>0, <2>1, <2>2 DEF WallInv, FiresRemember
<1> QED BY <1>3, <1>4, <1>5, <1>6, <1>7 DEF WallInv

LEMMA PublishDueKeeps == WallInv /\ PublishDue => WallInv'
<1> SUFFICES ASSUME WallInv, PublishDue PROVE WallInv'
    OBVIOUS
<1>0. /\ wall \in Nat /\ decided \in 0..wall /\ due \subseteq Schedules
      /\ \A k \in Schedules : rotated[k] \in -1..wall
      /\ planned \in [Schedules -> Plans] /\ disk = lastFires
      /\ due' = {} /\ decided' = 0 /\ wall' = wall /\ planned' = planned
      /\ lastFires' = lastFires /\ disk' = disk /\ wallLoop' = "wait"
    BY DEF WallInv, WallTypes, WallTypeOK, PublishDue, FiresRemember
<1>1. left' \in Nat
    <2>1. Day \in Nat /\ mono \in Nat
        BY ScheduleAssumption DEF WallInv, WallTypes
    <2>2. \A k \in Schedules : AtLeastASecond(Until(planned[k].next)) \in Nat
        BY <1>0, <2>1 DEF AtLeastASecond, Until, Plans, Moments
    <2> QED BY <2>1, <2>2 DEF PublishDue, Soonest
<1>2. /\ rotated' \in [Schedules -> Int]
      /\ \A k \in Schedules :
            rotated'[k] = IF k \in due /\ Daily(planned[k].cfg) THEN decided ELSE rotated[k]
    BY <1>0 DEF PublishDue
<1>3. WallTypes'
    BY <1>0, <1>1, <1>2 DEF WallInv, WallTypes, WallTypeOK, PublishDue
<1>4. WaitsForATime'
    BY <1>0, <1>2 DEF WallInv, WaitsForATime
<1>5. LateAreMissed'
    BY <1>0, <1>2 DEF WallInv, LateAreMissed, DueAreNew
<1>6. FiresRemember'
    BY <1>0, <1>2 DEF WallInv, FiresRemember, DueAreNew
<1> QED BY <1>0, <1>3, <1>4, <1>5, <1>6 DEF WallInv, DueAreNew

\* Time passes: what was missed stays missed.
LEMMA TickKeeps == WallInv /\ Tick => WallInv'
<1> SUFFICES ASSUME WallInv, Tick PROVE WallInv'
    OBVIOUS
<1> USE DEF WallInv, WallTypes, WallTypeOK, Tick
<1>0. wall \in Nat /\ wall' = wall + 1 /\ Day \in Nat
    BY ScheduleAssumption
<1>1. WallTypes'
    BY <1>0
<1>2. WaitsForATime'
    BY <1>0 DEF WaitsForATime, Plans, Moments
<1>3. LateAreMissed'
    <2> SUFFICES ASSUME NEW k \in Schedules, planned[k].late
                 PROVE  Daily(planned[k].cfg) /\ rotated[k] < PrevDaily(planned[k].cfg, wall + 1)
        BY <1>0 DEF LateAreMissed
    <2>1. Daily(planned[k].cfg) /\ rotated[k] < PrevDaily(planned[k].cfg, wall)
        BY DEF LateAreMissed
    <2>2. /\ PrevDaily(planned[k].cfg, wall) \in Int /\ PrevDaily(planned[k].cfg, wall + 1) \in Int
          /\ PrevDaily(planned[k].cfg, wall) <= PrevDaily(planned[k].cfg, wall + 1)
        BY <2>1, <1>0, PrevIsTime, PrevGrows
    <2> QED BY <2>1, <2>2
<1> QED BY <1>0, <1>1, <1>2, <1>3 DEF DueAreNew, FiresRemember

LEMMA OtherStepsKeep ==
    ASSUME WallInv,
           \/ Persist \/ TakeTrigger \/ TakeTimer \/ (\E k \in Schedules : TakeReset(k))
           \/ Sleep \/ Wake \/ Stop \/ Start \/ UNCHANGED wallVars
           \/ \E k \in Schedules : ResetSchedule(k) \/ \E c \in Settings : SetConfig(k, c)
    PROVE  WallInv'
<1> USE DEF WallInv, WallTypes, WallTypeOK
<1>1. CASE Persist
    <2>1. WallTypes'
        BY <1>1 DEF Persist
    <2> QED BY <1>1, <2>1 DEF Persist, WaitsForATime, DueAreNew, LateAreMissed, FiresRemember
<1>2. CASE TakeTrigger \/ TakeTimer \/ \E k \in Schedules : TakeReset(k)
    <2>1. WallTypes'
        BY <1>2 DEF TakeTrigger, TakeTimer, TakeReset, Woken
    <2> QED BY <1>2, <2>1 DEF TakeTrigger, TakeTimer, TakeReset, Woken, WaitsForATime, DueAreNew,
                LateAreMissed, FiresRemember
<1>3. CASE Sleep \/ Wake \/ UNCHANGED wallVars
          \/ \E k \in Schedules : ResetSchedule(k) \/ \E c \in Settings : SetConfig(k, c)
    <2>1. /\ UNCHANGED <<wall, mono, wallLoopVars>>
          /\ asleep' \in BOOLEAN /\ changed' \in BOOLEAN /\ toReset' \subseteq Schedules
          /\ wanted' \in [Schedules -> Settings]
        BY <1>3 DEF Sleep, Wake, TriggerOnWake, wallVars, ResetSchedule, SetConfig
    <2>2. WallTypes'
        BY <2>1 DEF wallLoopVars
    <2> QED BY <2>1, <2>2 DEF wallLoopVars, WaitsForATime, DueAreNew, LateAreMissed, FiresRemember
<1>4. CASE Stop
    <2>1. Off \in Settings /\ Unplanned \in Plans /\ Unplanned.cfg = Off /\ ~Unplanned.late
             /\ ~Daily(Off)
        BY DEF Settings, Unplanned, Plans, Moments, Moment, Daily, Off
    <2>2. /\ wanted' \in [Schedules -> Settings] /\ planned' \in [Schedules -> Plans]
          /\ lastFires' \in [Schedules -> Int]
          /\ \A k \in Schedules : planned'[k] = Unplanned /\ lastFires'[k] = Never
          /\ wallLoop' = "down" /\ due' = {} /\ left' = 0 /\ resets' = {} /\ decided' = 0
          /\ changed' = FALSE /\ toReset' = {}
          /\ UNCHANGED <<wall, mono, asleep, disk, rotated, restarted>>
        BY <1>4, <2>1 DEF Stop, Never
    <2>3. WallTypes'
        <3>1. \A k \in Schedules : planned'[k].cfg \in Settings /\ lastFires'[k] \in -1..wall
            BY <2>1, <2>2 DEF Never
        <3>2. left' \in Nat /\ decided' \in 0..wall /\ wall \in Nat
            BY <2>2
        <3>3. changed' \in BOOLEAN
            BY <2>2
        <3> QED BY <2>2, <3>1, <3>2, <3>3
    <2>4. WaitsForATime' /\ LateAreMissed' /\ DueAreNew'
        BY <2>1, <2>2 DEF WaitsForATime, DueAreNew, LateAreMissed
    <2>5. FiresRemember'
        BY <2>2 DEF FiresRemember
    <2> QED BY <2>3, <2>4, <2>5
<1>5. CASE Start
    <2>1. WallTypes'
        BY <1>5 DEF Start
    <2> QED BY <1>5, <2>1 DEF Start, WaitsForATime, DueAreNew, LateAreMissed, FiresRemember
<1> QED BY <1>1, <1>2, <1>3, <1>4, <1>5

LEMMA WallNextInv == WallInv /\ [WallNext]_wallVars => WallInv'
BY IterateKeeps, PublishDueKeeps, TickKeeps, OtherStepsKeep DEF WallNext, WallStep

\* Planning, catching up, publishing and a clock that sleeps keep WallInv.
THEOREM WallpaperInvariant == WallSpec => []WallInv
<1> QED BY WallInitInv, WallNextInv, PTL DEF WallSpec

\* No daily time is rotated for twice, whatever restarts, wake-ups and catch-ups lie between
\* (wallpaper.Manager: lastFires in memory and on disk).
THEOREM TimesAreServedOnce == WallSpec => NoTimeServedTwice
<1>1. ASSUME WallInv, [WallNext]_wallVars
      PROVE  [wallLoop = "publish" /\ wallLoop' = "wait" =>
                 \A k \in due : Daily(planned[k].cfg) =>
                     rotated[k] < PrevDaily(planned[k].cfg, decided)]_wallVars
    BY <1>1 DEF WallInv, DueAreNew
<1> QED BY <1>1, WallpaperInvariant, PTL DEF WallSpec, NoTimeServedTwice

-----------------------------------------------------------------------------
\* The timer of a loop at rest: it has run with the clocks since it was set, and no daily
\* schedule's time comes before it fires.
Asleepless == wallLoop = "wait" /\ ~asleep /\ ~changed
TimerIsInTime == Asleepless /\ AllInStep => \A k \in Schedules :
    Daily(planned[k].cfg) /\ ~planned[k].late /\ left > 1 => wall + left <= planned[k].next.wall

LEMMA SoonestIsFirst ==
    ASSUME WallTypes, AllInStep,
           NEW S, S = {k \in Schedules : planned[k].cfg # Off},
           NEW j \in S, NEW k \in Soonest(S)
    PROVE  Until(planned[k].next) <= Until(planned[j].next)
<1>1. /\ wall \in Int /\ mono \in Int
      /\ \A i \in S : planned[i].next \in Moments /\ InStep(planned[i].next)
    BY DEF WallTypes, Plans, AllInStep
<1>2. \A i \in S : Until(planned[i].next) \in Int
    BY <1>1 DEF Until, Moments
<1>3. \A h, i \in S :
          Before(planned[h].next, planned[i].next) <=> Until(planned[h].next) < Until(planned[i].next)
    BY <1>1 DEF Before, Until, InStep, Moments, Never
<1>4. Orderly(S)
    BY <1>2, <1>3 DEF Orderly
<1> QED BY <1>2, <1>3, <1>4 DEF Soonest

LEMMA TimerKept ==
    ASSUME WallInv, TimerIsInTime, [WallNext]_wallVars
    PROVE  TimerIsInTime'
<1> USE DEF WallInv, WallTypes, WallTypeOK
<1>1. CASE UNCHANGED wallVars
    BY <1>1 DEF wallVars, wallLoopVars, TimerIsInTime, Asleepless, AllInStep, InStep
<1>2. CASE PublishDue
    <2> SUFFICES ASSUME AllInStep', NEW j \in Schedules, Daily(planned[j].cfg), ~planned[j].late,
                        left' > 1
                 PROVE  wall + left' <= planned[j].next.wall
        BY <1>2 DEF TimerIsInTime, PublishDue
    <2> DEFINE S == {k \in Schedules : planned[k].cfg # Off}
    <2>1. AllInStep /\ wall \in Nat /\ mono \in Nat
        BY <1>2 DEF PublishDue, AllInStep, InStep
    <2>2. j \in S
        BY DEF Daily, Off
    <2>3. PICK k \in Soonest(S) : left' = AtLeastASecond(Until(planned[k].next))
        BY <1>2, <2>2 DEF PublishDue
    <2>4. Until(planned[k].next) <= Until(planned[j].next)
        BY <2>1, <2>2, SoonestIsFirst
    <2>5. planned[j].next.mono = Never /\ planned[j].next.wall \in Int
        BY DEF WaitsForATime, Plans, Moments
    <2>6. Until(planned[j].next) = planned[j].next.wall - wall
        BY <2>5 DEF Until
    <2>7. Until(planned[k].next) \in Int
        BY <2>1, <2>3 DEF Soonest, Until, Plans, Moments
    <2>8. left' = Until(planned[k].next)
        BY <2>3, <2>7 DEF AtLeastASecond
    <2> QED BY <2>1, <2>4, <2>5, <2>6, <2>7, <2>8
<1>3. CASE Tick
    <2> SUFFICES ASSUME Asleepless', AllInStep', NEW j \in Schedules, Daily(planned[j].cfg),
                        ~planned[j].late, left' > 1
                 PROVE  wall + 1 + left' <= planned[j].next.wall
        BY <1>3 DEF TimerIsInTime, Tick
    <2>1. ~asleep /\ Asleepless /\ mono' = mono + 1 /\ wall' = wall + 1 /\ planned' = planned
        BY <1>3 DEF Asleepless, Tick
    <2>2. AllInStep
        BY <2>1 DEF AllInStep, InStep, Plans, Moments
    <2>3. left' = left - 1 /\ left > 1 /\ left \in Nat
        BY <1>3, <2>1 DEF Tick
    <2>4. wall + left <= planned[j].next.wall
        BY <2>1, <2>2, <2>3 DEF TimerIsInTime
    <2>5. planned[j].next.wall \in Int
        BY DEF Plans, Moments
    <2> QED BY <2>3, <2>4, <2>5
<1>4. CASE \/ Iterate \/ Persist \/ TakeTrigger \/ TakeTimer \/ (\E k \in Schedules : TakeReset(k))
           \/ Stop \/ Start
    BY <1>4 DEF Iterate, Persist, TakeTrigger, TakeTimer, TakeReset, Woken, Stop, Start,
                TimerIsInTime, Asleepless
<1>5. CASE Sleep \/ Wake \/ \E k \in Schedules : \E c \in Settings : SetConfig(k, c)
    BY <1>5 DEF Sleep, Wake, TriggerOnWake, SetConfig, TimerIsInTime, Asleepless, wallLoopVars
<1>6. CASE \E k \in Schedules : ResetSchedule(k)
    BY <1>6 DEF ResetSchedule, wallLoopVars, TimerIsInTime, Asleepless, AllInStep, InStep
<1> QED BY <1>1, <1>2, <1>3, <1>4, <1>5, <1>6 DEF WallNext, WallStep

\* While the scheduler waits with its timer running, no daily time lies in the past, if no
\* interval was planned before the machine slept (wallpaper.Manager: soonest, timer).
THEOREM NothingSleptThrough == WallSpec => []NoTimeSleptThrough
<1>1. WallInit => TimerIsInTime
    BY DEF WallInit, TimerIsInTime, Asleepless
<1>2. WallInv /\ TimerIsInTime => NoTimeSleptThrough
    <2> SUFFICES ASSUME WallInv, TimerIsInTime, AtRestNow, AllInStep,
                        NEW k \in Schedules, Daily(planned[k].cfg), ~planned[k].late
                 PROVE  planned[k].next.wall = NextDaily(planned[k].cfg)
        BY DEF NoTimeSleptThrough
    <2>1. wall + left <= planned[k].next.wall /\ left > 1
        BY DEF TimerIsInTime, Asleepless, AtRestNow
    <2>2. wall \in Nat /\ left \in Nat /\ planned[k].next.wall \in Int
        BY DEF WallInv, WallTypes, WallTypeOK, Plans, Moments
    <2>3. /\ planned[k].next.wall <= wall + Day /\ IsTime(planned[k].cfg, planned[k].next.wall)
        BY DEF WallInv, WaitsForATime
    <2> QED BY <2>1, <2>2, <2>3, PrevIsLatest DEF NextDaily
<1> QED BY <1>1, <1>2, WallpaperInvariant, TimerKept, PTL DEF WallSpec

\* The wait of the scheduler is never negative.
LEMMA WallTypesHold == WallSpec => []WallTypeOK
<1>1. WallInv => WallTypeOK
    BY DEF WallInv, WallTypes
<1> QED BY <1>1, WallpaperInvariant, PTL

-----------------------------------------------------------------------------
(***************************************************************************)
(* The managers in one behaviour.                                          *)
(***************************************************************************)

\* Each manager behaves as if the others were not there.
LEMMA DaemonParts ==
    MCSpec => /\ PromptSpec /\ DdcSpec /\ BtSpec /\ WlrSpec
              /\ GammaSpec /\ ClipSpec /\ WallSpec /\ UpdateSpec
<1>1. MCInit => /\ PromptInit /\ DdcInit /\ BtInit /\ WlrInit
                /\ GammaInit /\ ClipInit /\ WallInit /\ UpdateInit
    BY DEF MCInit
<1>2. [MCNext]_<<part, promptVars, ddcVars, btVars, wlrVars, gammaVars, clipVars, wallVars, updateVars>> =>
          /\ [PromptNext]_promptVars /\ [DdcNext]_ddcVars /\ [BtNext]_btVars /\ [WlrNext]_wlrVars
          /\ [GammaNext]_gammaVars /\ [ClipNext]_clipVars /\ [WallNext]_wallVars /\ [UpdateNext]_updateVars
    BY DEF MCNext, Prompts, Brightness, Bluetooth, Outputs, Gamma, Clipboard, Wallpaper, Updates
<1> QED BY <1>1, <1>2, PTL
        DEF MCSpec, PromptSpec, DdcSpec, BtSpec, WlrSpec, GammaSpec, ClipSpec, WallSpec, UpdateSpec

\* The managers of the daemon keep their types.
THEOREM DaemonTypesHold == MCSpec => []DaemonTypeOK
BY DaemonParts, PromptTypes, DdcTypesHold, BluetoothTypes, OutputTypes, GammaTypesHold, ClipTypes,
   WallTypesHold, TypeCorrect, PTL DEF DaemonTypeOK
=============================================================================
