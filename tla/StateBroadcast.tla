---------------------------- MODULE StateBroadcast ----------------------------
(***************************************************************************)
(* How a manager's state reaches the shell: the network manager and its    *)
(* rate-limited notifier (core/internal/server/network/manager.go), and    *)
(* the subscribe handler of a connection (handleSubscribe, server.go) with *)
(* its producer goroutines.  The loginctl, bluez, cups, wayland, wlroutput *)
(* and location managers have the same notifier, and every service of a    *)
(* connection has a producer of the same form.                             *)
(*                                                                         *)
(* A state is a member of Values; two of them differ in the sense of       *)
(* stateChangedMeaningfully.  Each client is one connection.  The backend  *)
(* and the sockets are external.                                           *)
(***************************************************************************)
EXTENDS Naturals, Sequences

CONSTANTS
    Clients,     \* connections that subscribe to "network"
    NoClient,
    Callbacks,   \* goroutines that run onBackendStateChange
    Values,      \* network states
    NoValue,
    SubCap,      \* capacity of a subscriber's channel (64 in the code)
    EventCap,    \* capacity of a connection's eventChan (256 in the code)
    MaxChanges,  \* bound: changes of the network
    MaxCaps      \* bound: changes of the capabilities

ASSUME ClientsAssumption == NoClient \notin Clients
ASSUME ValuesAssumption == NoValue \notin Values
ASSUME BoundsAssumption ==
    {SubCap, EventCap} \subseteq Nat \ {0} /\ {MaxChanges, MaxCaps} \subseteq Nat

Services == {"server", "network"}
Items == [service : Services, value : Values \cup {NoValue}]

VARIABLES
    net,       \* the backend's own state
    callback,  \* where each callback is
    got,       \* the state it has read from the backend
    state,     \* m.state
    dirty,     \* m.dirty is full
    notifier,  \* where the notifier is
    snapshot,  \* its currentState
    todo,      \* the subscribers its Range has still to visit
    target,    \* the subscriber it has loaded and is about to send to
    last,      \* m.lastNotifiedState
    subs,      \* keys of m.subscribers
    queue,     \* what is in each subscriber's channel
    capSubs,   \* keys of capabilitySubscribers
    capQueue,  \* number of infos in each capability channel
    handler,   \* where the subscribe handler of each connection is
    producer,  \* where each of its producers is
    held,      \* the event each producer is about to send
    wg,        \* the wait group's counter
    stop,      \* stopChan is closed
    events,    \* what is in eventChan
    closed,    \* eventChan is closed
    link,      \* the client is there
    view,      \* the last network state written to the client
    updates,   \* how many network states were written to it: 0, 1, 2 (more)
    dropped,   \* clients that lost a state because their channel was full
    crashed,   \* the daemon has panicked: nothing happens any more
    changes, caps   \* how often the network and the capabilities changed

backendVars == <<net, callback, got, changes>>
notifierVars == <<notifier, snapshot, target, last>>
managerVars == <<backendVars, state, dirty, notifierVars, todo, subs, queue, dropped>>
capVars == <<capSubs, capQueue, caps>>
sessionVars == <<handler, producer, held, wg, stop, events, closed>>
clientVars == <<link, view, updates>>
vars == <<managerVars, capVars, sessionVars, clientVars, crashed>>

Init ==
    /\ net \in Values /\ state = net
    /\ callback = [k \in Callbacks |-> "idle"] /\ got = [k \in Callbacks |-> net]
    /\ dirty = FALSE
    /\ notifier = "idle" /\ snapshot = net /\ todo = {} /\ target = NoClient
    /\ last = NoValue
    /\ subs = {} /\ queue = [c \in Clients |-> <<>>]
    /\ capSubs = {} /\ capQueue = [c \in Clients |-> 0]
    /\ handler = [c \in Clients |-> "new"]
    /\ producer = [c \in Clients |-> [s \in Services |-> "none"]]
    /\ held = [c \in Clients |-> [s \in Services |-> NoValue]]
    /\ wg = [c \in Clients |-> 0]
    /\ stop = [c \in Clients |-> FALSE]
    /\ events = [c \in Clients |-> <<>>] /\ closed = [c \in Clients |-> FALSE]
    /\ link = [c \in Clients |-> TRUE]
    /\ view = [c \in Clients |-> NoValue] /\ updates = [c \in Clients |-> 0]
    /\ dropped = {} /\ crashed = FALSE /\ changes = 0 /\ caps = 0

-----------------------------------------------------------------------------
(* The backend and the manager's state.                                    *)

\* The network changes; the backend's signal handler, or the request that
\* changed it, calls onBackendStateChange.
NetworkChanges(k) ==
    /\ ~crashed /\ changes < MaxChanges /\ callback[k] = "idle"
    /\ \E v \in Values \ {net} : net' = v
    /\ callback' = [callback EXCEPT ![k] = "called"]
    /\ changes' = changes + 1
    /\ UNCHANGED <<got, state, dirty, notifierVars, todo, subs, queue, dropped,
                   capVars, sessionVars, clientVars, crashed>>

\* syncStateFromBackend reads the backend's state under the backend's lock ...
ReadBackend(k) ==
    /\ ~crashed /\ callback[k] = "called"
    /\ callback' = [callback EXCEPT ![k] = "read"]
    /\ got' = [got EXCEPT ![k] = net]
    /\ UNCHANGED <<net, changes, state, dirty, notifierVars, todo, subs, queue, dropped,
                   capVars, sessionVars, clientVars, crashed>>

\* ... and stores it under its own.
StoreState(k) ==
    /\ ~crashed /\ callback[k] = "read"
    /\ callback' = [callback EXCEPT ![k] = "stored"]
    /\ state' = got[k]
    /\ UNCHANGED <<net, got, changes, dirty, notifierVars, todo, subs, queue, dropped,
                   capVars, sessionVars, clientVars, crashed>>

\* notifySubscribers: the channel holds one mark, which is enough.
MarkDirtyUnbuffered == dirty' = (notifier = "idle")   \* mutant
MarkDirty == dirty' = TRUE

NotifySubscribers(k) ==
    /\ ~crashed /\ callback[k] = "stored"
    /\ callback' = [callback EXCEPT ![k] = "idle"]
    /\ MarkDirty
    /\ UNCHANGED <<net, got, changes, state, notifierVars, todo, subs, queue, dropped,
                   capVars, sessionVars, clientVars, crashed>>

-----------------------------------------------------------------------------
(* The notifier.                                                           *)

\* A mark starts the timer, or is swallowed while the timer runs.
TakeMark ==
    /\ ~crashed /\ notifier \in {"idle", "pending"} /\ dirty
    /\ dirty' = FALSE /\ notifier' = "pending"
    /\ UNCHANGED <<backendVars, state, snapshot, target, last, todo, subs, queue, dropped,
                   capVars, sessionVars, clientVars, crashed>>

\* stateChangedMeaningfully, against the state that was notified last.
Worthwhile == last = NoValue \/ last # state
\* The timer fires with nothing new to tell ...
FindNothingNew ==
    /\ ~crashed /\ notifier = "pending" /\ ~Worthwhile
    /\ notifier' = "idle"
    /\ UNCHANGED <<backendVars, state, dirty, snapshot, target, last, todo, subs, queue,
                   dropped, capVars, sessionVars, clientVars, crashed>>

\* ... or with a new state: the notifier ranges over the subscribers.
BeginRange ==
    /\ ~crashed /\ notifier = "pending" /\ Worthwhile
    /\ notifier' = "range" /\ snapshot' = state /\ todo' = subs
    /\ UNCHANGED <<backendVars, state, dirty, target, last, subs, queue, dropped,
                   capVars, sessionVars, clientVars, crashed>>

\* Range loads the next channel, unless it was deleted in the meantime.
LoadSubscriber(c) ==
    /\ ~crashed /\ notifier = "range" /\ target = NoClient /\ c \in todo
    /\ todo' = todo \ {c}
    /\ target' = IF c \in subs THEN c ELSE NoClient
    /\ UNCHANGED <<backendVars, state, dirty, notifier, snapshot, last, subs, queue, dropped,
                   capVars, sessionVars, clientVars, crashed>>

\* The send: dropped when the channel is full, a panic when Unsubscribe has
\* closed it since it was loaded.
SendToSubscriber ==
    /\ ~crashed /\ notifier = "range" /\ target # NoClient
    /\ target' = NoClient
    /\ \/ /\ target \in subs /\ Len(queue[target]) < SubCap
          /\ queue' = [queue EXCEPT ![target] = Append(@, snapshot)]
          /\ UNCHANGED <<dropped, crashed>>
       \/ /\ target \in subs /\ Len(queue[target]) = SubCap
          /\ dropped' = dropped \cup {target}
          /\ UNCHANGED <<queue, crashed>>
       \/ target \notin subs /\ crashed' = TRUE /\ UNCHANGED <<queue, dropped>>
    /\ UNCHANGED <<backendVars, state, dirty, notifier, snapshot, last, todo, subs,
                   capVars, sessionVars, clientVars>>

\* Mutant: the state remembered as notified is read again after the Range.
EndRangeRereads ==
    /\ ~crashed /\ notifier = "range" /\ target = NoClient /\ todo = {}
    /\ notifier' = "idle" /\ last' = state
    /\ UNCHANGED <<backendVars, state, dirty, snapshot, target, todo, subs, queue, dropped,
                   capVars, sessionVars, clientVars, crashed>>
EndRange ==
    /\ ~crashed /\ notifier = "range" /\ target = NoClient /\ todo = {}
    /\ notifier' = "idle" /\ last' = snapshot
    /\ UNCHANGED <<backendVars, state, dirty, snapshot, target, todo, subs, queue, dropped,
                   capVars, sessionVars, clientVars, crashed>>

\* notifyCapabilityChange, from whatever part of the server has come up.
CapabilitiesChange ==
    /\ ~crashed /\ caps < MaxCaps /\ caps' = caps + 1
    /\ capQueue' = [c \in Clients |-> IF c \in capSubs /\ capQueue[c] < SubCap
                                      THEN capQueue[c] + 1 ELSE capQueue[c]]
    /\ UNCHANGED <<managerVars, capSubs, sessionVars, clientVars, crashed>>

-----------------------------------------------------------------------------
(* A connection: its handler starts one producer after the other, says     *)
(* hello and then writes what the producers send.                          *)

SubscribeServer(c) ==
    /\ ~crashed /\ handler[c] = "new"
    /\ handler' = [handler EXCEPT ![c] = "network"]
    /\ capSubs' = capSubs \cup {c}
    /\ wg' = [wg EXCEPT ![c] = @ + 1]
    /\ producer' = [producer EXCEPT ![c]["server"] = "wait"]
    /\ UNCHANGED <<managerVars, capQueue, caps, held, stop, events, closed, clientVars, crashed>>

CountNetworkForgotten(c) == wg' = wg   \* mutant
CountNetwork(c) == wg' = [wg EXCEPT ![c] = @ + 1]

\* Subscribe stores the channel; a Range in progress may or may not visit it.
SubscribeNetwork(c) ==
    /\ ~crashed /\ handler[c] = "network"
    /\ handler' = [handler EXCEPT ![c] = "hello"]
    /\ subs' = subs \cup {c}
    /\ \/ todo' = todo
       \/ notifier = "range" /\ todo' = todo \cup {c}
    /\ CountNetwork(c)
    /\ producer' = [producer EXCEPT ![c]["network"] = "initial"]
    /\ UNCHANGED <<backendVars, state, dirty, notifierVars, queue, dropped, capVars,
                   held, stop, events, closed, clientVars, crashed>>

\* A write to a client that has gone fails: the handler closes stopChan, leaves.
GiveUp(c) ==
    /\ handler' = [handler EXCEPT ![c] = "returned"]
    /\ stop' = [stop EXCEPT ![c] = TRUE]

Hello(c) ==
    /\ ~crashed /\ handler[c] = "hello"
    /\ \/ link[c] /\ handler' = [handler EXCEPT ![c] = "loop"] /\ UNCHANGED stop
       \/ ~link[c] /\ GiveUp(c)
    /\ UNCHANGED <<managerVars, capVars, producer, held, wg, events, closed, clientVars, crashed>>

\* The write of an event.
Deliver(c, item) ==
    IF item.service = "network"
    THEN /\ view' = [view EXCEPT ![c] = item.value]
         /\ updates' = [updates EXCEPT ![c] = IF @ = 2 THEN 2 ELSE @ + 1]
    ELSE UNCHANGED <<view, updates>>

WriteEvent(c) ==
    /\ ~crashed /\ handler[c] = "loop" /\ events[c] # <<>>
    /\ events' = [events EXCEPT ![c] = Tail(@)]
    /\ \/ link[c] /\ Deliver(c, Head(events[c])) /\ UNCHANGED <<handler, stop>>
       \/ ~link[c] /\ GiveUp(c) /\ UNCHANGED <<view, updates>>
    /\ UNCHANGED <<managerVars, capVars, producer, held, wg, closed, link, crashed>>

\* wg.Wait() returns; the closer was started before the hello.
CloseEvents(c) ==
    /\ ~crashed /\ handler[c] \in {"hello", "loop", "returned"} /\ ~closed[c] /\ wg[c] = 0
    /\ closed' = [closed EXCEPT ![c] = TRUE]
    /\ UNCHANGED <<managerVars, capVars, handler, producer, held, wg, stop, events,
                   clientVars, crashed>>

Disconnect(c) ==
    /\ ~crashed /\ link[c] /\ link' = [link EXCEPT ![c] = FALSE]
    /\ UNCHANGED <<managerVars, capVars, sessionVars, view, updates, crashed>>

-----------------------------------------------------------------------------
(* The producers.                                                          *)

\* The network producer starts with the current state.
TakeInitial(c) ==
    /\ ~crashed /\ producer[c]["network"] = "initial"
    /\ producer' = [producer EXCEPT ![c]["network"] = "send"]
    /\ held' = [held EXCEPT ![c]["network"] = state]
    /\ UNCHANGED <<managerVars, capVars, handler, wg, stop, events, closed, clientVars, crashed>>

TakeState(c) ==
    /\ ~crashed /\ producer[c]["network"] = "wait" /\ queue[c] # <<>>
    /\ producer' = [producer EXCEPT ![c]["network"] = "send"]
    /\ held' = [held EXCEPT ![c]["network"] = Head(queue[c])]
    /\ queue' = [queue EXCEPT ![c] = Tail(@)]
    /\ UNCHANGED <<backendVars, state, dirty, notifierVars, todo, subs, dropped, capVars,
                   handler, wg, stop, events, closed, clientVars, crashed>>

TakeInfo(c) ==
    /\ ~crashed /\ producer[c]["server"] = "wait" /\ capQueue[c] > 0
    /\ producer' = [producer EXCEPT ![c]["server"] = "send"]
    /\ capQueue' = [capQueue EXCEPT ![c] = @ - 1]
    /\ UNCHANGED <<managerVars, capSubs, caps, handler, held, wg, stop, events, closed,
                   clientVars, crashed>>

SendEvent(c, s) ==
    /\ ~crashed /\ producer[c][s] = "send" /\ Len(events[c]) < EventCap
    /\ events' = [events EXCEPT ![c] = Append(@, [service |-> s, value |-> held[c][s]])]
    /\ producer' = [producer EXCEPT ![c][s] = "wait"]
    /\ held' = [held EXCEPT ![c][s] = NoValue]
    /\ UNCHANGED <<managerVars, capVars, handler, wg, stop, closed, clientVars, crashed>>

\* A producer sees stopChan closed in either of its selects.
StoppableWaiting == {"wait"}   \* mutant: the send does not watch stopChan
Stoppable == {"wait", "send"}

SeeStop(c, s) ==
    /\ ~crashed /\ stop[c] /\ producer[c][s] \in Stoppable
    /\ producer' = [producer EXCEPT ![c][s] = "leave"]
    /\ held' = [held EXCEPT ![c][s] = NoValue]
    /\ UNCHANGED <<managerVars, capVars, handler, wg, stop, events, closed, clientVars, crashed>>

\* Mutant: the deferred Unsubscribe is missing.
LeaveNetworkSubscribed(c) ==
    /\ ~crashed /\ producer[c]["network"] = "leave"
    /\ producer' = [producer EXCEPT ![c]["network"] = "done"]
    /\ wg' = [wg EXCEPT ![c] = @ - 1]
    /\ UNCHANGED <<managerVars, capVars, handler, held, stop, events, closed, clientVars, crashed>>

\* The deferred calls: unsubscribe, which closes the channel, then wg.Done().
LeaveNetwork(c) ==
    /\ ~crashed /\ producer[c]["network"] = "leave"
    /\ producer' = [producer EXCEPT ![c]["network"] = "done"]
    /\ wg' = [wg EXCEPT ![c] = @ - 1]
    /\ subs' = subs \ {c} /\ queue' = [queue EXCEPT ![c] = <<>>]
    /\ UNCHANGED <<backendVars, state, dirty, notifierVars, todo, dropped, capVars, handler,
                   held, stop, events, closed, clientVars, crashed>>

LeaveServer(c) ==
    /\ ~crashed /\ producer[c]["server"] = "leave"
    /\ producer' = [producer EXCEPT ![c]["server"] = "done"]
    /\ wg' = [wg EXCEPT ![c] = @ - 1]
    /\ capSubs' = capSubs \ {c} /\ capQueue' = [capQueue EXCEPT ![c] = 0]
    /\ UNCHANGED <<managerVars, caps, handler, held, stop, events, closed, clientVars, crashed>>

-----------------------------------------------------------------------------
BackendStep(k) == ReadBackend(k) \/ StoreState(k) \/ NotifySubscribers(k)

NotifierStep ==
    \/ TakeMark \/ FindNothingNew \/ BeginRange \/ SendToSubscriber \/ EndRange
    \/ \E c \in Clients : LoadSubscriber(c)

HandlerStep(c) ==
    SubscribeServer(c) \/ SubscribeNetwork(c) \/ Hello(c) \/ WriteEvent(c) \/ CloseEvents(c)

ProducerStep(c) ==
    \/ TakeInitial(c) \/ TakeState(c) \/ TakeInfo(c) \/ LeaveNetwork(c) \/ LeaveServer(c)
    \/ \E s \in Services : SendEvent(c, s) \/ SeeStop(c, s)

Next ==
    \/ \E k \in Callbacks : NetworkChanges(k) \/ BackendStep(k)
    \/ NotifierStep \/ CapabilitiesChange
    \/ \E c \in Clients : HandlerStep(c) \/ ProducerStep(c) \/ Disconnect(c)

Spec == Init /\ [][Next]_vars

\* Goroutines are scheduled and the timer fires; a client that is there reads.
\* Nothing makes the network or the capabilities change, or a client subscribe or leave.
Fairness ==
    /\ \A k \in Callbacks : WF_vars(BackendStep(k))
    /\ WF_vars(FindNothingNew \/ BeginRange \/ EndRange \/ SendToSubscriber)
    /\ WF_vars(TakeMark)
    /\ \A c \in Clients :
         /\ WF_vars(LoadSubscriber(c))
         /\ WF_vars(SubscribeNetwork(c) \/ Hello(c) \/ WriteEvent(c))
         /\ WF_vars(CloseEvents(c))
         /\ WF_vars(TakeInitial(c) \/ TakeState(c) \/ SendEvent(c, "network"))
         /\ WF_vars(TakeInfo(c) \/ SendEvent(c, "server"))
         /\ WF_vars(SeeStop(c, "network") \/ LeaveNetwork(c))
         /\ WF_vars(SeeStop(c, "server") \/ LeaveServer(c))

FairSpec == Spec /\ Fairness

-----------------------------------------------------------------------------
ManagerTypeOK ==
    /\ net \in Values /\ state \in Values /\ snapshot \in Values
    /\ callback \in [Callbacks -> {"idle", "called", "read", "stored"}]
    /\ got \in [Callbacks -> Values]
    /\ dirty \in BOOLEAN /\ crashed \in BOOLEAN
    /\ notifier \in {"idle", "pending", "range"}
    /\ todo \subseteq Clients /\ target \in Clients \cup {NoClient}
    /\ last \in Values \cup {NoValue}
    /\ subs \subseteq Clients /\ capSubs \subseteq Clients /\ dropped \subseteq Clients
    /\ changes \in 0 .. MaxChanges /\ caps \in 0 .. MaxCaps

ChannelTypeOK ==
    /\ queue \in [Clients -> Seq(Values)]
    /\ \A c \in Clients : Len(queue[c]) <= SubCap
    /\ events \in [Clients -> Seq(Items)]
    /\ \A c \in Clients : Len(events[c]) <= EventCap
    /\ capQueue \in [Clients -> 0 .. SubCap]

SessionTypeOK ==
    /\ handler \in [Clients -> {"new", "network", "hello", "loop", "returned"}]
    /\ producer \in [Clients -> [Services ->
                        {"none", "initial", "wait", "send", "leave", "done"}]]
    /\ held \in [Clients -> [Services -> Values \cup {NoValue}]]
    /\ wg \in [Clients -> 0 .. 2]
    /\ stop \in [Clients -> BOOLEAN] /\ closed \in [Clients -> BOOLEAN]
    /\ link \in [Clients -> BOOLEAN]
    /\ view \in [Clients -> Values \cup {NoValue}]
    /\ updates \in [Clients -> 0 .. 2]

TypeOK == ManagerTypeOK /\ ChannelTypeOK /\ SessionTypeOK

\* No change is lost between the manager and its notifier: while the state
\* differs from the one notified last, or from the one being sent, a mark is
\* in the channel, the timer runs or a callback is about to leave a mark.
Announced == dirty \/ \E k \in Callbacks : callback[k] = "stored"
NoLostChange ==
    /\ (notifier = "idle" /\ last # NoValue /\ last # state) => Announced
    /\ (notifier = "range" /\ snapshot # state) => Announced

\* eventChan is closed only when both producers have unsubscribed and ended:
\* nobody can send on it any more.
ClosedAfterProducers ==
    \A c \in Clients : closed[c] =>
        /\ \A s \in Services : producer[c][s] = "done"
        /\ c \notin subs /\ c \notin capSubs

\* Once a write has failed, the whole session is taken down: both producers
\* unsubscribe and end, even one that was blocked on a full eventChan, and
\* eventChan is closed (or the daemon has panicked).
SessionEnds ==
    \A c \in Clients : handler[c] = "returned" ~> (closed[c] \/ crashed)

\* A client that has had an update of the notifier after its initial state is
\* never left with an outdated one, unless its channel overflowed: however the
\* changes race with the notifier, it gets the state the manager settles on.
ClientCatchesUp ==
    \A c \in Clients, v \in Values :
        (state = v /\ updates[c] = 2) ~>
            (view[c] = v \/ state # v \/ ~link[c] \/ c \in dropped \/ crashed)

\* Nothing is under way between the network and a client that is there.
Settled(c) ==
    /\ handler[c] = "loop" /\ link[c] /\ ~crashed /\ c \notin dropped
    /\ \A k \in Callbacks : callback[k] = "idle"
    /\ ~dirty /\ notifier = "idle"
    /\ queue[c] = <<>> /\ events[c] = <<>> /\ producer[c]["network"] = "wait"

\* "State updates are sent whenever network configuration changes"
\* (network/API.md): when nothing is under way, a client that is there and
\* whose channel did not overflow has been sent the network's state.
UpdatesAreSent == \A c \in Clients : Settled(c) => view[c] = net
=============================================================================
