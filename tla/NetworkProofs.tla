--------------------------- MODULE NetworkProofs ----------------------------
(***************************************************************************)
(* Proofs about the network manager, for any connections, callbacks, states,*)
(* capacities, networks and attempts: the broadcast of its state with the  *)
(* sessions that it feeds, the connection attempts of its iwd backend, and *)
(* the two together.                                                       *)
(***************************************************************************)
EXTENDS MCNetwork, TLAPS

-----------------------------------------------------------------------------
(***************************************************************************)
(* StateBroadcast.  NoLostChange is inductive once TypeOK is known;        *)
(* ClosedAfterProducers needs SessionInv, which says what the wait group   *)
(* counts and which producers a handler has started.                       *)
(***************************************************************************)

Running == {"initial", "wait", "send", "leave"}

\* The wait group counts the producers that run.
Count(p) == IF p \in Running THEN 1 ELSE 0
WaitGroup(c) == wg[c] = Count(producer[c]["server"]) + Count(producer[c]["network"])

\* A producer is started exactly once, by the step of the handler that names it.
Started(c) ==
    /\ handler[c] # "new" <=> producer[c]["server"] # "none"
    /\ handler[c] \notin {"new", "network"} <=> producer[c]["network"] # "none"
    /\ producer[c]["server"] # "initial"

\* A producer that has ended has unsubscribed.
Unsubscribed(c) ==
    /\ producer[c]["server"] = "done" => c \notin capSubs
    /\ producer[c]["network"] = "done" => c \notin subs

\* eventChan is closed after the two producers.
Closed(c) == closed[c] => \A s \in Services : producer[c][s] = "done"

SessionInv(c) == WaitGroup(c) /\ Started(c) /\ Unsubscribed(c) /\ Closed(c)

-----------------------------------------------------------------------------
LEMMA SeqFacts ==
    ASSUME NEW S, NEW s \in Seq(S)
    PROVE  /\ Len(s) \in Nat
           /\ \A e \in S : Append(s, e) \in Seq(S) /\ Len(Append(s, e)) = Len(s) + 1
           /\ s # <<>> => Head(s) \in S /\ Tail(s) \in Seq(S) /\ Len(Tail(s)) = Len(s) - 1
OBVIOUS

LEMMA NestedUpdate ==
    ASSUME NEW C, NEW S, NEW T, NEW f \in [C -> [S -> T]], NEW c \in C, NEW s \in S, NEW x \in T
    PROVE  [f EXCEPT ![c][s] = x] \in [C -> [S -> T]]
OBVIOUS

LEMMA Bounds ==
    /\ SubCap \in Nat /\ SubCap > 0 /\ EventCap \in Nat /\ EventCap > 0
    /\ MaxChanges \in Nat /\ MaxCaps \in Nat
BY BoundsAssumption

LEMMA TypeInit == Init => TypeOK
<1> SUFFICES ASSUME Init PROVE TypeOK
  OBVIOUS
<1>1. ManagerTypeOK
  <2>1. callback \in [Callbacks -> {"idle", "called", "read", "stored"}]
    BY DEF Init
  <2>2. got \in [Callbacks -> Values]
    BY DEF Init
  <2>3. /\ net \in Values /\ state \in Values /\ snapshot \in Values
        /\ dirty \in BOOLEAN /\ crashed \in BOOLEAN
        /\ notifier = "idle" /\ last = NoValue
    BY DEF Init
  <2>4. /\ todo = {} /\ target = NoClient /\ subs = {} /\ capSubs = {} /\ dropped = {}
        /\ changes = 0 /\ caps = 0
    BY DEF Init
  <2> QED
    BY <2>1, <2>2, <2>3, <2>4, Bounds DEF ManagerTypeOK
<1>2. ChannelTypeOK
  BY Bounds DEF Init, ChannelTypeOK
<1>3. SessionTypeOK
  BY DEF Init, SessionTypeOK, Services
<1> QED
  BY <1>1, <1>2, <1>3 DEF TypeOK

\* The variables of the manager stay in their types.
LEMMA ManagerTypeStep == ManagerTypeOK /\ ChannelTypeOK /\ [Next]_vars => ManagerTypeOK'
<1> SUFFICES ASSUME ManagerTypeOK, ChannelTypeOK, [Next]_vars PROVE ManagerTypeOK'
  OBVIOUS
<1> USE Bounds DEF ManagerTypeOK, backendVars, notifierVars, managerVars, capVars,
        sessionVars, clientVars
<1>1. ASSUME NEW k \in Callbacks, NetworkChanges(k) PROVE ManagerTypeOK'
  BY <1>1 DEF NetworkChanges
<1>2. ASSUME NEW k \in Callbacks, BackendStep(k) PROVE ManagerTypeOK'
  BY <1>2 DEF BackendStep, ReadBackend, StoreState, NotifySubscribers, MarkDirty
<1>3. ASSUME NotifierStep PROVE ManagerTypeOK'
  BY <1>3 DEF NotifierStep, TakeMark, FindNothingNew, BeginRange, SendToSubscriber, EndRange,
              LoadSubscriber
<1>4. ASSUME CapabilitiesChange PROVE ManagerTypeOK'
  BY <1>4 DEF CapabilitiesChange
<1>5. ASSUME NEW c \in Clients, HandlerStep(c) PROVE ManagerTypeOK'
  BY <1>5 DEF HandlerStep, SubscribeServer, SubscribeNetwork, Hello, WriteEvent, CloseEvents
<1>6. ASSUME NEW c \in Clients, ProducerStep(c) PROVE ManagerTypeOK'
  BY <1>6 DEF ProducerStep, TakeInitial, TakeState, TakeInfo, SendEvent, SeeStop, LeaveNetwork,
              LeaveServer
<1>7. ASSUME NEW c \in Clients, Disconnect(c) PROVE ManagerTypeOK'
  BY <1>7 DEF Disconnect
<1>8. CASE UNCHANGED vars
  BY <1>8 DEF vars
<1> QED
  BY <1>1, <1>2, <1>3, <1>4, <1>5, <1>6, <1>7, <1>8 DEF Next

\* No channel holds more than its capacity, or anything of the wrong type.
LEMMA ChannelTypeStep == TypeOK /\ [Next]_vars => ChannelTypeOK'
<1> SUFFICES ASSUME ManagerTypeOK, ChannelTypeOK, SessionTypeOK, [Next]_vars PROVE ChannelTypeOK'
  BY DEF TypeOK
<1> USE Bounds DEF ChannelTypeOK, backendVars, notifierVars, managerVars, capVars,
        sessionVars, clientVars
<1>q. \A c \in Clients : queue[c] \in Seq(Values) /\ events[c] \in Seq(Items)
  OBVIOUS
<1>1. ASSUME NEW k \in Callbacks, NetworkChanges(k) \/ BackendStep(k) PROVE ChannelTypeOK'
  BY <1>1 DEF NetworkChanges, BackendStep, ReadBackend, StoreState, NotifySubscribers
<1>2. ASSUME SendToSubscriber PROVE ChannelTypeOK'
  <2>1. CASE target \in subs /\ Len(queue[target]) < SubCap
    <3>1. target \in Clients /\ snapshot \in Values
      BY <2>1 DEF ManagerTypeOK
    <3>2. queue' = [queue EXCEPT ![target] = Append(queue[target], snapshot)]
      BY <1>2, <2>1 DEF SendToSubscriber
    <3>3. /\ Append(queue[target], snapshot) \in Seq(Values)
          /\ Len(Append(queue[target], snapshot)) <= SubCap
      BY <1>q, <2>1, <3>1, SeqFacts
    <3>4. queue' \in [Clients -> Seq(Values)] /\ \A c \in Clients : Len(queue'[c]) <= SubCap
      BY <3>1, <3>2, <3>3
    <3> QED
      BY <1>2, <3>4 DEF SendToSubscriber
  <2>2. CASE ~(target \in subs /\ Len(queue[target]) < SubCap)
    BY <1>2, <2>2 DEF SendToSubscriber
  <2> QED
    BY <2>1, <2>2
<1>3. ASSUME NotifierStep, ~SendToSubscriber PROVE ChannelTypeOK'
  BY <1>3 DEF NotifierStep, TakeMark, FindNothingNew, BeginRange, EndRange, LoadSubscriber
<1>4. ASSUME CapabilitiesChange PROVE ChannelTypeOK'
  BY <1>4 DEF CapabilitiesChange
<1>5. ASSUME NEW c \in Clients, WriteEvent(c) PROVE ChannelTypeOK'
  <2>1. Tail(events[c]) \in Seq(Items) /\ Len(Tail(events[c])) <= EventCap
    BY <1>5, <1>q, SeqFacts DEF WriteEvent
  <2>2. events' = [events EXCEPT ![c] = Tail(events[c])]
    BY <1>5 DEF WriteEvent
  <2>3. events' \in [Clients -> Seq(Items)] /\ \A d \in Clients : Len(events'[d]) <= EventCap
    BY <2>1, <2>2
  <2> QED
    BY <1>5, <2>3 DEF WriteEvent
<1>6. ASSUME NEW c \in Clients, HandlerStep(c), ~WriteEvent(c) PROVE ChannelTypeOK'
  BY <1>6 DEF HandlerStep, SubscribeServer, SubscribeNetwork, Hello, CloseEvents
<1>7. ASSUME NEW c \in Clients, NEW s \in Services, SendEvent(c, s) PROVE ChannelTypeOK'
  <2> DEFINE item == [service |-> s, value |-> held[c][s]]
  <2>1. item \in Items
    BY DEF Items, SessionTypeOK
  <2>2. /\ Append(events[c], item) \in Seq(Items)
        /\ Len(Append(events[c], item)) <= EventCap
    BY <1>7, <1>q, <2>1, SeqFacts DEF SendEvent
  <2>3. events' = [events EXCEPT ![c] = Append(events[c], item)]
    BY <1>7 DEF SendEvent
  <2>4. events' \in [Clients -> Seq(Items)] /\ \A d \in Clients : Len(events'[d]) <= EventCap
    BY <2>2, <2>3
  <2> QED
    BY <1>7, <2>4 DEF SendEvent
<1>8. ASSUME NEW c \in Clients, TakeState(c) PROVE ChannelTypeOK'
  <2>1. Tail(queue[c]) \in Seq(Values) /\ Len(Tail(queue[c])) <= SubCap
    BY <1>8, <1>q, SeqFacts DEF TakeState
  <2>2. queue' = [queue EXCEPT ![c] = Tail(queue[c])]
    BY <1>8 DEF TakeState
  <2>3. queue' \in [Clients -> Seq(Values)] /\ \A d \in Clients : Len(queue'[d]) <= SubCap
    BY <2>1, <2>2
  <2> QED
    BY <1>8, <2>3 DEF TakeState
<1>9. ASSUME NEW c \in Clients, LeaveNetwork(c) PROVE ChannelTypeOK'
  <2>1. <<>> \in Seq(Values) /\ Len(<<>>) = 0
    OBVIOUS
  <2>2. queue' = [queue EXCEPT ![c] = <<>>] /\ UNCHANGED <<events, capQueue>>
    BY <1>9 DEF LeaveNetwork
  <2> QED
    BY <2>1, <2>2
<1>13. ASSUME NEW c \in Clients, LeaveServer(c) \/ TakeInfo(c) \/ TakeInitial(c)
       PROVE  ChannelTypeOK'
  BY <1>13 DEF LeaveServer, TakeInfo, TakeInitial
<1>10. ASSUME NEW c \in Clients, NEW s \in Services, SeeStop(c, s) PROVE ChannelTypeOK'
  BY <1>10 DEF SeeStop
<1>11. ASSUME NEW c \in Clients, Disconnect(c) PROVE ChannelTypeOK'
  BY <1>11 DEF Disconnect
<1>12. CASE UNCHANGED vars
  BY <1>12 DEF vars
<1> QED
  BY <1>1, <1>2, <1>3, <1>4, <1>5, <1>6, <1>7, <1>8, <1>9, <1>10, <1>11, <1>12, <1>13
     DEF Next, ProducerStep

\* The handlers and producers stay in their types; wg needs SessionInv, which
\* bounds it.
LEMMA SessionTypeStep ==
    TypeOK /\ (\A c \in Clients : SessionInv(c)) /\ [Next]_vars => SessionTypeOK'
<1> SUFFICES ASSUME TypeOK, \A c \in Clients : SessionInv(c), [Next]_vars PROVE SessionTypeOK'
  OBVIOUS
<1>t. ManagerTypeOK /\ ChannelTypeOK /\ SessionTypeOK
  BY DEF TypeOK
<1>w. \A c \in Clients : WaitGroup(c) /\ Started(c) /\ wg[c] \in Nat
  BY <1>t DEF SessionInv, SessionTypeOK
<1> DEFINE PStates == {"none", "initial", "wait", "send", "leave", "done"}
<1> USE DEF SessionTypeOK, Services
<1>1. ASSUME NEW c \in Clients, SubscribeServer(c) PROVE SessionTypeOK'
  <2>1. wg[c] = 0
    BY <1>1, <1>w DEF SubscribeServer, WaitGroup, Started, Count, Running
  <2> QED
    BY <1>t, <1>1, <2>1 DEF SubscribeServer, clientVars
<1>2. ASSUME NEW c \in Clients, SubscribeNetwork(c) PROVE SessionTypeOK'
  <2>1. wg[c] \in 0 .. 1
    BY <1>2, <1>w DEF SubscribeNetwork, WaitGroup, Started, Count, Running
  <2> QED
    BY <1>t, <1>2, <2>1 DEF SubscribeNetwork, CountNetwork, clientVars
<1>3. ASSUME NEW c \in Clients, Hello(c) \/ CloseEvents(c) PROVE SessionTypeOK'
  BY <1>t, <1>3 DEF Hello, GiveUp, CloseEvents, clientVars
<1>4. ASSUME NEW c \in Clients, WriteEvent(c) PROVE SessionTypeOK'
  <2>1. Head(events[c]) \in Items
    BY <1>t, <1>4, SeqFacts DEF WriteEvent, ChannelTypeOK
  <2>2. Head(events[c]).value \in Values \cup {NoValue}
    BY <2>1 DEF Items
  <2>3. updates' \in [Clients -> 0 .. 2] /\ view' \in [Clients -> Values \cup {NoValue}]
    <3>1. updates \in [Clients -> 0 .. 2] /\ view \in [Clients -> Values \cup {NoValue}]
      BY <1>t
    <3>2. \/ UNCHANGED <<view, updates>>
          \/ /\ view' = [view EXCEPT ![c] = Head(events[c]).value]
             /\ updates' = [updates EXCEPT ![c] = IF updates[c] = 2 THEN 2 ELSE updates[c] + 1]
      BY <1>4 DEF WriteEvent, Deliver
    <3>3. (IF updates[c] = 2 THEN 2 ELSE updates[c] + 1) \in 0 .. 2
      BY <3>1
    <3> QED
      BY <2>2, <3>1, <3>2, <3>3
  <2>4. handler' \in [Clients -> {"new", "network", "hello", "loop", "returned"}]
        /\ stop' \in [Clients -> BOOLEAN]
    BY <1>t, <1>4 DEF WriteEvent, GiveUp
  <2> QED
    BY <1>t, <1>4, <2>3, <2>4 DEF WriteEvent
<1>5. ASSUME NEW c \in Clients, TakeInitial(c) \/ TakeInfo(c) PROVE SessionTypeOK'
  <2>1. /\ [producer EXCEPT ![c]["network"] = "send"] \in [Clients -> [Services -> PStates]]
        /\ [producer EXCEPT ![c]["server"] = "send"] \in [Clients -> [Services -> PStates]]
    BY <1>t, NestedUpdate
  <2>2. [held EXCEPT ![c]["network"] = state] \in [Clients -> [Services -> Values \cup {NoValue}]]
    BY <1>t, NestedUpdate DEF ManagerTypeOK
  <2> QED
    BY <1>t, <1>5, <2>1, <2>2 DEF TakeInitial, TakeInfo, clientVars
<1>6. ASSUME NEW c \in Clients, TakeState(c) PROVE SessionTypeOK'
  <2>1. Head(queue[c]) \in Values
    BY <1>t, <1>6, SeqFacts DEF TakeState, ChannelTypeOK
  <2>2. [producer EXCEPT ![c]["network"] = "send"] \in [Clients -> [Services -> PStates]]
    BY <1>t, NestedUpdate
  <2>3. [held EXCEPT ![c]["network"] = Head(queue[c])]
            \in [Clients -> [Services -> Values \cup {NoValue}]]
    BY <1>t, <2>1, NestedUpdate
  <2> QED
    BY <1>t, <1>6, <2>2, <2>3 DEF TakeState, clientVars
<1>7. ASSUME NEW c \in Clients, NEW s \in Services, SendEvent(c, s) \/ SeeStop(c, s)
      PROVE  SessionTypeOK'
  <2>1. /\ [producer EXCEPT ![c][s] = "wait"] \in [Clients -> [Services -> PStates]]
        /\ [producer EXCEPT ![c][s] = "leave"] \in [Clients -> [Services -> PStates]]
    BY <1>t, NestedUpdate
  <2>2. [held EXCEPT ![c][s] = NoValue] \in [Clients -> [Services -> Values \cup {NoValue}]]
    BY <1>t, NestedUpdate
  <2> QED
    BY <1>t, <1>7, <2>1, <2>2 DEF SendEvent, SeeStop, clientVars
<1>8. ASSUME NEW c \in Clients, LeaveNetwork(c) \/ LeaveServer(c) PROVE SessionTypeOK'
  <2>1. wg[c] \in 1 .. 2
    BY <1>t, <1>8, <1>w DEF LeaveNetwork, LeaveServer, WaitGroup, Count, Running
  <2>2. /\ [producer EXCEPT ![c]["network"] = "done"] \in [Clients -> [Services -> PStates]]
        /\ [producer EXCEPT ![c]["server"] = "done"] \in [Clients -> [Services -> PStates]]
    BY <1>t, NestedUpdate
  <2>3. [wg EXCEPT ![c] = wg[c] - 1] \in [Clients -> 0 .. 2]
    BY <1>t, <2>1
  <2>4. /\ wg' = [wg EXCEPT ![c] = wg[c] - 1]
        /\ \/ producer' = [producer EXCEPT ![c]["network"] = "done"]
           \/ producer' = [producer EXCEPT ![c]["server"] = "done"]
        /\ UNCHANGED <<handler, held, stop, closed, link, view, updates>>
    BY <1>8 DEF LeaveNetwork, LeaveServer, clientVars
  <2> QED
    BY <1>t, <2>2, <2>3, <2>4
<1>9. ASSUME NEW c \in Clients, Disconnect(c) PROVE SessionTypeOK'
  BY <1>t, <1>9 DEF Disconnect, sessionVars
<1>10. ASSUME NEW k \in Callbacks, NetworkChanges(k) \/ BackendStep(k) PROVE SessionTypeOK'
  BY <1>t, <1>10 DEF NetworkChanges, BackendStep, ReadBackend, StoreState, NotifySubscribers,
                     sessionVars, clientVars
<1>11. ASSUME NotifierStep \/ CapabilitiesChange PROVE SessionTypeOK'
  BY <1>t, <1>11 DEF NotifierStep, TakeMark, FindNothingNew, BeginRange, SendToSubscriber,
                     EndRange, LoadSubscriber, CapabilitiesChange, sessionVars, clientVars
<1>12. CASE UNCHANGED vars
  BY <1>t, <1>12 DEF vars, sessionVars, clientVars
<1> QED
  BY <1>1, <1>2, <1>3, <1>4, <1>5, <1>6, <1>7, <1>8, <1>9, <1>10, <1>11, <1>12
     DEF Next, HandlerStep, ProducerStep

-----------------------------------------------------------------------------
LEMMA SessionInit == Init => \A c \in Clients : SessionInv(c)
<1> SUFFICES ASSUME Init, NEW c \in Clients PROVE SessionInv(c)
  OBVIOUS
<1>1. /\ handler[c] = "new" /\ wg[c] = 0 /\ ~closed[c]
      /\ producer[c]["server"] = "none" /\ producer[c]["network"] = "none"
  BY DEF Init, Services
<1> QED
  BY <1>1 DEF SessionInv, WaitGroup, Started, Unsubscribed, Closed, Count, Running

\* What a step that is not c's own leaves alone keeps c's invariant.
LEMMA SessionFrame ==
    ASSUME NEW c \in Clients, SessionInv(c),
           handler'[c] = handler[c], producer'[c] = producer[c], wg'[c] = wg[c],
           closed'[c] = closed[c], c \in subs' => c \in subs, c \in capSubs' => c \in capSubs
    PROVE  SessionInv(c)'
BY DEF SessionInv, WaitGroup, Started, Unsubscribed, Closed, Count, Running, Services

LEMMA SessionStep ==
    TypeOK /\ (\A c \in Clients : SessionInv(c)) /\ [Next]_vars
        => \A c \in Clients : SessionInv(c)'
<1> SUFFICES ASSUME TypeOK, \A c \in Clients : SessionInv(c), [Next]_vars, NEW d \in Clients
             PROVE  SessionInv(d)'
  OBVIOUS
<1>t. SessionTypeOK /\ SessionInv(d)
  BY DEF TypeOK
<1>u. /\ handler \in [Clients -> {"new", "network", "hello", "loop", "returned"}]
      /\ producer \in [Clients -> [Services ->
                        {"none", "initial", "wait", "send", "leave", "done"}]]
      /\ wg \in [Clients -> 0 .. 2] /\ closed \in [Clients -> BOOLEAN]
      /\ stop \in [Clients -> BOOLEAN]
  BY <1>t DEF SessionTypeOK
<1> USE DEF Services
<1>1. ASSUME NEW c \in Clients, c # d, HandlerStep(c) \/ ProducerStep(c) \/ Disconnect(c)
      PROVE  SessionInv(d)'
  <2>1. /\ handler'[d] = handler[d] /\ producer'[d] = producer[d] /\ wg'[d] = wg[d]
        /\ closed'[d] = closed[d] /\ (d \in subs' => d \in subs)
        /\ (d \in capSubs' => d \in capSubs)
    BY <1>1, <1>u DEF HandlerStep, ProducerStep, Disconnect, SubscribeServer, SubscribeNetwork,
         Hello, GiveUp, WriteEvent, CloseEvents, TakeInitial, TakeState, TakeInfo, SendEvent,
         SeeStop, LeaveNetwork, LeaveServer, CountNetwork, managerVars, capVars, sessionVars
  <2> QED
    BY <1>t, <2>1, SessionFrame
<1>2. ASSUME \/ NotifierStep \/ CapabilitiesChange \/ Disconnect(d) \/ UNCHANGED vars
             \/ \E k \in Callbacks : NetworkChanges(k) \/ BackendStep(k)
      PROVE  SessionInv(d)'
  <2>1. /\ UNCHANGED <<handler, producer, wg, closed>>
        /\ (d \in subs' => d \in subs) /\ (d \in capSubs' => d \in capSubs)
    BY <1>2 DEF NotifierStep, TakeMark, FindNothingNew, BeginRange, SendToSubscriber, EndRange,
         LoadSubscriber, CapabilitiesChange, Disconnect, NetworkChanges, BackendStep,
         ReadBackend, StoreState, NotifySubscribers, vars, managerVars, capVars, sessionVars
  <2> QED
    BY <1>t, <2>1, SessionFrame
<1>3. ASSUME SubscribeServer(d) PROVE SessionInv(d)'
  BY <1>3, <1>t, <1>u DEF SubscribeServer, SessionInv, WaitGroup, Started, Unsubscribed, Closed,
                          Count, Running, managerVars, backendVars
<1>4. ASSUME SubscribeNetwork(d) PROVE SessionInv(d)'
  BY <1>4, <1>t, <1>u DEF SubscribeNetwork, CountNetwork, SessionInv, WaitGroup, Started,
                          Unsubscribed, Closed, Count, Running, capVars
<1>5. ASSUME Hello(d) \/ WriteEvent(d) PROVE SessionInv(d)'
  BY <1>5, <1>t, <1>u DEF Hello, WriteEvent, GiveUp, SessionInv, WaitGroup, Started,
                          Unsubscribed, Closed, Count, Running, managerVars, capVars
<1>6. ASSUME CloseEvents(d) PROVE SessionInv(d)'
  <2>1. producer[d]["server"] = "done" /\ producer[d]["network"] = "done"
    BY <1>6, <1>t, <1>u DEF CloseEvents, SessionInv, WaitGroup, Started, Count, Running
  <2> QED
    BY <1>6, <1>t, <1>u, <2>1 DEF CloseEvents, SessionInv, WaitGroup, Started, Unsubscribed,
                                  Closed, Count, Running, managerVars, capVars
<1>7. ASSUME TakeInitial(d) \/ TakeState(d) \/ TakeInfo(d) PROVE SessionInv(d)'
  BY <1>7, <1>t, <1>u DEF TakeInitial, TakeState, TakeInfo, SessionInv, WaitGroup, Started,
                          Unsubscribed, Closed, Count, Running, managerVars, capVars
<1>8. ASSUME NEW s \in Services, SendEvent(d, s) \/ SeeStop(d, s) PROVE SessionInv(d)'
  BY <1>8, <1>t, <1>u DEF SendEvent, SeeStop, Stoppable, SessionInv, WaitGroup, Started,
                          Unsubscribed, Closed, Count, Running, managerVars, capVars
<1>9. ASSUME LeaveNetwork(d) \/ LeaveServer(d) PROVE SessionInv(d)'
  BY <1>9, <1>t, <1>u DEF LeaveNetwork, LeaveServer, SessionInv, WaitGroup, Started,
                          Unsubscribed, Closed, Count, Running, managerVars, capVars
<1> QED
  BY <1>1, <1>2, <1>3, <1>4, <1>5, <1>6, <1>7, <1>8, <1>9 DEF Next, HandlerStep, ProducerStep

-----------------------------------------------------------------------------
SysInv == TypeOK /\ \A c \in Clients : SessionInv(c)

LEMMA SysInvariant == Spec => []SysInv
<1>1. Init => SysInv
  BY TypeInit, SessionInit DEF SysInv
<1>2. SysInv /\ [Next]_vars => SysInv'
  <2> SUFFICES ASSUME SysInv, [Next]_vars PROVE SysInv'
    OBVIOUS
  <2>1. TypeOK'
    BY ManagerTypeStep, ChannelTypeStep, SessionTypeStep DEF SysInv, TypeOK
  <2>2. \A c \in Clients : SessionInv(c)'
    BY SessionStep DEF SysInv
  <2> QED
    BY <2>1, <2>2 DEF SysInv
<1> QED
  BY <1>1, <1>2, PTL DEF Spec

\* Whatever the connections, the callbacks and the capacities: no channel
\* overflows, the wait group never goes below zero, and so on (network
\* manager and handleSubscribe).
THEOREM TypeCorrect == Spec => []TypeOK
<1>1. SysInv => TypeOK
  BY DEF SysInv
<1> QED
  BY <1>1, SysInvariant, PTL

\* eventChan is closed only when both producers of the connection have ended
\* and unsubscribed: no send on the closed channel (handleSubscribe's wg).
THEOREM ProducersEndFirst == Spec => []ClosedAfterProducers
<1>1. SysInv => ClosedAfterProducers
  BY DEF SysInv, SessionInv, Closed, Unsubscribed, ClosedAfterProducers, Services
<1> QED
  BY <1>1, SysInvariant, PTL

\* While the manager's state differs from what was notified, a notification
\* is due: the mark, the timer and the order of store and mark lose nothing,
\* however many callbacks race (notifier, notifySubscribers).
THEOREM ChangesAreAnnounced == Spec => []NoLostChange
<1>1. Init => NoLostChange
  BY DEF Init, NoLostChange
<1>2. TypeOK /\ NoLostChange /\ [Next]_vars => NoLostChange'
  <2> SUFFICES ASSUME TypeOK, NoLostChange, [Next]_vars PROVE NoLostChange'
    OBVIOUS
  <2>t. ManagerTypeOK
    BY DEF TypeOK
  <2>c. callback \in [Callbacks -> {"idle", "called", "read", "stored"}]
    BY <2>t DEF ManagerTypeOK
  <2> USE DEF NoLostChange, Announced
  <2>1. ASSUME NEW k \in Callbacks, NetworkChanges(k) \/ ReadBackend(k) PROVE NoLostChange'
    <3>1. \A q \in Callbacks : callback[q] = "stored" => callback'[q] = "stored"
      BY <2>1, <2>c DEF NetworkChanges, ReadBackend
    <3> QED
      BY <2>1, <3>1 DEF NetworkChanges, ReadBackend, notifierVars
  <2>2. ASSUME NEW k \in Callbacks, StoreState(k) PROVE NoLostChange'
    <3>1. callback'[k] = "stored"
      BY <2>2, <2>c DEF StoreState
    <3> QED
      BY <3>1
  <2>3. ASSUME NEW k \in Callbacks, NotifySubscribers(k) PROVE NoLostChange'
    BY <2>3 DEF NotifySubscribers, MarkDirty
  <2>4. ASSUME TakeMark PROVE NoLostChange'
    BY <2>4 DEF TakeMark
  <2>5. ASSUME FindNothingNew PROVE NoLostChange'
    BY <2>5 DEF FindNothingNew, Worthwhile
  <2>6. ASSUME BeginRange PROVE NoLostChange'
    BY <2>6 DEF BeginRange
  <2>7. ASSUME EndRange PROVE NoLostChange'
    BY <2>7 DEF EndRange, backendVars
  <2>8. ASSUME \/ SendToSubscriber \/ \E c \in Clients : LoadSubscriber(c) PROVE NoLostChange'
    BY <2>8 DEF SendToSubscriber, LoadSubscriber, backendVars
  <2>9. ASSUME \/ CapabilitiesChange \/ UNCHANGED vars
               \/ \E c \in Clients : HandlerStep(c) \/ ProducerStep(c) \/ Disconnect(c)
        PROVE  NoLostChange'
    <3>1. UNCHANGED <<callback, state, dirty, notifier, snapshot, last>>
      BY <2>9 DEF CapabilitiesChange, HandlerStep, ProducerStep, Disconnect, SubscribeServer,
           SubscribeNetwork, Hello, WriteEvent, CloseEvents, TakeInitial, TakeState, TakeInfo,
           SendEvent, SeeStop, LeaveNetwork, LeaveServer, vars, managerVars, backendVars,
           notifierVars
    <3> QED
      BY <3>1
  <2> QED
    BY <2>1, <2>2, <2>3, <2>4, <2>5, <2>6, <2>7, <2>8, <2>9
       DEF Next, BackendStep, NotifierStep
<1> QED
  BY <1>1, <1>2, TypeCorrect, PTL DEF Spec

-----------------------------------------------------------------------------
(***************************************************************************)
(* IwdAttempts.  Four goroutines race to finalize an attempt; what is shown*)
(* is cleared without a look at whom it belongs to.                        *)
(***************************************************************************)

IwdTypes ==
    /\ IwdTypeOK
    /\ attempts \in Seq(Attempt)
    /\ iwdPump \in [state : {"none", "connected", "disconnected"}, att : Nat]

\* While an abort is under way that nothing has overtaken, nothing is shown.
AbortClears == aborting # NoSsid /\ ~abortOvertaken => connecting = NoSsid

\* What is shown as being connected to has an attempt that is to end it: it is not
\* finalized, or who finalized it is about to clear what is shown, or it is stranded.
EndsWhatIsShown(i) ==
    \/ ~attempts[i].finalized \/ i \in stranded
    \/ \E f \in finalizers : f.of = i /\ f.at = "clear"
ShownIsAccounted ==
    connecting # NoSsid => \E i \in Made : attempts[i].ssid = connecting /\ EndsWhatIsShown(i)

IwdInv == IwdTypes /\ AbortClears /\ ShownIsAccounted

LEMMA IwdInitInv == IwdInit => IwdInv
<1> SUFFICES ASSUME IwdInit PROVE IwdInv
    OBVIOUS
<1>1. attempts = <<>> /\ attempts \in Seq(Attempt) /\ Made = {} /\ NoSignal.state = "none"
         /\ NoSignal.att = 0 /\ iwdPump = NoSignal
    BY DEF IwdInit, Made, NoSignal, NoAttempt
<1>2. iwdPump \in [state : {"none", "connected", "disconnected"}, att : Nat]
    BY <1>1 DEF NoSignal, NoAttempt
<1>3. 0 \in 0 .. MaxStation /\ 0 \in 0 .. MaxAborts
    BY IwdAssumption
<1>4. IwdTypes
    BY <1>1, <1>2, <1>3 DEF IwdInit, IwdTypes, IwdTypeOK, NoAttempt
<1> QED BY <1>4 DEF IwdInit, IwdInv, AbortClears, ShownIsAccounted

\* An attempt that changes keeps its network.
LEMMA AttemptChanges ==
    ASSUME IwdTypes, NEW i \in Made, NEW a \in Attempt, attempts' = [attempts EXCEPT ![i] = a]
    PROVE  /\ attempts' \in Seq(Attempt) /\ Made' = Made /\ attempts'[i] = a
           /\ \A j \in Made : j # i => attempts'[j] = attempts[j]
           /\ \A j \in Made : attempts'[j] \in Attempt
BY DEF IwdTypes, IwdTypeOK, Made

LEMMA AttemptSteps ==
    ASSUME IwdInv, NEW i \in Made, AttemptStep(i)
    PROVE  IwdInv'
<1> USE DEF IwdInv
<1>0. /\ IwdTypes /\ IwdTypeOK /\ attempts[i] \in Attempt /\ i \in AttemptIds /\ NoSsid \notin Ssids
      /\ finalizers \subseteq Finalizer
    BY IwdAssumption DEF IwdTypes, IwdTypeOK
<1>1. CASE ShowConnecting(i)
    <2> DEFINE a == [attempts[i] EXCEPT !.at = "calling"]
    <2>1. a \in Attempt /\ a.ssid = attempts[i].ssid /\ a.finalized = attempts[i].finalized
        BY <1>0 DEF Attempt
    <2>2. attempts' = [attempts EXCEPT ![i] = a]
        BY <1>0, <1>1 DEF ShowConnecting
    <2>3. /\ attempts' \in Seq(Attempt) /\ Made' = Made /\ attempts'[i] = a
          /\ \A j \in Made : attempts'[j] \in Attempt
        BY <1>0, <2>1, <2>2, AttemptChanges
    <2>4. connecting' = attempts[i].ssid /\ connecting' \in Ssids
        BY <1>0, <1>1 DEF ShowConnecting, Attempt
    <2>5. abortOvertaken' \in BOOLEAN /\ (aborting # NoSsid => abortOvertaken') /\ stranded' \subseteq Made
        BY <1>0, <1>1 DEF ShowConnecting, IwdTypeOK
    <2>6. IwdTypes'
        BY <1>0, <1>1, <2>3, <2>4, <2>5 DEF ShowConnecting, IwdTypes, IwdTypeOK, abortVars, stationVars
    <2>7. AbortClears'
        BY <1>1, <2>5 DEF ShowConnecting, AbortClears, abortVars
    <2>8. ShownIsAccounted'
        <3>1. ~attempts'[i].finalized \/ i \in stranded'
            BY <1>1, <2>1, <2>3 DEF ShowConnecting
        <3> QED BY <2>1, <2>3, <2>4, <3>1 DEF ShownIsAccounted, EndsWhatIsShown
    <2> QED BY <2>6, <2>7, <2>8
<1>2. ASSUME NEW at \in {"watching", "done"}, attempts' = [attempts EXCEPT ![i].at = at],
             finalizers' = finalizers \/ finalizers' = finalizers \cup {[of |-> i, by |-> "worker", at |-> "check"]},
             UNCHANGED <<shownVars, stationVars, abortVars, raceVars>>
      PROVE  IwdInv'
    <2> DEFINE a == [attempts[i] EXCEPT !.at = at]
    <2>1. a \in Attempt /\ a.ssid = attempts[i].ssid /\ a.finalized = attempts[i].finalized
        BY <1>0, <1>2 DEF Attempt
    <2>2. attempts' = [attempts EXCEPT ![i] = a]
        BY <1>0, <1>2
    <2>3. /\ attempts' \in Seq(Attempt) /\ Made' = Made /\ attempts'[i] = a
          /\ \A j \in Made : j # i => attempts'[j] = attempts[j]
          /\ \A j \in Made : attempts'[j] \in Attempt
        BY <1>0, <2>1, <2>2, AttemptChanges
    <2>4. finalizers' \subseteq Finalizer /\ (\A f \in finalizers' : f.of \in Made) /\ finalizers \subseteq finalizers'
        BY <1>0, <1>2 DEF Finalizer, IwdTypeOK
    <2>5. IwdTypes'
        BY <1>0, <1>2, <2>3, <2>4 DEF IwdTypes, IwdTypeOK, shownVars, abortVars, stationVars, raceVars
    <2>6. ShownIsAccounted'
        BY <1>2, <2>1, <2>3, <2>4 DEF ShownIsAccounted, EndsWhatIsShown, shownVars, raceVars
    <2> QED BY <1>2, <2>5, <2>6 DEF AbortClears, shownVars, abortVars, raceVars
<1> QED BY <1>1, <1>2 DEF AttemptStep, ConnectFails, ConnectSucceeds, WatchdogEnds, Finalize

LEMMA FinalizeSteps ==
    ASSUME IwdInv, NEW f \in finalizers, FinalizeStep(f)
    PROVE  IwdInv'
<1> USE DEF IwdInv
<1>0. /\ IwdTypes /\ IwdTypeOK /\ f \in Finalizer /\ f.of \in Made /\ attempts[f.of] \in Attempt
      /\ finalizers \subseteq Finalizer
    BY DEF IwdTypes, IwdTypeOK
<1>1. ASSUME \A g \in finalizers' : g \in finalizers \/ (g \in Finalizer /\ g.of = f.of)
      PROVE  finalizers' \subseteq Finalizer /\ \A g \in finalizers' : g.of \in Made
    BY <1>0, <1>1 DEF IwdTypeOK
<1>2. \A at \in {"sleeping", "check", "clear", "drop"} :
          [f EXCEPT !.at = at] \in Finalizer /\ [f EXCEPT !.at = at].of = f.of
             /\ [f EXCEPT !.at = at].at = at
    BY <1>0 DEF Finalizer
<1>3. \A g \in Finalized(f) : g \in Finalizer /\ g.of = f.of
    BY <1>2 DEF Finalized
<1>4. CASE Verify(f)
    <2>1. finalizers' \subseteq Finalizer /\ \A g \in finalizers' : g.of \in Made
        <3>1. \A g \in finalizers' : g \in finalizers \/ (g \in Finalizer /\ g.of = f.of)
            BY <1>2, <1>4 DEF Verify, MoveTo
        <3> QED BY <1>1, <3>1
    <2>2. \A g \in finalizers : g.at = "clear" => g \in finalizers'
        BY <1>4 DEF Verify, MoveTo
    <2>3. UNCHANGED <<shownVars, attempts, stationVars, abortVars, raceVars>>
        BY <1>4 DEF Verify
    <2> QED BY <1>0, <2>1, <2>2, <2>3 DEF IwdTypes, IwdTypeOK, AbortClears, ShownIsAccounted, EndsWhatIsShown, Made,
                shownVars, abortVars, stationVars, raceVars
<1>5. CASE CheckFinalized(f)
    <2> DEFINE a == [attempts[f.of] EXCEPT !.finalized = TRUE]
    <2>1. a \in Attempt /\ a.ssid = attempts[f.of].ssid /\ a.finalized
        BY <1>0 DEF Attempt
    <2>2. attempts' = [attempts EXCEPT ![f.of] = a]
        BY <1>0, <1>5 DEF CheckFinalized
    <2>3. /\ attempts' \in Seq(Attempt) /\ Made' = Made /\ attempts'[f.of] = a
          /\ \A j \in Made : j # f.of => attempts'[j] = attempts[j]
          /\ \A j \in Made : attempts'[j] \in Attempt
        BY <1>0, <2>1, <2>2, AttemptChanges
    <2>4. finalizers' \subseteq Finalizer /\ \A g \in finalizers' : g.of \in Made
        <3>1. \A g \in finalizers' : g \in finalizers \/ (g \in Finalizer /\ g.of = f.of)
            BY <1>2, <1>3, <1>5 DEF CheckFinalized, MoveTo
        <3> QED BY <1>1, <3>1
    <2>5. UNCHANGED <<shownVars, stationVars, abortVars, raceVars>> /\ f.at = "check"
        BY <1>5 DEF CheckFinalized
    <2>6. IwdTypes'
        BY <1>0, <2>3, <2>4, <2>5 DEF IwdTypes, IwdTypeOK, shownVars, abortVars, stationVars, raceVars
    <2>7. \A g \in finalizers : g.at = "clear" => g \in finalizers'
        BY <1>5, <2>5 DEF CheckFinalized, MoveTo
    <2>8. ~attempts[f.of].finalized => \E g \in finalizers' : g.of = f.of /\ g.at = "clear"
        BY <1>2, <1>5 DEF CheckFinalized, MoveTo
    <2>9. \A j \in Made : EndsWhatIsShown(j) => EndsWhatIsShown(j)' /\ attempts'[j].ssid = attempts[j].ssid
        BY <2>1, <2>3, <2>5, <2>7, <2>8 DEF EndsWhatIsShown, raceVars
    <2>10. ShownIsAccounted'
        BY <2>3, <2>5, <2>9 DEF ShownIsAccounted, shownVars
    <2> QED BY <2>5, <2>6, <2>10 DEF AbortClears, shownVars, abortVars, raceVars
<1>6. CASE ClearState(f)
    <2>1. finalizers' \subseteq Finalizer /\ \A g \in finalizers' : g.of \in Made
        <3>1. \A g \in finalizers' : g \in finalizers \/ (g \in Finalizer /\ g.of = f.of)
            BY <1>3, <1>6 DEF ClearState, MoveTo
        <3> QED BY <1>1, <3>1
    <2>2. connecting' = NoSsid /\ UNCHANGED <<curAttempt, attempts, stationVars, abortVars, raceVars>>
        BY <1>6 DEF ClearState
    <2> QED BY <1>0, <2>1, <2>2 DEF IwdTypes, IwdTypeOK, AbortClears, ShownIsAccounted, Made,
                abortVars, stationVars, raceVars
<1>7. CASE DropAttempt(f)
    <2>1. finalizers' \subseteq Finalizer /\ \A g \in finalizers' : g.of \in Made
        <3>1. \A g \in finalizers' : g \in finalizers \/ (g \in Finalizer /\ g.of = f.of)
            BY <1>7 DEF DropAttempt, MoveTo
        <3> QED BY <1>1, <3>1
    <2>2. \A g \in finalizers : g.at = "clear" => g \in finalizers'
        BY <1>7 DEF DropAttempt, MoveTo
    <2>3. curAttempt' \in {NoAttempt, curAttempt} /\ UNCHANGED <<connecting, attempts, stationVars, abortVars, raceVars>>
        BY <1>7 DEF DropAttempt
    <2> QED BY <1>0, <2>1, <2>2, <2>3 DEF IwdTypes, IwdTypeOK, AbortClears, ShownIsAccounted, EndsWhatIsShown, Made,
                abortVars, stationVars, raceVars
<1> QED BY <1>4, <1>5, <1>6, <1>7 DEF FinalizeStep

LEMMA OtherIwdSteps ==
    ASSUME IwdInv,
           \/ \E s \in Ssids : ConnectWiFi(s) \/ AbortShown(s)
           \/ \E sg \in {"connected", "disconnected"} : SignalArrives(sg)
           \/ SetConnectError \/ PumpConnected \/ PumpDisconnected \/ AbortAttempt \/ UNCHANGED iwdVars
    PROVE  IwdInv'
<1> USE DEF IwdInv
<1>0. /\ IwdTypes /\ IwdTypeOK /\ NoSsid \notin Ssids /\ finalizers \subseteq Finalizer
      /\ MaxAttempts \in Nat /\ MaxStation \in Nat /\ MaxAborts \in Nat
      /\ attempts \in Seq(Attempt) /\ Made = 1 .. Len(attempts) /\ Len(attempts) \in Nat
      /\ iwdPump \in [state : {"none", "connected", "disconnected"}, att : Nat]
    BY IwdAssumption DEF IwdTypes, IwdTypeOK, Made
<1>1. ASSUME NEW s \in Ssids, ConnectWiFi(s) PROVE IwdInv'
    <2> DEFINE a == [ssid |-> s, at |-> "current", finalized |-> FALSE]
               n == Len(attempts) + 1
    <2>1. a \in Attempt
        BY DEF Attempt
    <2>2. attempts' = Append(attempts, a) /\ curAttempt' = n /\ Len(attempts) < MaxAttempts
             /\ UNCHANGED <<connecting, finalizers, stationVars, abortVars, raceVars>>
        BY <1>1 DEF ConnectWiFi
    <2>3. /\ attempts' \in Seq(Attempt) /\ Made' = 1 .. n /\ Made \subseteq Made' /\ n \in Made'
          /\ \A j \in Made : attempts'[j] = attempts[j]
          /\ attempts'[n] = a
        BY <1>0, <2>1, <2>2 DEF Made
    <2>4. Made' \subseteq AttemptIds /\ \A j \in Made' : attempts'[j] \in Attempt
        BY <1>0, <2>1, <2>2, <2>3 DEF AttemptIds
    <2>5. IwdTypes'
        BY <1>0, <2>2, <2>3, <2>4 DEF IwdTypes, IwdTypeOK, abortVars, stationVars, raceVars
    <2>6. ShownIsAccounted'
        BY <2>2, <2>3 DEF ShownIsAccounted, EndsWhatIsShown, raceVars
    <2> QED BY <2>2, <2>5, <2>6 DEF AbortClears, abortVars, raceVars
<1>2. ASSUME NEW s \in Ssids, AbortShown(s) PROVE IwdInv'
    <2>1. aborted' \in 0 .. MaxAborts /\ aborted' = aborted + 1
        BY <1>0, <1>2 DEF AbortShown, IwdTypeOK
    <2> QED BY <1>0, <1>2, <2>1 DEF AbortShown, IwdTypes, IwdTypeOK, AbortClears, ShownIsAccounted, Made,
                stationVars, raceVars
<1>3. ASSUME NEW sg \in {"connected", "disconnected"}, SignalArrives(sg) PROVE IwdInv'
    <2>1. signalled' \in 0 .. MaxStation /\ curAttempt \in Nat
        BY <1>0, <1>3 DEF SignalArrives, IwdTypeOK, NoAttempt
    <2>2. iwdPump' = [state |-> sg, att |-> curAttempt]
             /\ UNCHANGED <<shownVars, attempts, finalizers, abortVars, raceVars>>
        BY <1>3 DEF SignalArrives
    <2>3. IwdTypes'
        BY <1>0, <2>1, <2>2 DEF IwdTypes, IwdTypeOK, Made, shownVars, abortVars, raceVars
    <2> QED BY <2>2, <2>3 DEF AbortClears, ShownIsAccounted, EndsWhatIsShown, Made, shownVars, abortVars, raceVars
<1>4. CASE SetConnectError
    BY <1>0, <1>4 DEF SetConnectError, IwdTypes, IwdTypeOK, AbortClears, ShownIsAccounted, Made,
        abortVars, stationVars, raceVars
<1>5. ASSUME finalizers \subseteq finalizers', finalizers' \subseteq Finalizer, \A f \in finalizers' : f.of \in Made,
             iwdPump' = NoSignal, connecting' \in {connecting, NoSsid},
             UNCHANGED <<curAttempt, attempts, signalled, abortVars, raceVars>>
      PROVE  IwdInv'
    <2>1. NoSignal.state = "none" /\ NoSignal.att = NoAttempt
             /\ NoSignal \in [state : {"none", "connected", "disconnected"}, att : Nat]
        BY DEF NoSignal, NoAttempt
    <2>2. IwdTypes'
        BY <1>0, <1>5, <2>1 DEF IwdTypes, IwdTypeOK, Made, abortVars, raceVars
    <2> QED BY <1>5, <2>2 DEF AbortClears, ShownIsAccounted, EndsWhatIsShown, Made, abortVars, raceVars
<1>6. CASE PumpConnected \/ PumpDisconnected
    <2>1. iwdPump.att # NoAttempt => /\ [of |-> iwdPump.att, by |-> "verifier", at |-> "sleeping"] \in Finalizer
                                     /\ [of |-> iwdPump.att, by |-> "pump", at |-> "check"] \in Finalizer
                                     /\ iwdPump.att \in Made
        BY <1>0 DEF Finalizer, IwdTypeOK
    <2>2. /\ finalizers \subseteq finalizers' /\ finalizers' \subseteq Finalizer
          /\ \A f \in finalizers' : f.of \in Made
        BY <1>0, <1>6, <2>1 DEF PumpConnected, PumpDisconnected, Finalize, IwdTypeOK
    <2>3. /\ iwdPump' = NoSignal /\ connecting' \in {connecting, NoSsid}
          /\ UNCHANGED <<curAttempt, attempts, signalled, abortVars, raceVars>>
        BY <1>6 DEF PumpConnected, PumpDisconnected, shownVars
    <2> QED BY <1>5, <2>2, <2>3
<1>7. CASE AbortAttempt
    <2> DEFINE hits == curAttempt # NoAttempt /\ attempts[curAttempt].ssid = aborting
    <2>1. /\ aborting # NoSsid /\ aborting' = NoSsid /\ abortOvertaken' = FALSE
          /\ UNCHANGED <<shownVars, finalizers, stationVars, aborted>>
        BY <1>7 DEF AbortAttempt
    <2>2. CASE ~hits
        <3>1. UNCHANGED <<attempts, stranded>>
            BY <1>7, <2>2 DEF AbortAttempt
        <3> QED BY <1>0, <2>1, <3>1 DEF IwdTypes, IwdTypeOK, AbortClears, ShownIsAccounted, EndsWhatIsShown, Made,
                    shownVars, stationVars
    <2>3. CASE hits
        <3> DEFINE i == curAttempt
                   a == [attempts[i] EXCEPT !.finalized = TRUE]
        <3>1. i \in Made /\ attempts[i] \in Attempt
            BY <1>0, <2>3 DEF IwdTypeOK
        <3>2. a \in Attempt /\ a.ssid = attempts[i].ssid
            BY <3>1 DEF Attempt
        <3>3. attempts' = [attempts EXCEPT ![i] = a]
            BY <1>7, <2>3, <3>1 DEF AbortAttempt
        <3>4. /\ attempts' \in Seq(Attempt) /\ Made' = Made /\ attempts'[i] = a
              /\ \A j \in Made : j # i => attempts'[j] = attempts[j]
              /\ \A j \in Made : attempts'[j] \in Attempt
            BY <1>0, <3>1, <3>2, <3>3, AttemptChanges
        <3>5. stranded' \subseteq Made /\ stranded \subseteq stranded' /\ (abortOvertaken => i \in stranded')
            BY <1>0, <1>7, <2>3, <3>1 DEF AbortAttempt, IwdTypeOK
        <3>6. IwdTypes'
            BY <1>0, <2>1, <3>4, <3>5 DEF IwdTypes, IwdTypeOK, shownVars, stationVars
        <3>7. CASE connecting = NoSsid
            BY <2>1, <3>6, <3>7 DEF AbortClears, ShownIsAccounted, shownVars
        <3>8. CASE connecting # NoSsid
            <4>1. i \in stranded'
                BY <2>1, <3>5, <3>8 DEF AbortClears
            <4>2. \A j \in Made : EndsWhatIsShown(j) => EndsWhatIsShown(j)' /\ attempts'[j].ssid = attempts[j].ssid
                BY <2>1, <3>2, <3>4, <3>5, <4>1 DEF EndsWhatIsShown
            <4>3. ShownIsAccounted'
                BY <2>1, <3>4, <4>2 DEF ShownIsAccounted, shownVars
            <4> QED BY <2>1, <3>6, <4>3 DEF AbortClears
        <3> QED BY <3>7, <3>8
    <2> QED BY <2>2, <2>3
<1>8. CASE UNCHANGED iwdVars
    BY <1>0, <1>8 DEF iwdVars, IwdTypes, IwdTypeOK, AbortClears, ShownIsAccounted, EndsWhatIsShown, Made,
        shownVars, abortVars, stationVars, raceVars
<1> QED BY <1>1, <1>2, <1>3, <1>4, <1>6, <1>7, <1>8

-----------------------------------------------------------------------------
\* Goroutines that race to finalize an attempt keep IwdInv.
THEOREM IwdInvariant == IwdSpec => []IwdInv
<1>1. IwdInv /\ [IwdNext]_iwdVars => IwdInv'
    BY AttemptSteps, FinalizeSteps, OtherIwdSteps DEF IwdNext
<1> QED BY <1>1, IwdInitInv, PTL DEF IwdSpec

\* Whatever is shown as being connected to, someone is to end it, or a finalizer overtook
\* the showing: an aborted, failed, replaced or forgotten attempt leaves nothing behind.
THEOREM ShownHasItsEnd == IwdSpec => []ShownIsAccounted
BY IwdInvariant, PTL DEF IwdInv

\* The attempts, their finalizers and the signal pump keep their types (backend_iwd*.go).
THEOREM IwdTypesHold == IwdSpec => []IwdTypeOK
BY IwdInvariant, PTL DEF IwdInv, IwdTypes

-----------------------------------------------------------------------------
(***************************************************************************)
(* The two parts in one behaviour.                                         *)
(***************************************************************************)

\* Each part of the network manager behaves as if the other were not there.
LEMMA NetworkParts == MCSpec => Spec /\ IwdSpec
<1>1. MCInit => Init /\ IwdInit
    BY DEF MCInit
<1>2. [Broadcast \/ Attempts]_<<part, vars, iwdVars>> => [Next]_vars /\ [IwdNext]_iwdVars
    BY DEF Broadcast, Attempts
<1> QED BY <1>1, <1>2, PTL DEF MCSpec, Spec, IwdSpec

\* Sessions and connection attempts together keep their types.
THEOREM NetworkTypesHold == MCSpec => []NetworkTypeOK
BY NetworkParts, TypeCorrect, IwdTypesHold, PTL DEF NetworkTypeOK
=============================================================================
