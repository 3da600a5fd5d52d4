--------------------------- MODULE CupsSubscription ---------------------------
(***************************************************************************)
(* Printer events of the CUPS manager (core/internal/server/cups:          *)
(* manager.go, subscription.go, subscription_dbus.go).                     *)
(*                                                                         *)
(* The first subscriber starts the subscription manager: its writer loop   *)
(* puts events into eventChan, the CUPS manager's event handler takes them *)
(* out.  The last subscriber stops both.  A stop is made of many steps: it *)
(* closes stopChan, joins the loop, makes a new stopChan, closes eventChan *)
(* and waits for the handler; Start makes the new eventChan.  Channels are *)
(* numbered in the order they are made; a goroutine blocked in a select    *)
(* waits on the channels it saw when it entered the select.                *)
(*                                                                         *)
(* Both subscription managers, D-Bus and IPPGET, start and stop like this. *)
(* CUPS is external: it accepts or refuses a subscription, and has events. *)
(***************************************************************************)
EXTENDS Naturals

CONSTANTS
    CupsClients,    \* the connections that subscribe to CUPS
    MaxStarts   \* bound: calls of Start that get past the running check

ASSUME StartsAssumption == MaxStarts \in Nat \ {0}

Starts == 1 .. MaxStarts
Channels == 0 .. MaxStarts

VARIABLES
    subscribers,  \* m.subscribers
    cupsClient,   \* where each client is in Subscribe or Unsubscribe
    starts,       \* how many calls of Start have got past the running check
    start,        \* the number of the last one of each client
    running,      \* sm.running
    eventChan,    \* sm.eventChan: the number of the Start that made it
    closedEvents, \* event channels that have been closed
    queued,       \* event channels with an event in their buffer
    stopChan,     \* sm.stopChan
    closedStops,  \* stop channels that have been closed
    loop,         \* where the writer loop of each Start is
    loopStop,     \* the stop channel it selects on
    eventHandler, \* where the event handler of each Start is
    handlerChan,  \* the event channel it selects on
    panic,        \* what made the daemon panic, which ends it
    overlapped    \* history: has a newcomer crossed the stop of those who left?

startVars == <<starts, start>>
smVars == <<running, eventChan, closedEvents, stopChan, closedStops>>
loopVars == <<loop, loopStop>>
handlerVars == <<eventHandler, handlerChan>>
endVars == <<panic, overlapped>>
cupsVars == <<subscribers, cupsClient, startVars, smVars, queued, loopVars, handlerVars, endVars>>

CupsInit ==
    /\ subscribers = {} /\ cupsClient = [c \in CupsClients |-> "out"]
    /\ starts = 0 /\ start = [c \in CupsClients |-> 0]
    /\ running = FALSE
    /\ eventChan = 0 /\ closedEvents = {} /\ queued = {}
    /\ stopChan = 0 /\ closedStops = {}
    /\ loop = [s \in Starts |-> "none"] /\ loopStop = [s \in Starts |-> 0]
    /\ eventHandler = [s \in Starts |-> "none"] /\ handlerChan = [s \in Starts |-> 0]
    /\ panic = "none" /\ overlapped = FALSE

MoveClient(c, from, to) ==
    /\ panic = "none" /\ cupsClient[c] = from
    /\ cupsClient' = [cupsClient EXCEPT ![c] = to]

\* Nothing holds newcomers and leavers apart: a stop is under way from the moment it has
\* set running to false until the handler is gone.
Stopping(c) == cupsClient[c] \in {"signalling", "joining", "renewing", "closing", "awaiting"}
Overlap(crossing) == overlapped' = (overlapped \/ crossing)

-----------------------------------------------------------------------------
(* Manager.Subscribe and SubscriptionManager.Start.                        *)

SubscribeLook(c) ==
    /\ MoveClient(c, "out", IF subscribers = {} THEN "storingFirst" ELSE "storing")
    /\ UNCHANGED <<subscribers, startVars, smVars, queued, loopVars, handlerVars, endVars>>

SubscribeStore(c) ==
    /\ MoveClient(c, "storing", "in") \/ MoveClient(c, "storingFirst", "starting")
    /\ subscribers' = subscribers \cup {c}
    \* The subscribers it looked at have all left since.
    /\ Overlap(cupsClient[c] = "storing" /\ subscribers = {})
    /\ UNCHANGED <<startVars, smVars, queued, loopVars, handlerVars, panic>>

FreshEventChan(s) == eventChan' = s

\* Start refuses while the subscription runs: no handler is added.
StartEnter(c) ==
    /\ IF running
         THEN /\ MoveClient(c, "starting", "in")
              /\ UNCHANGED <<startVars, running, eventChan, overlapped>>
         ELSE /\ starts < MaxStarts
              /\ starts' = starts + 1
              /\ start' = [start EXCEPT ![c] = starts + 1]
              /\ FreshEventChan(starts + 1)
              /\ MoveClient(c, "starting", "connecting")
              /\ running' = TRUE
              /\ Overlap(\E d \in CupsClients : Stopping(d))
    /\ UNCHANGED <<subscribers, closedEvents, stopChan, closedStops, queued, loopVars,
                   handlerVars, panic>>

\* The bus or CUPS refuses: the client stays subscribed, without events.
StartFail(c) ==
    /\ MoveClient(c, "connecting", "in")
    /\ running' = FALSE
    /\ UNCHANGED <<subscribers, startVars, eventChan, closedEvents, stopChan, closedStops, queued,
                   loopVars, handlerVars, endVars>>

StartLoop(c) ==
    /\ MoveClient(c, "connecting", "spawning")
    /\ loop' = [loop EXCEPT ![start[c]] = "top"]
    /\ UNCHANGED <<subscribers, startVars, smVars, queued, loopStop, handlerVars, endVars>>

StartHandler(c) ==
    /\ MoveClient(c, "spawning", "in")
    /\ eventHandler' = [eventHandler EXCEPT ![start[c]] = "top"]
    /\ UNCHANGED <<subscribers, startVars, smVars, queued, loopVars, handlerChan, endVars>>

-----------------------------------------------------------------------------
(* Manager.Unsubscribe and SubscriptionManager.Stop.                       *)

Unsubscribe(c) ==
    /\ MoveClient(c, "in", "looking")
    /\ subscribers' = subscribers \ {c}
    /\ UNCHANGED <<startVars, smVars, queued, loopVars, handlerVars, endVars>>

UnsubscribeLook(c) ==
    /\ MoveClient(c, "looking", IF subscribers = {} THEN "stopping" ELSE "out")
    /\ UNCHANGED <<subscribers, startVars, smVars, queued, loopVars, handlerVars, endVars>>

StopEnter(c) ==
    /\ MoveClient(c, "stopping", IF running THEN "signalling" ELSE "awaiting")
    /\ running' = FALSE
    /\ Overlap(running /\ subscribers # {})
    /\ UNCHANGED <<subscribers, startVars, eventChan, closedEvents, stopChan, closedStops, queued,
                   loopVars, handlerVars, panic>>

StopSignal(c) ==
    /\ MoveClient(c, "signalling", "joining")
    /\ closedStops' = closedStops \cup {stopChan}
    /\ panic' = IF stopChan \in closedStops THEN "close of closed channel" ELSE panic
    /\ UNCHANGED <<subscribers, startVars, running, eventChan, closedEvents, stopChan, queued,
                   loopVars, handlerVars, overlapped>>

LoopsJoined == \A s \in Starts : loop[s] \in {"none", "gone"}

StopJoin(c) ==
    /\ MoveClient(c, "joining", "renewing")
    /\ LoopsJoined
    /\ UNCHANGED <<subscribers, startVars, smVars, queued, loopVars, handlerVars, endVars>>

\* Mutation: the next Start finds the closed stop channel.
FreshStopChanForgotten == UNCHANGED stopChan

FreshStopChan == stopChan' = stopChan + 1

\* After the subscription has been cancelled with CUPS.
StopRenew(c) ==
    /\ MoveClient(c, "renewing", "closing")
    /\ FreshStopChan
    /\ UNCHANGED <<subscribers, startVars, running, eventChan, closedEvents, closedStops, queued,
                   loopVars, handlerVars, endVars>>

\* Mutation: the event channel is left open, as it was before it was closed here.
CloseEventChanForgotten == UNCHANGED <<closedEvents, panic>>

CloseEventChan ==
    /\ closedEvents' = closedEvents \cup {eventChan}
    /\ panic' = IF eventChan \in closedEvents THEN "close of closed channel" ELSE panic

StopClose(c) ==
    /\ MoveClient(c, "closing", "awaiting")
    /\ CloseEventChan
    /\ UNCHANGED <<subscribers, startVars, running, eventChan, stopChan, closedStops, queued,
                   loopVars, handlerVars, overlapped>>

\* m.eventWG.Wait().
StopAwait(c) ==
    /\ MoveClient(c, "awaiting", "out")
    /\ \A s \in Starts : eventHandler[s] \in {"none", "gone"}
    /\ UNCHANGED <<subscribers, startVars, smVars, queued, loopVars, handlerVars, endVars>>

CupsClientStep(c) ==
    \/ SubscribeStore(c) \/ StartEnter(c) \/ StartFail(c) \/ StartLoop(c) \/ StartHandler(c)
    \/ UnsubscribeLook(c) \/ StopEnter(c) \/ StopSignal(c) \/ StopJoin(c) \/ StopRenew(c)
    \/ StopClose(c) \/ StopAwait(c)

-----------------------------------------------------------------------------
(* dbusListenerLoop (notificationLoop) and Manager.eventHandler.           *)

LoopSelect(s) ==
    /\ panic = "none" /\ loop[s] = "top"
    /\ loop' = [loop EXCEPT ![s] = "select"]
    /\ loopStop' = [loopStop EXCEPT ![s] = stopChan]
    /\ UNCHANGED <<subscribers, cupsClient, startVars, smVars, queued, handlerVars, endVars>>

LoopStops(s) ==
    /\ panic = "none" /\ loop[s] = "select" /\ loopStop[s] \in closedStops
    /\ loop' = [loop EXCEPT ![s] = "gone"]
    /\ UNCHANGED <<subscribers, cupsClient, startVars, smVars, queued, loopStop, handlerVars,
                   endVars>>

\* CUPS has news: they are put into the event channel as it is now.
LoopEvent(s) ==
    /\ panic = "none" /\ loop[s] = "select"
    /\ loop' = [loop EXCEPT ![s] = "top"]
    /\ queued' = queued \cup ({eventChan} \ closedEvents)
    /\ panic' = IF eventChan \in closedEvents THEN "send on closed channel" ELSE panic
    /\ UNCHANGED <<subscribers, cupsClient, startVars, smVars, loopStop, handlerVars, overlapped>>

HandlerSelect(s) ==
    /\ panic = "none" /\ eventHandler[s] = "top"
    /\ eventHandler' = [eventHandler EXCEPT ![s] = "select"]
    /\ handlerChan' = [handlerChan EXCEPT ![s] = eventChan]
    /\ UNCHANGED <<subscribers, cupsClient, startVars, smVars, queued, loopVars, endVars>>

\* The handler empties the buffer before it sees that the channel is closed.
HandlerReceive(s) ==
    /\ panic = "none" /\ eventHandler[s] = "select"
    /\ IF handlerChan[s] \in queued
         THEN /\ queued' = queued \ {handlerChan[s]}
              /\ eventHandler' = [eventHandler EXCEPT ![s] = "top"]
         ELSE /\ handlerChan[s] \in closedEvents
              /\ eventHandler' = [eventHandler EXCEPT ![s] = "gone"]
              /\ UNCHANGED queued
    /\ UNCHANGED <<subscribers, cupsClient, startVars, smVars, loopVars, handlerChan, endVars>>

LoopStep(s) == LoopSelect(s) \/ LoopStops(s) \/ LoopEvent(s)
EventHandlerStep(s) == HandlerSelect(s) \/ HandlerReceive(s)

-----------------------------------------------------------------------------
CupsNext ==
    \/ \E c \in CupsClients : SubscribeLook(c) \/ Unsubscribe(c) \/ CupsClientStep(c)
    \/ \E s \in Starts : LoopStep(s) \/ EventHandlerStep(s)

CupsSpec == CupsInit /\ [][CupsNext]_cupsVars

\* Calls that have begun go on and goroutines run; nothing makes a client come or
\* go, or CUPS have events, but a loop does not overlook a closed stop channel for
\* ever: its select chooses among the ready cases at random.
CupsFairness ==
    /\ \A c \in CupsClients : WF_cupsVars(CupsClientStep(c))
    /\ \A s \in Starts :
          /\ WF_cupsVars(LoopSelect(s))
          /\ SF_cupsVars(LoopStops(s))
          /\ WF_cupsVars(EventHandlerStep(s))

CupsFairSpec == CupsSpec /\ CupsFairness

-----------------------------------------------------------------------------
\* The variables range over what the program can hold; who has left has no entry.
CupsTypeOK ==
    /\ subscribers \subseteq {c \in CupsClients : cupsClient[c] # "out"}
    /\ cupsClient \in [CupsClients -> {"out", "storing", "storingFirst", "starting", "connecting",
                               "spawning", "in", "looking", "stopping", "signalling",
                               "joining", "renewing", "closing", "awaiting"}]
    /\ starts \in Channels /\ start \in [CupsClients -> Channels] /\ running \in BOOLEAN
    /\ eventChan \in Channels /\ closedEvents \subseteq Channels /\ queued \subseteq Channels
    /\ stopChan \in Nat /\ closedStops \subseteq Nat
    /\ loop \in [Starts -> {"none", "top", "select", "gone"}]
    /\ loopStop \in [Starts -> Nat]
    /\ eventHandler \in [Starts -> {"none", "top", "select", "gone"}]
    /\ handlerChan \in [Starts -> Channels]
    /\ panic \in {"none", "close of closed channel", "send on closed channel"}
    /\ overlapped \in BOOLEAN

\* "The writer joined above, so closing is safe": no channel is closed twice and
\* none is written to once closed.
NeverPanics == panic = "none"

\* The writer and the handler of a Start are alive and meet at its open channel.
Fed(s) ==
    /\ s \notin closedEvents
    /\ loop[s] \in {"top", "select"} /\ eventHandler[s] \in {"top", "select"}
    /\ loop[s] = "select" => loopStop[s] \notin closedStops
    /\ eventHandler[s] = "select" => handlerChan[s] = s

\* Subscribers get events, whoever has come and gone before in whatever order, unless a
\* newcomer crossed a stop: when no Start is under way and the last one succeeded, all of it
\* still stands.  (In the code a crossing may end in a panic, in a subscriber without events
\* or in an Unsubscribe that never returns.)
StartUnderWay == \E c \in CupsClients : cupsClient[c] \in {"starting", "connecting", "spawning"}
SubscriberIsFed ==
    ~overlapped /\ (\E c \in CupsClients : cupsClient[c] = "in") /\ ~StartUnderWay
        => eventChan # 0 /\ (loop[eventChan] # "none" => Fed(eventChan))

\* Unsubscribe returns: the handlers it waits for see their channels closed, unless a newcomer
\* crossed the stop, and has it wait for a handler that serves him.
UnsubscribeReturns ==
    \A c \in CupsClients : cupsClient[c] = "looking" ~> cupsClient[c] = "out" \/ overlapped

=============================================================================
