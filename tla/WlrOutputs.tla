------------------------------- MODULE WlrOutputs -------------------------------
(***************************************************************************)
(* The output manager (core/internal/server/wlroutput): the heads a        *)
(* compositor with wlr-output-management announces, the state published    *)
(* from them, and the configurations clients ask for.                      *)
(*                                                                         *)
(* Three goroutines and a timer work without a common lock:                *)
(*   - the Wayland dispatcher runs the handlers of the compositor's        *)
(*     events, one at a time; they write the heads and post a command;     *)
(*   - the actor runs posted commands: it publishes a state, sends a       *)
(*     configuration, or ends one that was not answered in time;           *)
(*   - the notifier tells the subscribers a moment after a mark;           *)
(*   - each configuration has a timer of a second.                         *)
(* A command that finds the queue full is dropped.  The handlers of a      *)
(* configuration and its timeout share the plain variable `responded`.     *)
(* Of a head only whether it is enabled is kept, for all the fields that   *)
(* stateChanged compares.                                                  *)
(***************************************************************************)
EXTENDS Naturals, Sequences, FiniteSets

CONSTANTS
    Heads,          \* the outputs that may be connected
    Appliers,       \* the requests to apply or test a configuration
    MaxHeadChanges, \* bound: changes the compositor announces
    CmdqCap         \* capacity of m.wlrQueue

\* A queue filled by requests alone would drop an update for good (512 in the code).
ASSUME WlrAssumption ==
    /\ IsFiniteSet(Heads) /\ IsFiniteSet(Appliers) /\ MaxHeadChanges \in Nat
    /\ CmdqCap \in Nat /\ CmdqCap > Cardinality(Appliers)

Looks == {"absent", "unnamed", "off", "on"}
ListedLooks == {"absent", "off", "on"}
OutputStates == [heads : [Heads -> ListedLooks], serial : Nat]
Update == [do |-> "update"]
Apply(r) == [do |-> "apply", of |-> r]
Timeout(r) == [do |-> "expire", of |-> r]
Commands == {Update} \cup {Apply(r) : r \in Appliers} \cup {Timeout(r) : r \in Appliers}

VARIABLES
    heads,        \* m.heads, as the events have described them so far
    incomplete,   \* events have come since the last done event
    headSerial,   \* m.serial
    headChanges,  \* how many changes were announced
    wlrQueue,     \* m.cmdq
    wlrActor,     \* where the actor is
    headsSeen,    \* the heads it has read
    outputs,      \* m.state
    outputsDirty, \* m.dirty holds a mark
    outputsTimer, \* pending: the notifier's timer runs
    lastOutputs,  \* m.lastNotified: {} for nil
    applier,      \* where each ApplyConfiguration is
    wantedHead,   \* the head it names
    resultChan,   \* whether its channel of capacity one holds an answer
    config,       \* its configuration object
    responded,    \* the variable its closures share
    destroyed,    \* how often Destroy was called on it
    configTimer,  \* its timer of a second
    overflowed    \* history: requests one of whose commands was dropped

headVars == <<heads, incomplete, headSerial, headChanges>>
actorVars == <<wlrActor, headsSeen>>
outputVars == <<outputs, outputsDirty, outputsTimer, lastOutputs>>
callVars == <<applier, wantedHead, resultChan>>
configVars == <<config, responded, destroyed, configTimer>>
wlrVars == <<headVars, wlrQueue, actorVars, outputVars, callVars, configVars, overflowed>>

\* updateState leaves out the heads that are not ready.
Listed(h) == [i \in Heads |-> IF h[i] = "unnamed" THEN "absent" ELSE h[i]]

NoHeads == [i \in Heads |-> "absent"]

WlrInit ==
    /\ heads = NoHeads /\ incomplete = FALSE /\ headSerial = 0 /\ headChanges = 0
    /\ wlrQueue = <<>> /\ wlrActor = "idle" /\ headsSeen = NoHeads
    /\ outputs = [heads |-> NoHeads, serial |-> 0]
    /\ outputsDirty = TRUE /\ outputsTimer = FALSE /\ lastOutputs = {}
    /\ applier = [r \in Appliers |-> "idle"] /\ wantedHead \in [Appliers -> Heads]
    /\ resultChan = [r \in Appliers |-> FALSE] /\ config = [r \in Appliers |-> "none"]
    /\ responded = [r \in Appliers |-> FALSE] /\ destroyed = [r \in Appliers |-> 0]
    /\ configTimer = [r \in Appliers |-> "off"] /\ overflowed = {}

QueueRoom == Len(wlrQueue) < CmdqCap
Post(c) == wlrQueue' = IF QueueRoom THEN Append(wlrQueue, c) ELSE wlrQueue

-----------------------------------------------------------------------------
(* The dispatcher: one event at a time.                                    *)

Dispatching == \E r \in Appliers : config[r] = "answering"

\* One event about head h.
Describe(h, look) ==
    /\ ~Dispatching
    /\ heads' = [heads EXCEPT ![h] = look]
    /\ incomplete' = TRUE
    /\ UNCHANGED <<headSerial, actorVars, outputVars, callVars, configVars, overflowed>>

Announce == headChanges < MaxHeadChanges /\ headChanges' = headChanges + 1

HeadAppears(h) ==
    /\ heads[h] = "absent" /\ Announce /\ Describe(h, "unnamed")
    /\ UNCHANGED wlrQueue

HeadNamed(h) ==
    heads[h] = "unnamed" /\ Describe(h, "off") /\ Post(Update) /\ UNCHANGED headChanges

HeadEnabled(h) ==
    /\ heads[h] \in {"off", "on"} /\ Announce /\ Post(Update)
    /\ Describe(h, IF heads[h] = "off" THEN "on" ELSE "off")

HeadFinished(h) ==
    heads[h] # "absent" /\ Announce /\ Describe(h, "absent") /\ Post(Update)

HeadsDone ==
    /\ ~Dispatching /\ incomplete
    /\ incomplete' = FALSE
    /\ headSerial' = headSerial + 1
    /\ Post(Update)
    /\ UNCHANGED <<heads, headChanges, actorVars, outputVars, callVars, configVars, overflowed>>

-----------------------------------------------------------------------------
(* The actor publishes a state; the notifier tells of it.                  *)

NextCommand(c) ==
    wlrActor = "idle" /\ wlrQueue # <<>> /\ Head(wlrQueue) = c /\ wlrQueue' = Tail(wlrQueue)

ReadHeads ==
    /\ NextCommand(Update)
    /\ headsSeen' = heads
    /\ wlrActor' = "storing"
    /\ UNCHANGED <<headVars, outputVars, callVars, configVars, overflowed>>

\* The serial is read after the heads; the dispatcher writes both meanwhile.
StoreOutputs ==
    /\ wlrActor = "storing"
    /\ outputs' = [heads |-> Listed(headsSeen), serial |-> headSerial]
    /\ outputsDirty' = TRUE
    /\ wlrActor' = "idle" /\ headsSeen' = NoHeads
    /\ UNCHANGED <<headVars, wlrQueue, outputsTimer, lastOutputs, callVars, configVars,
                   overflowed>>

NotifierMarks ==
    /\ outputsDirty
    /\ outputsDirty' = FALSE /\ outputsTimer' = TRUE
    /\ UNCHANGED <<headVars, wlrQueue, actorVars, outputs, lastOutputs, callVars, configVars,
                   overflowed>>

\* Mutation: the serial is not compared.
OutputsChangedHeads == \A s \in lastOutputs : s.heads # outputs.heads
OutputsChanged == \A s \in lastOutputs : s # outputs

NotifierTells ==
    /\ outputsTimer
    /\ outputsTimer' = FALSE
    /\ lastOutputs' = IF OutputsChanged THEN {outputs} ELSE lastOutputs
    /\ UNCHANGED <<headVars, wlrQueue, actorVars, outputs, outputsDirty, callVars, configVars,
                   overflowed>>

-----------------------------------------------------------------------------
(* ApplyConfiguration.                                                     *)

CallApply(r) ==
    /\ applier[r] = "idle"
    /\ applier' = [applier EXCEPT ![r] = "waiting"]
    /\ Post(Apply(r))
    /\ overflowed' = IF QueueRoom THEN overflowed ELSE overflowed \cup {r}
    /\ UNCHANGED <<headVars, actorVars, outputVars, wantedHead, resultChan, configVars>>

\* Sending to the channel waits while it holds an answer; which answer is left out.
Send(r) == ~resultChan[r] /\ resultChan' = [resultChan EXCEPT ![r] = TRUE]
Destroy(r) == destroyed' = [destroyed EXCEPT ![r] = @ + 1]
Respond(r) == responded' = [responded EXCEPT ![r] = TRUE]
\* Mutation: the timer is set only after the heads are configured, and forgotten.
ArmTimerNever(r) == configTimer' = [configTimer EXCEPT ![r] = "over"]
ArmTimer(r) == configTimer' = [configTimer EXCEPT ![r] = "armed"]

\* CreateConfiguration cannot be written to the connection.
ConfigureNothing(r) ==
    /\ NextCommand(Apply(r)) /\ Send(r)
    /\ UNCHANGED <<headVars, actorVars, outputVars, applier, wantedHead, configVars, overflowed>>

\* The head or a mode is not found, or a request for a head fails.
ConfigureRefused(r) ==
    /\ NextCommand(Apply(r)) /\ ArmTimer(r)
    /\ Destroy(r) /\ Send(r)
    /\ config' = [config EXCEPT ![r] = "refused"]
    /\ UNCHANGED <<headVars, actorVars, outputVars, applier, wantedHead, responded, overflowed>>

\* Apply or Test is written, and the compositor will answer; or the write fails.
ConfigureHeads(r) ==
    /\ Listed(heads)[wantedHead[r]] # "absent"
    /\ NextCommand(Apply(r)) /\ ArmTimer(r)
    /\ \/ /\ config' = [config EXCEPT ![r] = "sent"]
          /\ UNCHANGED <<resultChan, responded, destroyed>>
       \/ /\ config' = [config EXCEPT ![r] = "refused"]
          /\ Respond(r) /\ Destroy(r) /\ Send(r)
    /\ UNCHANGED <<headVars, actorVars, outputVars, applier, wantedHead, overflowed>>

\* An event of the configuration reaches its handler, which looks at responded; an event for
\* an object that was destroyed is discarded.
HandlerLooks(r) ==
    /\ ~Dispatching
    /\ config[r] = "sent" /\ destroyed[r] = 0
    /\ config' = [config EXCEPT ![r] = IF responded[r] THEN "answered" ELSE "answering"]
    /\ UNCHANGED <<headVars, wlrQueue, actorVars, outputVars, callVars, responded, destroyed,
                   configTimer, overflowed>>

HandlerAnswers(r) ==
    /\ config[r] = "answering"
    /\ config' = [config EXCEPT ![r] = "answered"]
    /\ Respond(r) /\ Destroy(r) /\ Send(r)
    /\ UNCHANGED <<headVars, wlrQueue, actorVars, outputVars, applier, wantedHead, configTimer,
                   overflowed>>

ConfigTimeout(r) ==
    /\ configTimer[r] = "armed"
    /\ configTimer' = [configTimer EXCEPT ![r] = IF QueueRoom THEN "posted" ELSE "over"]
    /\ Post(Timeout(r))
    /\ overflowed' = IF QueueRoom THEN overflowed ELSE overflowed \cup {r}
    /\ UNCHANGED <<headVars, actorVars, outputVars, callVars, config, responded, destroyed>>

TimeoutLooks(r) ==
    /\ NextCommand(Timeout(r))
    /\ wlrActor' = IF responded[r] THEN "idle" ELSE "expiring"
    /\ configTimer' = [configTimer EXCEPT ![r] = IF responded[r] THEN "over" ELSE "expiring"]
    /\ UNCHANGED <<headVars, headsSeen, outputVars, callVars, config, responded, destroyed,
                   overflowed>>

TimeoutAnswers(r) ==
    /\ wlrActor = "expiring" /\ configTimer[r] = "expiring"
    /\ wlrActor' = "idle"
    /\ configTimer' = [configTimer EXCEPT ![r] = "over"]
    /\ Respond(r) /\ Destroy(r) /\ Send(r)
    /\ UNCHANGED <<headVars, wlrQueue, headsSeen, outputVars, applier, wantedHead, config,
                   overflowed>>

ReceiveResult(r) ==
    /\ applier[r] = "waiting" /\ resultChan[r]
    /\ resultChan' = [resultChan EXCEPT ![r] = FALSE]
    /\ applier' = [applier EXCEPT ![r] = "answered"]
    /\ UNCHANGED <<headVars, wlrQueue, actorVars, outputVars, wantedHead, configVars, overflowed>>

-----------------------------------------------------------------------------
DispatcherStep ==
    \/ \E h \in Heads : HeadAppears(h) \/ HeadNamed(h) \/ HeadEnabled(h) \/ HeadFinished(h)
    \/ HeadsDone
    \/ \E r \in Appliers : HandlerLooks(r) \/ HandlerAnswers(r)

ActorStep ==
    \/ ReadHeads \/ StoreOutputs
    \/ \E r \in Appliers :
         \/ ConfigureNothing(r) \/ ConfigureRefused(r) \/ ConfigureHeads(r)
         \/ TimeoutLooks(r) \/ TimeoutAnswers(r)

WlrNext ==
    \/ DispatcherStep \/ ActorStep \/ NotifierMarks \/ NotifierTells
    \/ \E r \in Appliers : CallApply(r) \/ ConfigTimeout(r) \/ ReceiveResult(r)

WlrSpec == WlrInit /\ [][WlrNext]_wlrVars

-----------------------------------------------------------------------------
\* The variables range over what the program can hold.
WlrTypeOK ==
    /\ heads \in [Heads -> Looks] /\ incomplete \in BOOLEAN
    /\ headSerial \in Nat /\ headChanges \in 0 .. MaxHeadChanges
    /\ wlrQueue \in Seq(Commands) /\ Len(wlrQueue) <= CmdqCap
    /\ wlrActor \in {"idle", "storing", "expiring"} /\ headsSeen \in [Heads -> Looks]
    /\ outputs \in OutputStates /\ outputsDirty \in BOOLEAN /\ outputsTimer \in BOOLEAN
    /\ lastOutputs \subseteq OutputStates
    /\ applier \in [Appliers -> {"idle", "waiting", "answered"}]
    /\ wantedHead \in [Appliers -> Heads]
    /\ resultChan \in [Appliers -> BOOLEAN]
    /\ config \in [Appliers -> {"none", "refused", "sent", "answering", "answered"}]
    /\ responded \in [Appliers -> BOOLEAN] /\ destroyed \in [Appliers -> Nat]
    /\ configTimer \in [Appliers -> {"off", "armed", "posted", "expiring", "over"}]
    /\ overflowed \subseteq Appliers

\* At rest the subscribers have been told of the heads and the serial the compositor has
\* announced, although the state is read while it is written, commands are dropped and marks
\* are merged: a client that configures the outputs it was told of uses the current serial.
WlrAtRest ==
    wlrQueue = <<>> /\ wlrActor = "idle" /\ ~outputsDirty /\ ~outputsTimer
OutputsAreCurrent ==
    WlrAtRest => lastOutputs = {[heads |-> Listed(heads), serial |-> headSerial]}

\* Whoever waits for a configuration will hear: an answer is in the channel, or the compositor's
\* handler, the command or the timeout that will give one is under way, unless the full queue
\* dropped it.
ApplierIsServed ==
    \A r \in Appliers : applier[r] = "waiting" =>
        \/ r \in overflowed
        \/ resultChan[r]
        \/ \E i \in DOMAIN wlrQueue : wlrQueue[i] = Apply(r)
        \/ configTimer[r] \in {"armed", "posted", "expiring"}
=============================================================================
