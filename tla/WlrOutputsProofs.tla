---------------------------- MODULE WlrOutputsProofs ----------------------------
(***************************************************************************)
(* Safety of WlrOutputs, for any heads, requests and capacity of the       *)
(* command queue above the number of requests: the types, that the         *)
(* subscribers come to know the heads, and that whoever waits for a        *)
(* configuration will hear.                                                *)
(*                                                                         *)
(* The argument about dropped updates is a pigeonhole: each request has    *)
(* one command in the queue at most, so a full queue holds an update, and  *)
(* that one will read what the dropped one was to publish.                 *)
(***************************************************************************)
EXTENDS WlrOutputs, FiniteSetTheorems, TLAPS

Has(c) == \E i \in 1..Len(wlrQueue) : wlrQueue[i] = c
Of(r) == {Apply(r), Timeout(r)}
Once(r) == \A i, j \in 1..Len(wlrQueue) : wlrQueue[i] \in Of(r) /\ wlrQueue[j] \in Of(r) => i = j

\* What is known of a request at each of its places.
RequestInv(r) ==
    /\ applier[r] = "idle" => /\ config[r] = "none" /\ configTimer[r] = "off"
                              /\ ~responded[r] /\ ~Has(Apply(r))
    /\ Has(Apply(r)) => configTimer[r] = "off"
    /\ Has(Timeout(r)) => configTimer[r] = "posted"
    /\ Once(r)
    /\ responded[r] /\ applier[r] = "waiting" => resultChan[r]

Served(r) ==
    applier[r] = "waiting" =>
        \/ r \in overflowed \/ resultChan[r] \/ Has(Apply(r))
        \/ configTimer[r] \in {"armed", "posted", "expiring"}

\* What is not published yet will be: an update is queued, or is about to store it.
Fresh ==
    /\ wlrActor # "storing" =>
         Has(Update) \/ outputs = [heads |-> Listed(heads), serial |-> headSerial]
    /\ wlrActor = "storing" => Has(Update) \/ Listed(headsSeen) = Listed(heads)

\* What is published and not told of yet will be.
Marked ==
    /\ lastOutputs = {outputs} \/ outputsDirty \/ outputsTimer
    /\ \A s, t \in lastOutputs : s = t

WlrInv ==
    /\ WlrTypeOK /\ Fresh /\ Marked
    /\ \A r \in Appliers : RequestInv(r) /\ Served(r)

-----------------------------------------------------------------------------
\* The commands differ from each other.
LEMMA CommandsDiffer ==
    /\ Update \in Commands
    /\ \A r \in Appliers : /\ Apply(r) \in Commands /\ Timeout(r) \in Commands
                           /\ Apply(r) # Update /\ Timeout(r) # Update
    /\ \A r, s \in Appliers : /\ Apply(r) # Timeout(s)
                              /\ Apply(r) = Apply(s) => r = s
                              /\ Timeout(r) = Timeout(s) => r = s
    /\ \A c \in Commands : c = Update \/ \E r \in Appliers : c \in Of(r)
<1>1. Update \in Commands
    BY DEF Commands
<1>2. ASSUME NEW r \in Appliers
      PROVE  Apply(r) \in Commands /\ Timeout(r) \in Commands
    BY DEF Commands
<1>3. ASSUME NEW r \in Appliers
      PROVE  Apply(r) # Update /\ Timeout(r) # Update
    <2>1. Apply(r).do = "apply" /\ Timeout(r).do = "expire" /\ Update.do = "update"
        BY DEF Apply, Timeout, Update
    <2> QED BY <2>1
<1>4. ASSUME NEW r \in Appliers, NEW s \in Appliers
      PROVE  /\ Apply(r) # Timeout(s)
             /\ Apply(r) = Apply(s) => r = s
             /\ Timeout(r) = Timeout(s) => r = s
    <2>1. /\ Apply(r).do = "apply" /\ Timeout(s).do = "expire"
          /\ Apply(r).of = r /\ Apply(s).of = s /\ Timeout(r).of = r /\ Timeout(s).of = s
        BY DEF Apply, Timeout
    <2> QED BY <2>1
<1>5. ASSUME NEW c \in Commands
      PROVE  c = Update \/ \E r \in Appliers : c \in Of(r)
    BY DEF Commands, Of
<1> QED BY <1>1, <1>2, <1>3, <1>4, <1>5

\* What posting a command does to the queue.
LEMMA PostQueue ==
    ASSUME NEW S, NEW q \in Seq(S), NEW c \in S
    PROVE  /\ Append(q, c) \in Seq(S) /\ Len(Append(q, c)) = Len(q) + 1 /\ Len(q) \in Nat
           /\ Append(q, c)[Len(q) + 1] = c
           /\ \A i \in 1..Len(q) : Append(q, c)[i] = q[i]
OBVIOUS

LEMMA PostHas ==
    ASSUME WlrTypeOK, NEW c \in Commands, Post(c)
    PROVE  /\ wlrQueue' \in Seq(Commands) /\ Len(wlrQueue') <= CmdqCap
           /\ \A d : Has(d)' <=> Has(d) \/ (d = c /\ QueueRoom)
           /\ \A r \in Appliers :
                Once(r) /\ (c \in Of(r) => ~Has(Apply(r)) /\ ~Has(Timeout(r))) => Once(r)'
<1>1. wlrQueue \in Seq(Commands) /\ Len(wlrQueue) <= CmdqCap /\ CmdqCap \in Nat
    BY WlrAssumption DEF WlrTypeOK
<1>2. CASE ~QueueRoom
    BY <1>1, <1>2 DEF Post, Has, Once
<1>3. CASE QueueRoom
    <2>1. wlrQueue' = Append(wlrQueue, c) /\ Len(wlrQueue) < CmdqCap
        BY <1>3 DEF Post, QueueRoom
    <2>2. /\ wlrQueue' \in Seq(Commands) /\ Len(wlrQueue') = Len(wlrQueue) + 1 /\ Len(wlrQueue) \in Nat
          /\ wlrQueue'[Len(wlrQueue) + 1] = c
          /\ \A i \in 1..Len(wlrQueue) : wlrQueue'[i] = wlrQueue[i]
        BY <1>1, <2>1, PostQueue
    <2>3. Len(wlrQueue') <= CmdqCap
        BY <1>1, <2>1, <2>2
    <2>4. \A i \in 1..Len(wlrQueue') : i \in 1..Len(wlrQueue) \/ i = Len(wlrQueue) + 1
        BY <2>2
    <2>5. /\ \A i \in 1..Len(wlrQueue) : i \in 1..Len(wlrQueue')
          /\ Len(wlrQueue) + 1 \in 1..Len(wlrQueue')
        BY <2>2
    <2>6. ASSUME NEW d PROVE Has(d)' <=> Has(d) \/ (d = c /\ QueueRoom)
        BY <1>3, <2>2, <2>4, <2>5 DEF Has
    <2>7. ASSUME NEW r \in Appliers, Once(r), c \in Of(r) => ~Has(Apply(r)) /\ ~Has(Timeout(r))
          PROVE  Once(r)'
        <3> SUFFICES ASSUME NEW i \in 1..Len(wlrQueue'), NEW j \in 1..Len(wlrQueue'),
                            wlrQueue'[i] \in Of(r), wlrQueue'[j] \in Of(r)
                     PROVE  i = j
            BY DEF Once, Of, Apply, Timeout
        <3>1. CASE i \in 1..Len(wlrQueue) /\ j \in 1..Len(wlrQueue)
            BY <2>2, <2>7, <3>1 DEF Once
        <3>2. CASE i = Len(wlrQueue) + 1 /\ j = Len(wlrQueue) + 1
            BY <3>2
        <3>3. c \in Of(r) => \A k \in 1..Len(wlrQueue) : wlrQueue'[k] \notin Of(r)
            BY <2>2, <2>7 DEF Has, Of
        <3> QED BY <2>2, <2>4, <3>1, <3>2, <3>3
    <2> QED BY <2>2, <2>3, <2>6, <2>7
<1> QED BY <1>2, <1>3

\* What running a command does to it.
LEMMA PopQueue ==
    ASSUME NEW S, NEW q \in Seq(S), q # <<>>
    PROVE  /\ Tail(q) \in Seq(S) /\ Len(Tail(q)) = Len(q) - 1 /\ Len(q) \in Nat /\ Len(q) > 0
           /\ Head(q) = q[1] /\ q[1] \in S
           /\ \A i \in 1..Len(Tail(q)) : Tail(q)[i] = q[i + 1]
OBVIOUS

LEMMA PopHas ==
    ASSUME WlrTypeOK, NEW c, NextCommand(c)
    PROVE  /\ wlrQueue' \in Seq(Commands) /\ Len(wlrQueue') <= CmdqCap /\ c \in Commands /\ Has(c)
           /\ \A d : Has(d)' => Has(d)
           /\ \A d : Has(d) => d = c \/ Has(d)'
           /\ \A r \in Appliers : Once(r) => Once(r)' /\ (c \in Of(r) => \A d \in Of(r) : ~Has(d)')
<1>1. wlrQueue \in Seq(Commands) /\ Len(wlrQueue) <= CmdqCap /\ CmdqCap \in Nat
    BY WlrAssumption DEF WlrTypeOK
<1>2. wlrQueue # <<>> /\ Head(wlrQueue) = c /\ wlrQueue' = Tail(wlrQueue)
    BY DEF NextCommand
<1>3. /\ wlrQueue' \in Seq(Commands) /\ Len(wlrQueue') = Len(wlrQueue) - 1 /\ Len(wlrQueue) \in Nat /\ Len(wlrQueue) > 0
      /\ c = wlrQueue[1] /\ c \in Commands
      /\ \A i \in 1..Len(wlrQueue') : wlrQueue'[i] = wlrQueue[i + 1]
    BY <1>1, <1>2, PopQueue
<1>4. \A i \in 1..Len(wlrQueue') : i + 1 \in 1..Len(wlrQueue) /\ i + 1 # 1 /\ i \in Int
    BY <1>3
<1>5. \A i \in 1..Len(wlrQueue) : i = 1 \/ (i - 1 \in 1..Len(wlrQueue') /\ (i - 1) + 1 = i)
    BY <1>3
<1>6. 1 \in 1..Len(wlrQueue)
    BY <1>3
<1>7. Len(wlrQueue') <= CmdqCap
    BY <1>1, <1>3
<1>8. Has(c)
    BY <1>3, <1>6 DEF Has
<1>9. ASSUME NEW d PROVE Has(d)' => Has(d)
    BY <1>3, <1>4 DEF Has
<1>10. ASSUME NEW d, Has(d) PROVE d = c \/ Has(d)'
    <2>1. PICK i \in 1..Len(wlrQueue) : wlrQueue[i] = d
        BY <1>10 DEF Has
    <2>2. CASE i = 1
        BY <1>3, <2>1, <2>2
    <2>3. CASE i # 1
        <3>1. i - 1 \in 1..Len(wlrQueue') /\ wlrQueue'[i - 1] = d
            BY <1>3, <1>5, <2>1, <2>3
        <3> QED BY <3>1 DEF Has
    <2> QED BY <2>2, <2>3
<1>11. ASSUME NEW r \in Appliers, Once(r)
       PROVE  Once(r)' /\ (c \in Of(r) => \A d \in Of(r) : ~Has(d)')
    <2>1. ASSUME NEW i \in 1..Len(wlrQueue'), NEW j \in 1..Len(wlrQueue'),
                 wlrQueue'[i] \in Of(r), wlrQueue'[j] \in Of(r)
          PROVE  i = j
        <3>1. i + 1 = j + 1
            BY <1>3, <1>4, <1>11, <2>1 DEF Once
        <3> QED BY <1>4, <3>1
    <2>2. Once(r)'
        BY <2>1 DEF Once, Of, Apply, Timeout
    <2>3. ASSUME c \in Of(r), NEW d \in Of(r), Has(d)' PROVE FALSE
        <3>1. PICK i \in 1..Len(wlrQueue') : wlrQueue'[i] = d
            BY <2>3 DEF Has
        <3>2. wlrQueue[i + 1] \in Of(r) /\ wlrQueue[1] \in Of(r)
            BY <1>3, <2>3, <3>1
        <3> QED BY <1>4, <1>6, <1>11, <3>2 DEF Once
    <2> QED BY <2>2, <2>3
<1> QED BY <1>3, <1>7, <1>8, <1>9, <1>10, <1>11

\* A full queue holds an update.
LEMMA FullHasUpdate ==
    ASSUME WlrTypeOK, \A r \in Appliers : Once(r), ~QueueRoom
    PROVE  Has(Update)
<1> SUFFICES ASSUME ~Has(Update) PROVE FALSE
    OBVIOUS
<1>1. wlrQueue \in Seq(Commands) /\ Len(wlrQueue) <= CmdqCap /\ CmdqCap \in Nat /\ Len(wlrQueue) \in Nat
    BY WlrAssumption DEF WlrTypeOK
<1>2. Len(wlrQueue) = CmdqCap
    BY <1>1 DEF QueueRoom
<1>3. \A i \in 1..Len(wlrQueue) : wlrQueue[i] \in Commands
    BY <1>1
<1>4. \A i \in 1..Len(wlrQueue) : \E r \in Appliers : wlrQueue[i] \in Of(r)
    BY <1>3, CommandsDiffer DEF Has
<1> DEFINE f == [i \in 1..Len(wlrQueue) |-> CHOOSE r \in Appliers : wlrQueue[i] \in Of(r)]
<1>5. \A i \in 1..Len(wlrQueue) : f[i] \in Appliers /\ wlrQueue[i] \in Of(f[i])
    BY <1>4
<1>6. f \in [1..Len(wlrQueue) -> Appliers]
    BY <1>5
<1>7. \A i, j \in 1..Len(wlrQueue) : f[i] = f[j] => i = j
    BY <1>5 DEF Once
<1> HIDE DEF f
<1>8. Cardinality(1..Len(wlrQueue)) = Len(wlrQueue) /\ IsFiniteSet(1..Len(wlrQueue))
    <2> DEFINE n == Len(wlrQueue)
    <2>1. 1 \in Int /\ n \in Int /\ n \in Nat
        BY <1>1
    <2> HIDE DEF n
    <2>2. IsFiniteSet(1..n) /\ Cardinality(1..n) = IF 1 > n THEN 0 ELSE n - 1 + 1
        BY <2>1, FS_Interval
    <2>3. Cardinality(1..n) = n
        BY <2>1, <2>2
    <2> QED BY <2>2, <2>3 DEF n
<1>9. IsFiniteSet(Appliers) /\ Cardinality(Appliers) < Cardinality(1..Len(wlrQueue))
    BY <1>1, <1>2, <1>8, WlrAssumption
<1>10. \E i, j \in 1..Len(wlrQueue) : i # j /\ f[i] = f[j]
    BY <1>6, <1>8, <1>9, FS_PigeonHole
<1> QED BY <1>7, <1>10

-----------------------------------------------------------------------------
LEMMA ListedTypes ==
    ASSUME NEW h \in [Heads -> Looks]
    PROVE  Listed(h) \in [Heads -> ListedLooks]
BY DEF Listed, Looks, ListedLooks

LEMMA WlrInitInv == WlrInit => WlrInv
<1> SUFFICES ASSUME WlrInit PROVE WlrInv
    OBVIOUS
<1>1. NoHeads \in [Heads -> Looks] /\ Listed(NoHeads) = NoHeads
    BY DEF NoHeads, Looks, Listed
<1>2. wlrQueue = <<>> /\ wlrQueue \in Seq(Commands) /\ Len(wlrQueue) = 0
    BY DEF WlrInit
<1>3. \A c : ~Has(c)
    BY <1>2 DEF Has
<1>4. WlrTypeOK
    <2>1. outputs \in OutputStates
        BY <1>1, ListedTypes DEF WlrInit, OutputStates
    <2>2. /\ 0 \in 0 .. MaxHeadChanges /\ 0 \in Nat
          /\ Len(wlrQueue) <= CmdqCap
        BY <1>2, WlrAssumption
    <2>3. /\ heads \in [Heads -> Looks] /\ incomplete \in BOOLEAN
          /\ headSerial \in Nat /\ headChanges \in 0 .. MaxHeadChanges
          /\ headsSeen \in [Heads -> Looks] /\ wlrActor = "idle"
          /\ outputsDirty \in BOOLEAN /\ outputsTimer \in BOOLEAN /\ lastOutputs = {}
        BY <1>1, <2>2 DEF WlrInit
    <2>4. /\ applier \in [Appliers -> {"idle", "waiting", "answered"}]
          /\ wantedHead \in [Appliers -> Heads] /\ resultChan \in [Appliers -> BOOLEAN]
          /\ config \in [Appliers -> {"none", "refused", "sent", "answering", "answered"}]
          /\ responded \in [Appliers -> BOOLEAN] /\ destroyed \in [Appliers -> Nat]
          /\ configTimer \in [Appliers -> {"off", "armed", "posted", "expiring", "over"}]
          /\ overflowed = {}
        BY <2>2 DEF WlrInit
    <2> QED BY <1>2, <2>1, <2>2, <2>3, <2>4 DEF WlrTypeOK
<1>5. Fresh /\ Marked
    BY <1>1 DEF WlrInit, Fresh, Marked
<1>6. ASSUME NEW r \in Appliers PROVE RequestInv(r) /\ Served(r)
    <2>1. Once(r)
        BY <1>2 DEF Once
    <2> QED BY <1>3, <2>1 DEF WlrInit, RequestInv, Served
<1> QED BY <1>4, <1>5, <1>6 DEF WlrInv

\* The steps that have nothing to do with a request: the dispatcher's events about
\* heads, the publishing of a state and the notifier.
Publishing ==
    \/ \E h \in Heads : HeadAppears(h) \/ HeadNamed(h) \/ HeadEnabled(h) \/ HeadFinished(h)
    \/ HeadsDone \/ ReadHeads \/ StoreOutputs \/ NotifierMarks \/ NotifierTells

LEMMA PublishingAside ==
    ASSUME Publishing
    PROVE  /\ UNCHANGED <<callVars, configVars, overflowed>>
           /\ UNCHANGED wlrQueue \/ Post(Update) \/ NextCommand(Update)
<1>1. ASSUME NEW h \in Heads, HeadAppears(h) \/ HeadNamed(h) \/ HeadEnabled(h) \/ HeadFinished(h)
      PROVE  /\ UNCHANGED <<callVars, configVars, overflowed>>
             /\ UNCHANGED wlrQueue \/ Post(Update)
    BY <1>1 DEF HeadAppears, HeadNamed, HeadEnabled, HeadFinished, Describe
<1>2. CASE HeadsDone
    BY <1>2 DEF HeadsDone
<1>3. CASE ReadHeads \/ StoreOutputs \/ NotifierMarks \/ NotifierTells
    BY <1>3 DEF ReadHeads, StoreOutputs, NotifierMarks, NotifierTells
<1> QED BY <1>1, <1>2, <1>3 DEF Publishing

\* A request keeps its invariant while its own state does not change and its commands are
\* left in the queue.
LEMMA RequestAside ==
    ASSUME NEW r \in Appliers, RequestInv(r), Served(r),
           applier'[r] = applier[r], resultChan'[r] = resultChan[r], config'[r] = config[r],
           responded'[r] = responded[r], configTimer'[r] = configTimer[r],
           overflowed \subseteq overflowed',
           Has(Apply(r))' <=> Has(Apply(r)), Has(Timeout(r))' <=> Has(Timeout(r)), Once(r)'
    PROVE  RequestInv(r)' /\ Served(r)'
<1>1. RequestInv(r)'
    BY DEF RequestInv
<1>2. Served(r)'
    BY DEF Served
<1> QED BY <1>1, <1>2

LEMMA PublishingKeepsRequests ==
    ASSUME WlrInv, Publishing, NEW r \in Appliers
    PROVE  RequestInv(r)' /\ Served(r)'
<1>1. /\ UNCHANGED <<callVars, configVars, overflowed>>
      /\ UNCHANGED wlrQueue \/ Post(Update) \/ NextCommand(Update)
    BY PublishingAside
<1>2. WlrTypeOK /\ RequestInv(r) /\ Served(r) /\ Once(r)
    BY DEF WlrInv, RequestInv
<1>3. Apply(r) # Update /\ Timeout(r) # Update /\ Update \notin Of(r) /\ Update \in Commands
    BY CommandsDiffer DEF Of
<1>4. /\ Has(Apply(r))' <=> Has(Apply(r))
      /\ Has(Timeout(r))' <=> Has(Timeout(r))
      /\ Once(r)'
    <2>1. CASE UNCHANGED wlrQueue
        BY <1>2, <2>1 DEF Has, Once, Of, Apply, Timeout
    <2>2. CASE Post(Update)
        BY <1>2, <1>3, <2>2, PostHas
    <2>3. CASE NextCommand(Update)
        BY <1>2, <1>3, <2>3, PopHas
    <2> QED BY <1>1, <2>1, <2>2, <2>3
<1> QED BY <1>1, <1>2, <1>4, RequestAside DEF callVars, configVars

\* Posting or running a command of another request leaves this one's in the queue.
LEMMA OtherCommand ==
    ASSUME WlrTypeOK, NEW r \in Appliers, NEW s \in Appliers, s # r, Once(r), NEW c \in Of(s),
           UNCHANGED wlrQueue \/ Post(c) \/ NextCommand(c)
    PROVE  /\ Has(Apply(r))' <=> Has(Apply(r))
           /\ Has(Timeout(r))' <=> Has(Timeout(r))
           /\ Once(r)'
<1>1. Apply(r) # c /\ Timeout(r) # c /\ c \notin Of(r) /\ c \in Commands
    BY CommandsDiffer DEF Of
<1>2. CASE UNCHANGED wlrQueue
    BY <1>2 DEF Has, Once, Of, Apply, Timeout
<1>3. CASE Post(c)
    BY <1>1, <1>3, PostHas
<1>4. CASE NextCommand(c)
    BY <1>1, <1>4, PopHas
<1> QED BY <1>2, <1>3, <1>4

\* What a request does, seen from another one.
LEMMA OtherRequest ==
    ASSUME WlrTypeOK, NEW r \in Appliers, NEW s \in Appliers, s # r,
           \/ CallApply(s) \/ ConfigTimeout(s) \/ ReceiveResult(s) \/ HandlerLooks(s)
           \/ HandlerAnswers(s) \/ ConfigureNothing(s) \/ ConfigureRefused(s)
           \/ ConfigureHeads(s) \/ TimeoutLooks(s) \/ TimeoutAnswers(s)
    PROVE  /\ applier'[r] = applier[r] /\ resultChan'[r] = resultChan[r] /\ config'[r] = config[r]
           /\ responded'[r] = responded[r] /\ configTimer'[r] = configTimer[r]
           /\ overflowed \subseteq overflowed'
           /\ \E c \in Of(s) : UNCHANGED wlrQueue \/ Post(c) \/ NextCommand(c)
<1>1. /\ applier \in [Appliers -> {"idle", "waiting", "answered"}]
      /\ resultChan \in [Appliers -> BOOLEAN]
      /\ config \in [Appliers -> {"none", "refused", "sent", "answering", "answered"}]
      /\ responded \in [Appliers -> BOOLEAN]
      /\ configTimer \in [Appliers -> {"off", "armed", "posted", "expiring", "over"}]
    BY DEF WlrTypeOK
<1>2. CASE CallApply(s) \/ ReceiveResult(s)
    BY <1>1, <1>2 DEF CallApply, ReceiveResult, configVars, Of
<1>3. CASE ConfigTimeout(s) \/ TimeoutLooks(s)
    BY <1>1, <1>3 DEF ConfigTimeout, TimeoutLooks, callVars, Of
<1>4. CASE HandlerLooks(s) \/ HandlerAnswers(s)
    BY <1>1, <1>4 DEF HandlerLooks, HandlerAnswers, Respond, Send, callVars, Of
<1>5. CASE ConfigureNothing(s) \/ ConfigureRefused(s)
    BY <1>1, <1>5 DEF ConfigureNothing, ConfigureRefused, ArmTimer, Send, configVars, Of
<1>6. CASE ConfigureHeads(s)
    BY <1>1, <1>6 DEF ConfigureHeads, ArmTimer, Respond, Send, Of
<1>7. CASE TimeoutAnswers(s)
    BY <1>1, <1>7 DEF TimeoutAnswers, Respond, Send, Of
<1> QED BY <1>2, <1>3, <1>4, <1>5, <1>6, <1>7

\* What a request does itself.
LEMMA OwnRequest ==
    ASSUME WlrInv, NEW r \in Appliers,
           \/ CallApply(r) \/ ConfigTimeout(r) \/ ReceiveResult(r) \/ HandlerLooks(r)
           \/ HandlerAnswers(r) \/ ConfigureNothing(r) \/ ConfigureRefused(r)
           \/ ConfigureHeads(r) \/ TimeoutLooks(r) \/ TimeoutAnswers(r)
    PROVE  RequestInv(r)' /\ Served(r)'
<1>1. /\ applier \in [Appliers -> {"idle", "waiting", "answered"}]
      /\ resultChan \in [Appliers -> BOOLEAN]
      /\ config \in [Appliers -> {"none", "refused", "sent", "answering", "answered"}]
      /\ responded \in [Appliers -> BOOLEAN]
      /\ configTimer \in [Appliers -> {"off", "armed", "posted", "expiring", "over"}]
      /\ WlrTypeOK
    BY DEF WlrInv, WlrTypeOK
<1>2. /\ RequestInv(r) /\ Served(r) /\ Once(r)
      /\ Apply(r) # Timeout(r) /\ Apply(r) \in Of(r) /\ Timeout(r) \in Of(r)
      /\ Apply(r) \in Commands /\ Timeout(r) \in Commands
    BY CommandsDiffer DEF WlrInv, RequestInv, Of
<1>3. ASSUME UNCHANGED wlrQueue
      PROVE  /\ Has(Apply(r))' <=> Has(Apply(r))
             /\ Has(Timeout(r))' <=> Has(Timeout(r))
             /\ Once(r)'
    <2>1. (Has(Apply(r))' <=> Has(Apply(r))) /\ (Has(Timeout(r))' <=> Has(Timeout(r)))
        BY <1>3 DEF Has, Apply, Timeout
    <2>2. Once(r)'
        BY <1>2, <1>3 DEF Once, Of, Apply, Timeout
    <2> QED BY <2>1, <2>2
<1>4. CASE CallApply(r)
    <2>1. /\ applier[r] = "idle" /\ applier'[r] = "waiting" /\ Post(Apply(r))
          /\ overflowed' = IF QueueRoom THEN overflowed ELSE overflowed \cup {r}
          /\ UNCHANGED <<resultChan, config, responded, configTimer>>
        BY <1>1, <1>4 DEF CallApply, configVars
    <2>2. ~Has(Apply(r)) /\ ~Has(Timeout(r)) /\ configTimer[r] = "off" /\ ~responded[r]
        BY <1>2, <2>1 DEF RequestInv
    <2>3. /\ Has(Apply(r))' <=> QueueRoom
          /\ ~Has(Timeout(r))' /\ Once(r)'
        BY <1>1, <1>2, <2>1, <2>2, PostHas
    <2>4. RequestInv(r)'
        BY <2>1, <2>2, <2>3 DEF RequestInv
    <2>5. Served(r)'
        BY <2>1, <2>3 DEF Served
    <2> QED BY <2>4, <2>5
<1>5. CASE ConfigTimeout(r)
    <2>1. /\ configTimer[r] = "armed" /\ configTimer'[r] = (IF QueueRoom THEN "posted" ELSE "over")
          /\ Post(Timeout(r))
          /\ overflowed' = IF QueueRoom THEN overflowed ELSE overflowed \cup {r}
          /\ UNCHANGED <<applier, resultChan, config, responded>>
        BY <1>1, <1>5 DEF ConfigTimeout, callVars
    <2>2. ~Has(Apply(r)) /\ ~Has(Timeout(r)) /\ applier[r] # "idle"
        BY <1>2, <2>1 DEF RequestInv
    <2>3. /\ ~Has(Apply(r))' /\ Once(r)'
          /\ Has(Timeout(r))' <=> QueueRoom
        BY <1>1, <1>2, <2>1, <2>2, PostHas
    <2>4. RequestInv(r)'
        BY <1>2, <2>1, <2>2, <2>3 DEF RequestInv
    <2>5. Served(r)'
        BY <2>1 DEF Served
    <2> QED BY <2>4, <2>5
<1>6. CASE ReceiveResult(r)
    <2>1. /\ applier'[r] = "answered"
          /\ UNCHANGED <<wlrQueue, config, responded, configTimer, overflowed>>
        BY <1>1, <1>6 DEF ReceiveResult, configVars
    <2>2. RequestInv(r)'
        BY <1>2, <1>3, <2>1 DEF RequestInv
    <2> QED BY <2>1, <2>2 DEF Served
<1>7. CASE HandlerLooks(r)
    <2>1. /\ config[r] = "sent"
          /\ UNCHANGED <<wlrQueue, applier, resultChan, responded, configTimer, overflowed>>
        BY <1>1, <1>7 DEF HandlerLooks, callVars
    <2>2. applier[r] # "idle"
        BY <1>2, <2>1 DEF RequestInv
    <2>3. RequestInv(r)'
        BY <1>2, <1>3, <2>1, <2>2 DEF RequestInv
    <2> QED BY <1>2, <1>3, <2>1, <2>3 DEF Served
<1>8. CASE HandlerAnswers(r)
    <2>1. /\ config[r] = "answering" /\ resultChan'[r]
          /\ UNCHANGED <<wlrQueue, applier, configTimer, overflowed>>
        BY <1>1, <1>8 DEF HandlerAnswers, Send
    <2>2. applier[r] # "idle"
        BY <1>2, <2>1 DEF RequestInv
    <2>3. RequestInv(r)'
        BY <1>2, <1>3, <2>1, <2>2 DEF RequestInv
    <2> QED BY <2>1, <2>3 DEF Served
<1>9. CASE ConfigureNothing(r) \/ ConfigureRefused(r) \/ ConfigureHeads(r)
    <2>1. NextCommand(Apply(r)) /\ UNCHANGED <<applier, overflowed>>
        BY <1>9 DEF ConfigureNothing, ConfigureRefused, ConfigureHeads
    <2>2. /\ Has(Apply(r)) /\ ~Has(Apply(r))' /\ ~Has(Timeout(r))' /\ Once(r)'
        BY <1>1, <1>2, <2>1, PopHas
    <2>3. applier[r] # "idle" /\ configTimer[r] = "off"
        BY <1>2, <2>2 DEF RequestInv
    <2>4. /\ resultChan'[r] \/ (configTimer'[r] = "armed" /\ resultChan'[r] = resultChan[r]
                                /\ responded'[r] = responded[r])
        BY <1>1, <1>9 DEF ConfigureNothing, ConfigureRefused, ConfigureHeads, Send, ArmTimer
    <2>5. RequestInv(r)'
        BY <1>2, <2>1, <2>2, <2>3, <2>4 DEF RequestInv
    <2> QED BY <2>4, <2>5 DEF Served
<1>10. CASE TimeoutLooks(r)
    <2>1. /\ NextCommand(Timeout(r))
          /\ configTimer'[r] = (IF responded[r] THEN "over" ELSE "expiring")
          /\ UNCHANGED <<applier, resultChan, config, responded, overflowed>>
        BY <1>1, <1>10 DEF TimeoutLooks, callVars
    <2>2. /\ Has(Timeout(r)) /\ ~Has(Apply(r))' /\ ~Has(Timeout(r))' /\ Once(r)'
        BY <1>1, <1>2, <2>1, PopHas
    <2>3. applier[r] # "idle"
        BY <1>2, <2>2 DEF RequestInv
    <2>4. RequestInv(r)'
        BY <1>2, <2>1, <2>2, <2>3 DEF RequestInv
    <2>5. Served(r)'
        BY <1>2, <2>1 DEF Served, RequestInv
    <2> QED BY <2>4, <2>5
<1>11. CASE TimeoutAnswers(r)
    <2>1. /\ configTimer[r] = "expiring" /\ configTimer'[r] = "over" /\ resultChan'[r]
          /\ UNCHANGED <<wlrQueue, applier, config, overflowed>>
        BY <1>1, <1>11 DEF TimeoutAnswers, Send
    <2>2. applier[r] # "idle" /\ ~Has(Apply(r)) /\ ~Has(Timeout(r))
        BY <1>2, <2>1 DEF RequestInv
    <2>3. RequestInv(r)'
        BY <1>2, <1>3, <2>1, <2>2 DEF RequestInv
    <2> QED BY <2>1, <2>3 DEF Served
<1> QED BY <1>4, <1>5, <1>6, <1>7, <1>8, <1>9, <1>10, <1>11

LEMMA RequestsStep ==
    ASSUME WlrInv, [WlrNext]_wlrVars, NEW r \in Appliers
    PROVE  RequestInv(r)' /\ Served(r)'
<1>1. WlrTypeOK /\ RequestInv(r) /\ Served(r) /\ Once(r)
    BY DEF WlrInv, RequestInv
<1>2. CASE Publishing
    BY <1>2, PublishingKeepsRequests
<1>3. ASSUME NEW s \in Appliers,
             \/ CallApply(s) \/ ConfigTimeout(s) \/ ReceiveResult(s) \/ HandlerLooks(s)
             \/ HandlerAnswers(s) \/ ConfigureNothing(s) \/ ConfigureRefused(s)
             \/ ConfigureHeads(s) \/ TimeoutLooks(s) \/ TimeoutAnswers(s)
      PROVE  RequestInv(r)' /\ Served(r)'
    <2>1. CASE s = r
        BY <1>3, <2>1, OwnRequest
    <2>2. CASE s # r
        BY <1>1, <1>3, <2>2, OtherRequest, OtherCommand, RequestAside
    <2> QED BY <2>1, <2>2
<1>4. CASE UNCHANGED wlrVars
    <2>1. UNCHANGED <<wlrQueue, callVars, configVars, overflowed>>
        BY <1>4 DEF wlrVars
    <2>2. /\ Has(Apply(r))' <=> Has(Apply(r))
          /\ Has(Timeout(r))' <=> Has(Timeout(r))
          /\ Once(r)'
        BY <1>1, <2>1 DEF Has, Once, Of, Apply, Timeout
    <2> QED BY <1>1, <2>1, <2>2, RequestAside DEF callVars, configVars
<1> QED BY <1>2, <1>3, <1>4 DEF WlrNext, DispatcherStep, ActorStep, Publishing

-----------------------------------------------------------------------------
\* Sending an answer, a response and a destruction keep the types.
LEMMA RequestTypes ==
    ASSUME WlrTypeOK, NEW r \in Appliers
    PROVE  /\ Send(r) => resultChan' \in [Appliers -> BOOLEAN]
           /\ Respond(r) => responded' \in [Appliers -> BOOLEAN]
           /\ Destroy(r) => destroyed' \in [Appliers -> Nat]
           /\ ArmTimer(r) => configTimer' \in [Appliers -> {"off", "armed", "posted", "expiring", "over"}]
<1>1. ASSUME Destroy(r) PROVE destroyed' \in [Appliers -> Nat]
    <2>1. destroyed \in [Appliers -> Nat] /\ destroyed' = [destroyed EXCEPT ![r] = destroyed[r] + 1]
        BY <1>1 DEF WlrTypeOK, Destroy
    <2>2. destroyed[r] + 1 \in Nat
        BY <2>1
    <2> QED BY <2>1, <2>2
<1> QED BY <1>1 DEF WlrTypeOK, Send, Respond, ArmTimer

\* The types of the heads, of what is published and of the actor.
PublishedTypes ==
    /\ heads \in [Heads -> Looks] /\ incomplete \in BOOLEAN
    /\ headSerial \in Nat /\ headChanges \in 0 .. MaxHeadChanges
    /\ wlrActor \in {"idle", "storing", "expiring"} /\ headsSeen \in [Heads -> Looks]
    /\ outputs \in OutputStates /\ outputsDirty \in BOOLEAN /\ outputsTimer \in BOOLEAN
    /\ lastOutputs \subseteq OutputStates

LEMMA PublishingTypes ==
    ASSUME WlrTypeOK, Publishing
    PROVE  WlrTypeOK'
<1>1. /\ UNCHANGED <<callVars, configVars, overflowed>>
      /\ UNCHANGED wlrQueue \/ Post(Update) \/ NextCommand(Update)
    BY PublishingAside
<1>2. wlrQueue' \in Seq(Commands) /\ Len(wlrQueue') <= CmdqCap
    <2>1. CASE UNCHANGED wlrQueue
        BY <2>1 DEF WlrTypeOK
    <2>2. CASE Post(Update)
        BY <2>2, CommandsDiffer, PostHas
    <2>3. CASE NextCommand(Update)
        BY <2>3, PopHas
    <2> QED BY <1>1, <2>1, <2>2, <2>3
<1>3. PublishedTypes'
    <2>1. PublishedTypes /\ MaxHeadChanges \in Nat
        BY WlrAssumption DEF WlrTypeOK, PublishedTypes
    <2> USE DEF PublishedTypes
    <2>2. ASSUME NEW h \in Heads,
                 HeadAppears(h) \/ HeadNamed(h) \/ HeadEnabled(h) \/ HeadFinished(h)
          PROVE  PublishedTypes'
        <3>1. /\ heads' \in [Heads -> Looks] /\ incomplete' = TRUE
              /\ UNCHANGED <<headSerial, wlrActor, headsSeen, outputs, outputsDirty,
                             outputsTimer, lastOutputs>>
            BY <2>1, <2>2 DEF HeadAppears, HeadNamed, HeadEnabled, HeadFinished, Describe,
                              actorVars, outputVars, Looks
        <3>2. headChanges' \in 0 .. MaxHeadChanges
            BY <2>1, <2>2 DEF HeadAppears, HeadNamed, HeadEnabled, HeadFinished, Announce
        <3> QED BY <2>1, <3>1, <3>2
    <2>3. CASE HeadsDone
        <3>1. headSerial' = headSerial + 1 /\ headSerial' \in Nat
            BY <2>1, <2>3 DEF HeadsDone
        <3>2. /\ incomplete' = FALSE
              /\ UNCHANGED <<heads, headChanges, actorVars, outputVars>>
            BY <2>3 DEF HeadsDone
        <3> QED BY <2>1, <3>1, <3>2 DEF actorVars, outputVars
    <2>4. CASE ReadHeads
        BY <2>1, <2>4 DEF ReadHeads, headVars, outputVars
    <2>5. CASE StoreOutputs
        <3>1. outputs' \in OutputStates
            BY <2>1, <2>5, ListedTypes DEF StoreOutputs, OutputStates
        <3>2. headsSeen' \in [Heads -> Looks]
            BY <2>5 DEF StoreOutputs, NoHeads, Looks
        <3> QED BY <2>1, <2>5, <3>1, <3>2 DEF StoreOutputs, headVars
    <2>6. CASE NotifierMarks \/ NotifierTells
        BY <2>1, <2>6 DEF NotifierMarks, NotifierTells, headVars, actorVars
    <2> QED BY <2>2, <2>3, <2>4, <2>5, <2>6 DEF Publishing
<1> QED BY <1>1, <1>2, <1>3 DEF WlrTypeOK, PublishedTypes, callVars, configVars

\* What a request does leaves the heads, what is published and the marks alone.
Requesting(r) ==
    \/ CallApply(r) \/ ConfigTimeout(r) \/ ReceiveResult(r) \/ HandlerLooks(r)
    \/ HandlerAnswers(r) \/ ConfigureNothing(r) \/ ConfigureRefused(r)
    \/ ConfigureHeads(r) \/ TimeoutLooks(r) \/ TimeoutAnswers(r)

LEMMA RequestingAside ==
    ASSUME NEW r \in Appliers, Requesting(r)
    PROVE  /\ UNCHANGED <<headVars, headsSeen, outputVars, wantedHead>>
           /\ \/ UNCHANGED wlrActor
              \/ wlrActor \in {"idle", "expiring"} /\ wlrActor' \in {"idle", "expiring"}
           /\ UNCHANGED wlrQueue \/ \E c \in Of(r) : Post(c) \/ NextCommand(c)
<1>1. CASE CallApply(r) \/ ReceiveResult(r)
    BY <1>1 DEF CallApply, ReceiveResult, actorVars, Of
<1>2. CASE ConfigTimeout(r) \/ HandlerLooks(r) \/ HandlerAnswers(r)
    BY <1>2 DEF ConfigTimeout, HandlerLooks, HandlerAnswers, actorVars, callVars, Of
<1>3. CASE ConfigureNothing(r) \/ ConfigureRefused(r) \/ ConfigureHeads(r)
    BY <1>3 DEF ConfigureNothing, ConfigureRefused, ConfigureHeads, actorVars, Of
<1>4. CASE TimeoutLooks(r) \/ TimeoutAnswers(r)
    BY <1>4 DEF TimeoutLooks, TimeoutAnswers, NextCommand, callVars, Of
<1> QED BY <1>1, <1>2, <1>3, <1>4 DEF Requesting

LEMMA RequestingTypes ==
    ASSUME WlrTypeOK, NEW r \in Appliers, Requesting(r)
    PROVE  WlrTypeOK'
<1>1. /\ UNCHANGED <<headVars, headsSeen, outputVars, wantedHead>>
      /\ UNCHANGED wlrActor \/ wlrActor' \in {"idle", "expiring"}
      /\ UNCHANGED wlrQueue \/ \E c \in Of(r) : Post(c) \/ NextCommand(c)
    BY RequestingAside
<1>2. wlrQueue' \in Seq(Commands) /\ Len(wlrQueue') <= CmdqCap
    <2>1. CASE UNCHANGED wlrQueue
        BY <2>1 DEF WlrTypeOK
    <2>2. ASSUME NEW c \in Of(r), Post(c) \/ NextCommand(c)
          PROVE  wlrQueue' \in Seq(Commands) /\ Len(wlrQueue') <= CmdqCap
        <3>1. c \in Commands
            BY CommandsDiffer DEF Of
        <3> QED BY <2>2, <3>1, PostHas, PopHas
    <2> QED BY <1>1, <2>1, <2>2
<1>3. /\ applier' \in [Appliers -> {"idle", "waiting", "answered"}]
      /\ resultChan' \in [Appliers -> BOOLEAN]
      /\ config' \in [Appliers -> {"none", "refused", "sent", "answering", "answered"}]
      /\ responded' \in [Appliers -> BOOLEAN] /\ destroyed' \in [Appliers -> Nat]
      /\ configTimer' \in [Appliers -> {"off", "armed", "posted", "expiring", "over"}]
      /\ overflowed' \subseteq Appliers
    <2>1. /\ applier \in [Appliers -> {"idle", "waiting", "answered"}]
          /\ resultChan \in [Appliers -> BOOLEAN]
          /\ config \in [Appliers -> {"none", "refused", "sent", "answering", "answered"}]
          /\ responded \in [Appliers -> BOOLEAN] /\ destroyed \in [Appliers -> Nat]
          /\ configTimer \in [Appliers -> {"off", "armed", "posted", "expiring", "over"}]
          /\ overflowed \subseteq Appliers
        BY DEF WlrTypeOK
    <2>2. CASE CallApply(r)
        BY <2>1, <2>2 DEF CallApply, configVars
    <2>3. CASE ReceiveResult(r)
        BY <2>1, <2>3 DEF ReceiveResult, configVars
    <2>4. CASE ConfigTimeout(r)
        BY <2>1, <2>4 DEF ConfigTimeout, callVars
    <2>5. CASE HandlerLooks(r)
        BY <2>1, <2>5 DEF HandlerLooks, callVars
    <2>6. CASE HandlerAnswers(r)
        BY <2>1, <2>6, RequestTypes DEF HandlerAnswers
    <2>7. CASE ConfigureNothing(r)
        BY <2>1, <2>7, RequestTypes DEF ConfigureNothing, configVars
    <2>8. CASE ConfigureRefused(r)
        BY <2>1, <2>8, RequestTypes DEF ConfigureRefused
    <2>9. CASE ConfigureHeads(r)
        BY <2>1, <2>9, RequestTypes DEF ConfigureHeads
    <2>10. CASE TimeoutLooks(r)
        BY <2>1, <2>10 DEF TimeoutLooks, callVars
    <2>11. CASE TimeoutAnswers(r)
        BY <2>1, <2>11, RequestTypes DEF TimeoutAnswers
    <2> QED BY <2>2, <2>3, <2>4, <2>5, <2>6, <2>7, <2>8, <2>9, <2>10, <2>11 DEF Requesting
<1> QED BY <1>1, <1>2, <1>3 DEF WlrTypeOK, headVars, outputVars

\* The steps of the specification are those of the publishing and those of a request.
LEMMA StepsSplit ==
    ASSUME WlrNext
    PROVE  Publishing \/ \E r \in Appliers : Requesting(r)
BY DEF WlrNext, DispatcherStep, ActorStep, Publishing, Requesting

LEMMA TypeStep ==
    ASSUME WlrTypeOK, [WlrNext]_wlrVars
    PROVE  WlrTypeOK'
<1>1. CASE UNCHANGED wlrVars
    BY <1>1 DEF WlrTypeOK, wlrVars, headVars, actorVars, outputVars, callVars, configVars
<1> QED BY <1>1, StepsSplit, PublishingTypes, RequestingTypes

-----------------------------------------------------------------------------
LEMMA FreshStep ==
    ASSUME WlrInv, [WlrNext]_wlrVars
    PROVE  Fresh'
<1>1. WlrTypeOK /\ Fresh /\ \A r \in Appliers : Once(r)
    BY DEF WlrInv, RequestInv
<1>2. Update \in Commands
    BY CommandsDiffer
\* An update that was to be posted is in the queue, whether there was room or not.
<1>3. ASSUME Post(Update) PROVE Has(Update)'
    BY <1>1, <1>2, <1>3, PostHas, FullHasUpdate
<1>4. ASSUME NEW h \in Heads, HeadNamed(h) \/ HeadEnabled(h) \/ HeadFinished(h)
      PROVE  Fresh'
    <2>1. Has(Update)'
        BY <1>3, <1>4 DEF HeadNamed, HeadEnabled, HeadFinished
    <2> QED BY <2>1 DEF Fresh
<1>5. CASE HeadsDone
    <2>1. Has(Update)'
        BY <1>3, <1>5 DEF HeadsDone
    <2> QED BY <2>1 DEF Fresh
<1>6. ASSUME NEW h \in Heads, HeadAppears(h) PROVE Fresh'
    <2>1. /\ heads[h] = "absent" /\ heads' = [heads EXCEPT ![h] = "unnamed"]
          /\ heads \in [Heads -> Looks]
          /\ UNCHANGED <<wlrQueue, headSerial, wlrActor, headsSeen, outputs>>
        BY <1>1, <1>6 DEF HeadAppears, Describe, actorVars, outputVars, WlrTypeOK
    <2>2. Listed(heads)' = Listed(heads)
        BY <2>1 DEF Listed
    <2>3. Listed(headsSeen)' = Listed(headsSeen) /\ (Has(Update)' <=> Has(Update))
        BY <2>1 DEF Listed, Has, Update
    <2> QED BY <1>1, <2>1, <2>2, <2>3 DEF Fresh
<1>7. CASE ReadHeads
    BY <1>7 DEF ReadHeads, Fresh, headVars, Listed
<1>8. CASE StoreOutputs
    <2>1. /\ wlrActor = "storing" /\ wlrActor' = "idle"
          /\ outputs' = [heads |-> Listed(headsSeen), serial |-> headSerial]
          /\ UNCHANGED <<wlrQueue, heads, headSerial>>
        BY <1>8 DEF StoreOutputs, headVars
    <2>2. Listed(heads)' = Listed(heads) /\ (Has(Update)' <=> Has(Update))
        BY <2>1 DEF Listed, Has, Update
    <2> QED BY <1>1, <2>1, <2>2 DEF Fresh
\* The remaining steps keep the heads, what is published and the updates in the queue.
<1>9. ASSUME UNCHANGED <<heads, headSerial, headsSeen, outputs>>,
             wlrActor' = "storing" <=> wlrActor = "storing",
             Has(Update) => Has(Update)'
      PROVE  Fresh'
    <2>1. Listed(heads)' = Listed(heads) /\ Listed(headsSeen)' = Listed(headsSeen)
        BY <1>9 DEF Listed
    <2> QED BY <1>1, <1>9, <2>1 DEF Fresh
<1>10. ASSUME UNCHANGED wlrQueue PROVE Has(Update) => Has(Update)'
    BY <1>10 DEF Has, Update
<1>11. CASE NotifierMarks \/ NotifierTells
    <2>1. UNCHANGED <<wlrQueue, heads, headSerial, headsSeen, outputs, wlrActor>>
        BY <1>11 DEF NotifierMarks, NotifierTells, headVars, actorVars
    <2> QED BY <1>9, <1>10, <2>1
<1>12. ASSUME NEW r \in Appliers, Requesting(r) PROVE Fresh'
    <2>1. /\ UNCHANGED <<heads, headSerial, headsSeen, outputs>>
          /\ wlrActor' = "storing" <=> wlrActor = "storing"
          /\ UNCHANGED wlrQueue \/ \E c \in Of(r) : Post(c) \/ NextCommand(c)
        BY <1>12, RequestingAside DEF headVars, outputVars
    <2>2. ASSUME NEW c \in Of(r), Post(c) \/ NextCommand(c) PROVE Has(Update) => Has(Update)'
        <3>1. c \in Commands /\ c # Update
            BY CommandsDiffer DEF Of
        <3> QED BY <1>1, <2>2, <3>1, PostHas, PopHas
    <2> QED BY <1>9, <1>10, <2>1, <2>2
<1>13. CASE UNCHANGED wlrVars
    <2>1. UNCHANGED <<wlrQueue, heads, headSerial, headsSeen, outputs, wlrActor>>
        BY <1>13 DEF wlrVars, headVars, actorVars, outputVars
    <2> QED BY <1>9, <1>10, <2>1
<1> QED BY <1>4, <1>5, <1>6, <1>7, <1>8, <1>11, <1>12, <1>13, StepsSplit DEF Publishing

LEMMA MarkedStep ==
    ASSUME Marked, [WlrNext]_wlrVars
    PROVE  Marked'
<1>1. ASSUME NEW h \in Heads, HeadAppears(h) \/ HeadNamed(h) \/ HeadEnabled(h) \/ HeadFinished(h)
      PROVE  UNCHANGED outputVars
    BY <1>1 DEF HeadAppears, HeadNamed, HeadEnabled, HeadFinished, Describe
<1>2. CASE UNCHANGED outputVars
    BY <1>2 DEF Marked, outputVars
<1>3. CASE HeadsDone \/ ReadHeads
    BY <1>2, <1>3 DEF HeadsDone, ReadHeads
<1>4. CASE StoreOutputs
    BY <1>4 DEF StoreOutputs, Marked
<1>5. CASE NotifierMarks
    BY <1>5 DEF NotifierMarks, Marked
<1>6. CASE NotifierTells
    <2>1. /\ lastOutputs' = (IF OutputsChanged THEN {outputs} ELSE lastOutputs)
          /\ UNCHANGED outputs
        BY <1>6 DEF NotifierTells
    <2>2. CASE OutputsChanged
        BY <2>1, <2>2 DEF Marked
    <2>3. CASE ~OutputsChanged
        BY <2>1, <2>3 DEF Marked, OutputsChanged
    <2> QED BY <2>2, <2>3
<1>7. ASSUME NEW r \in Appliers, Requesting(r) PROVE Marked'
    BY <1>2, <1>7, RequestingAside
<1>8. CASE UNCHANGED wlrVars
    BY <1>2, <1>8 DEF wlrVars
<1> QED BY <1>1, <1>2, <1>3, <1>4, <1>5, <1>6, <1>7, <1>8, StepsSplit DEF Publishing

-----------------------------------------------------------------------------
\* The inductive invariant.
THEOREM WlrInvariant == WlrSpec => []WlrInv
<1>1. ASSUME WlrInv, [WlrNext]_wlrVars PROVE WlrInv'
    BY <1>1, TypeStep, FreshStep, MarkedStep, RequestsStep DEF WlrInv
<1> QED BY WlrInitInv, <1>1, PTL DEF WlrSpec

\* The variables keep to their types.
THEOREM OutputTypes == WlrSpec => []WlrTypeOK
<1>1. WlrInv => WlrTypeOK
    BY DEF WlrInv
<1> QED BY <1>1, WlrInvariant, PTL

\* At rest the subscribers know the heads and the serial, whatever was dropped.
THEOREM OutputsStayCurrent == WlrSpec => []OutputsAreCurrent
<1>1. ASSUME WlrInv, WlrAtRest
      PROVE  lastOutputs = {[heads |-> Listed(heads), serial |-> headSerial]}
    <2>1. ~Has(Update)
        BY <1>1 DEF WlrAtRest, Has
    <2>2. outputs = [heads |-> Listed(heads), serial |-> headSerial]
        BY <1>1, <2>1 DEF WlrInv, Fresh, WlrAtRest
    <2>3. lastOutputs = {outputs}
        BY <1>1 DEF WlrInv, Marked, WlrAtRest
    <2> QED BY <2>2, <2>3
<1>2. WlrInv => OutputsAreCurrent
    BY <1>1 DEF OutputsAreCurrent
<1> QED BY <1>2, WlrInvariant, PTL

\* Whoever waits for a configuration is still to be answered, or a full queue dropped it.
THEOREM AppliersAreServed == WlrSpec => []ApplierIsServed
<1>1. ASSUME WlrInv, NEW r \in Appliers, applier[r] = "waiting"
      PROVE  \/ r \in overflowed \/ resultChan[r]
             \/ \E i \in DOMAIN wlrQueue : wlrQueue[i] = Apply(r)
             \/ configTimer[r] \in {"armed", "posted", "expiring"}
    <2>1. Served(r) /\ DOMAIN wlrQueue = 1..Len(wlrQueue)
        BY <1>1 DEF WlrInv, WlrTypeOK
    <2> QED BY <1>1, <2>1 DEF Served, Has
<1>2. WlrInv => ApplierIsServed
    BY <1>1 DEF ApplierIsServed
<1> QED BY <1>2, WlrInvariant, PTL
=============================================================================
