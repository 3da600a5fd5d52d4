--------------------------- MODULE ManagersProofs ---------------------------
(***************************************************************************)
(* Proofs about the sleep inhibitor and the printer subscription, each for *)
(* itself, and the types of both.                                          *)
(***************************************************************************)
EXTENDS MCManagers, TLAPS

-----------------------------------------------------------------------------
(***************************************************************************)
(* SleepInhibitor, for any clients and bounds: the types, the life of the  *)
(* ready channels, and the agreement of the manager's sleep cycle with     *)
(* logind's.                                                               *)
(***************************************************************************)

\* What a signal makes of the sleep cycle.
After(was, sig) == IF sig = "Sleep" THEN TRUE ELSE IF sig = "Wake" THEN FALSE ELSE was

\* f[i] is logind's idea of the suspend as it was when i of the waiting signals had been sent:
\* a suspend is announced when there is none, a resume when there is one.
Traces(f, was, q, e) ==
    /\ f[0] = was /\ f[Len(q)] = e
    /\ \A i \in 1..Len(q) :
         /\ f[i] = After(f[i - 1], q[i])
         /\ q[i] = "Sleep" => ~f[i - 1]
         /\ q[i] = "Wake" => f[i - 1]

\* The waiting signals lead from the manager's idea of the cycle to logind's.
QueueIsHonest ==
    \E f \in [0..Len(signals) -> BOOLEAN] : Traces(f, inCycle, signals, suspending)

\* At most one suspend waits to be handled, and there is a cycle left for it.
OneSuspendWaits ==
    /\ \A i \in 1..Len(signals) : signals[i] = "Sleep" => cycle < MaxCycles
    /\ \A i, j \in 1..Len(signals) : signals[i] = "Sleep" /\ signals[j] = "Sleep" => i = j

\* The ready channel is that of the cycle in progress, and until its resume has closed it.
ChannelOfCycle ==
    /\ readyCh # None => readyCh = cycle /\ (inCycle \/ pump = "ending")
    /\ pump = "starting" => /\ inCycle /\ readyCh = None /\ cycle \in Cycles
                            /\ cycle \notin closedCh /\ waiter[cycle] = "none"
    /\ \A c \in Cycles : c > cycle => c \notin closedCh /\ waiter[c] = "none"

\* Between two signals what is published is the cycle; only a resume, which publishes last, lags.
PublishedFollows ==
    /\ pump = "ending" => handling = "Wake" /\ ~inCycle
    /\ pump = "starting" => inCycle
    /\ pump \in {"testing", "acquiring"} /\ handling = "Wake" => ~inCycle
    /\ pump \in {"testing", "acquiring"} /\ handling # "Wake" => preparing = inCycle
    /\ pump = "idle" => preparing = inCycle

SleepInv ==
    /\ TypeOK /\ QueueIsHonest /\ OneSuspendWaits
    /\ ChannelOfCycle /\ ReadyChannelSound /\ PublishedFollows

-----------------------------------------------------------------------------
\* A signal that logind sends extends the trace of the queue.
LEMMA SendKeepsTrace ==
    ASSUME NEW q \in Seq(Signals), NEW was \in BOOLEAN, NEW e \in BOOLEAN, NEW sig \in Signals,
           \E f \in [0..Len(q) -> BOOLEAN] : Traces(f, was, q, e),
           sig = "Sleep" => ~e, sig = "Wake" => e
    PROVE  \E f \in [0..Len(Append(q, sig)) -> BOOLEAN] :
               Traces(f, was, Append(q, sig), After(e, sig))
<1> DEFINE n == Len(q)
           r == Append(q, sig)
<1>1. n \in Nat /\ Len(r) = n + 1 /\ r[n + 1] = sig /\ \A i \in 1..n : r[i] = q[i]
    OBVIOUS
<1>2. PICK f \in [0..n -> BOOLEAN] : Traces(f, was, q, e)
    OBVIOUS
<1> DEFINE g == [i \in 0..(n + 1) |-> IF i = n + 1 THEN After(e, sig) ELSE f[i]]
<1>3. g \in [0..Len(r) -> BOOLEAN]
    BY <1>1 DEF After
<1>4. g[0] = was /\ g[Len(r)] = After(e, sig)
    BY <1>1, <1>2 DEF Traces
<1>5. ASSUME NEW i \in 1..Len(r)
      PROVE  /\ g[i] = After(g[i - 1], r[i])
             /\ r[i] = "Sleep" => ~g[i - 1]
             /\ r[i] = "Wake" => g[i - 1]
  <2>1. CASE i = n + 1
    <3>1. g[i - 1] = e /\ g[i] = After(e, sig) /\ r[i] = sig
        BY <1>1, <1>2, <2>1 DEF Traces
    <3> QED BY <3>1
  <2>2. CASE i \in 1..n
    <3>1. g[i - 1] = f[i - 1] /\ g[i] = f[i] /\ r[i] = q[i]
        BY <1>1, <2>2
    <3> QED BY <1>2, <2>2, <3>1 DEF Traces
  <2> QED BY <1>1, <2>1, <2>2
<1>6. Traces(g, was, r, After(e, sig))
    BY <1>4, <1>5 DEF Traces
<1> QED BY <1>3, <1>6

\* The signal the pump takes moves the start of the trace.
LEMMA TakeKeepsTrace ==
    ASSUME NEW q \in Seq(Signals), q # <<>>, NEW was \in BOOLEAN, NEW e \in BOOLEAN,
           \E f \in [0..Len(q) -> BOOLEAN] : Traces(f, was, q, e)
    PROVE  /\ Head(q) = "Sleep" => ~was
           /\ Head(q) = "Wake" => was
           /\ \E f \in [0..Len(Tail(q)) -> BOOLEAN] : Traces(f, After(was, Head(q)), Tail(q), e)
<1> DEFINE n == Len(q)
           r == Tail(q)
<1>1. /\ n \in Nat /\ n >= 1 /\ Len(r) = n - 1 /\ Head(q) = q[1]
      /\ \A i \in 1..(n - 1) : r[i] = q[i + 1]
    OBVIOUS
<1>2. PICK f \in [0..n -> BOOLEAN] : Traces(f, was, q, e)
    OBVIOUS
<1> DEFINE g == [i \in 0..(n - 1) |-> f[i + 1]]
<1>3. /\ f[1] = After(was, Head(q))
      /\ Head(q) = "Sleep" => ~was
      /\ Head(q) = "Wake" => was
  <2>1. 1 \in 1..n /\ f[1 - 1] = was
      BY <1>1, <1>2 DEF Traces
  <2> QED BY <1>1, <1>2, <2>1 DEF Traces
<1>4. g \in [0..Len(r) -> BOOLEAN]
    BY <1>1
<1>5. g[0] = After(was, Head(q)) /\ g[Len(r)] = e
    BY <1>1, <1>2, <1>3 DEF Traces
<1>6. ASSUME NEW i \in 1..Len(r)
      PROVE  /\ g[i] = After(g[i - 1], r[i])
             /\ r[i] = "Sleep" => ~g[i - 1]
             /\ r[i] = "Wake" => g[i - 1]
  <2>1. i + 1 \in 1..n /\ (i + 1) - 1 = i
      BY <1>1
  <2>2. g[i] = f[i + 1] /\ g[i - 1] = f[i] /\ r[i] = q[i + 1]
      BY <1>1
  <2>3. /\ f[i + 1] = After(f[(i + 1) - 1], q[i + 1])
        /\ q[i + 1] = "Sleep" => ~f[(i + 1) - 1]
        /\ q[i + 1] = "Wake" => f[(i + 1) - 1]
      BY <1>2, <2>1 DEF Traces
  <2> QED BY <2>1, <2>2, <2>3
<1>7. Traces(g, After(was, Head(q)), r, e)
    BY <1>5, <1>6 DEF Traces
<1> QED BY <1>3, <1>4, <1>7

\* What the pump takes, and what waits after it, are signals.
LEMMA TakeTypes ==
    ASSUME NEW q \in Seq(Signals), q # <<>>
    PROVE  /\ Head(q) \in Signals /\ Tail(q) \in Seq(Signals)
           /\ Len(Tail(q)) = Len(q) - 1 /\ Len(q) \in Nat
           /\ 1 \in 1..Len(q) /\ Head(q) = q[1]
           /\ \A i \in 1..Len(Tail(q)) : i + 1 \in 1..Len(q) /\ Tail(q)[i] = q[i + 1]
OBVIOUS

-----------------------------------------------------------------------------
(* What a step keeps by leaving its variables alone.                       *)

Queue == /\ QueueIsHonest /\ OneSuspendWaits
ReadyChannels == ChannelOfCycle /\ ReadyChannelSound

\* A step that sends no signal, takes none and starts or ends no cycle keeps the queue.
LEMMA QueueKept ==
    ASSUME Queue, UNCHANGED <<signals, suspending, inCycle, cycle>>
    PROVE  Queue'
BY DEF Queue, QueueIsHonest, OneSuspendWaits, Traces, After

\* A step that touches neither channels nor waiters nor the cycle keeps the channels sound.
LEMMA ChannelsKept ==
    ASSUME ReadyChannels, UNCHANGED <<chVars, cycleVars, waiter, pump>>
    PROVE  ReadyChannels'
BY DEF ReadyChannels, ChannelOfCycle, ReadyChannelSound, chVars, cycleVars

\* Closing the ready channel is sound at any time.
LEMMA ClosingIsSound ==
    ASSUME SleepInv, SignalReady, UNCHANGED <<cycleVars, waiter>>,
           pump' = pump \/ pump' \notin {"starting", "ending"}
    PROVE  ReadyChannels' /\ readyCh' \in Cycles \cup {None} /\ closedCh' \in SUBSET Cycles
<1>1. readyCh \in Cycles \cup {None} /\ closedCh \in SUBSET Cycles /\ cycle \in Nat
    BY BoundsAssumption DEF SleepInv, TypeOK
<1>2. readyCh' = None /\ closedCh' = closedCh \cup ({readyCh} \ {None})
    BY DEF SignalReady
<1>3. None \notin Cycles
    BY DEF None, Cycles
<1>4. ChannelOfCycle'
  <2>1. \A c \in Cycles : c > cycle' => c \notin closedCh' /\ waiter'[c] = "none"
      BY <1>1, <1>2 DEF SleepInv, ChannelOfCycle, cycleVars, Cycles
  <2>2. pump' = "starting" => /\ inCycle' /\ readyCh' = None /\ cycle' \in Cycles
                              /\ cycle' \notin closedCh' /\ waiter'[cycle'] = "none"
      BY <1>2 DEF SleepInv, ChannelOfCycle, cycleVars
  <2> QED BY <1>2, <2>1, <2>2 DEF ChannelOfCycle
<1>5. ReadyChannelSound'
    BY <1>1, <1>2, <1>3 DEF SleepInv, ReadyChannelSound
<1> QED BY <1>1, <1>2, <1>4, <1>5 DEF ReadyChannels

\* logind grants an inhibitor or refuses it.
LEMMA InhibitTypes ==
    ASSUME held \in BOOLEAN, Inhibit
    PROVE  held' \in BOOLEAN
<1>1. CASE held \/ ~InhibitMayFail
    BY <1>1 DEF Inhibit
<1>2. CASE ~(held \/ ~InhibitMayFail)
    BY <1>2 DEF Inhibit
<1> QED BY <1>1, <1>2

\* The invariant's parts, regrouped.
LEMMA InvParts ==
    /\ SleepInv <=> TypeOK /\ Queue /\ ReadyChannels /\ PublishedFollows
    /\ SleepInv' <=> TypeOK' /\ Queue' /\ ReadyChannels' /\ PublishedFollows'
BY DEF SleepInv, Queue, ReadyChannels

-----------------------------------------------------------------------------
\* The daemon starts with no cycle, no channel and nothing waiting.
LEMMA InitInv == Init => SleepInv
<1> SUFFICES ASSUME Init PROVE SleepInv
    OBVIOUS
<1>1. TypeOK
  <2>1. signals \in Seq(Signals) /\ lockFirst \in BOOLEAN
      BY DEF Init
  <2>4. held \in BOOLEAN
    <3>1. CASE InhibitMayFail
        BY <3>1 DEF Init
    <3>2. CASE ~InhibitMayFail
        BY <3>2 DEF Init
    <3> QED BY <3>1, <3>2
  <2>2. suspending \in BOOLEAN /\ enabled \in BOOLEAN /\ inCycle \in BOOLEAN
        /\ locked \in BOOLEAN /\ preparing \in BOOLEAN
      BY DEF Init
  <2>3. requests \in 0..MaxRequests /\ cycle \in 0..MaxCycles
      BY BoundsAssumption DEF Init
  <2> QED BY <2>1, <2>2, <2>3, <2>4 DEF Init, TypeOK
<1>2. QueueIsHonest
  <2> DEFINE f == [i \in 0..0 |-> FALSE]
  <2>1. signals = <<>> /\ Len(signals) = 0 /\ inCycle = FALSE /\ suspending = FALSE
      BY DEF Init
  <2>2. f \in [0..Len(signals) -> BOOLEAN] /\ f[0] = FALSE
      BY <2>1
  <2>3. Traces(f, inCycle, signals, suspending)
    <3>1. 1..Len(signals) = {}
        BY <2>1
    <3> QED BY <2>1, <2>2, <3>1 DEF Traces
  <2> QED BY <2>2, <2>3 DEF QueueIsHonest
<1>3. OneSuspendWaits
    BY DEF Init, OneSuspendWaits
<1>4. ReadyChannels
    BY BoundsAssumption DEF Init, ReadyChannels, ChannelOfCycle, ReadyChannelSound, Cycles, None
<1>5. PublishedFollows
    BY DEF Init, PublishedFollows
<1> QED BY <1>1, <1>2, <1>3, <1>4, <1>5, InvParts DEF Queue

-----------------------------------------------------------------------------
(* Signals are sent.                                                       *)

LEMMA SendingKeepsInv ==
    ASSUME SleepInv, NEW sig \in Signals,
           signals' = Append(signals, sig), suspending' = After(suspending, sig),
           sig = "Sleep" => ~suspending, sig = "Wake" => suspending,
           sig = "Sleep" => cycle < MaxCycles /\ \A i \in DOMAIN signals : signals[i] # "Sleep",
           requests' \in 0..MaxRequests,
           UNCHANGED <<flagVars, cycleVars, held, chVars, timerVars, waiter, stateVars,
                       pumpVars, client>>
    PROVE  SleepInv'
<1>1. signals \in Seq(Signals) /\ suspending \in BOOLEAN /\ inCycle \in BOOLEAN
    BY DEF SleepInv, TypeOK
<1>2. TypeOK'
  <2>1. signals' \in Seq(Signals)
      BY <1>1
  <2>2. suspending' \in BOOLEAN
      BY <1>1 DEF After
  <2> QED BY <2>1, <2>2 DEF SleepInv, TypeOK, flagVars, cycleVars, chVars, timerVars, stateVars,
                            pumpVars
<1>3. QueueIsHonest'
  <2>1. \E f \in [0..Len(signals) -> BOOLEAN] : Traces(f, inCycle, signals, suspending)
      BY DEF SleepInv, QueueIsHonest
  <2>2. \E f \in [0..Len(Append(signals, sig)) -> BOOLEAN] :
            Traces(f, inCycle, Append(signals, sig), After(suspending, sig))
      BY <1>1, <2>1, SendKeepsTrace
  <2>3. inCycle' = inCycle
      BY DEF cycleVars
  <2> QED BY <2>2, <2>3 DEF QueueIsHonest, Traces, After
<1>4. OneSuspendWaits'
  <2>1. /\ Len(signals) \in Nat /\ DOMAIN signals = 1..Len(signals)
        /\ Len(signals') = Len(signals) + 1 /\ signals'[Len(signals) + 1] = sig
        /\ \A i \in 1..Len(signals) : signals'[i] = signals[i]
      BY <1>1
  <2>2. cycle' = cycle
      BY DEF cycleVars
  <2> QED BY <2>1, <2>2 DEF SleepInv, OneSuspendWaits
<1>5. ReadyChannels' /\ PublishedFollows'
    BY ChannelsKept, InvParts DEF PublishedFollows, pumpVars, stateVars, cycleVars
<1> QED BY <1>2, <1>3, <1>4, <1>5, InvParts DEF Queue

LEMMA LogindKeepsInv ==
    ASSUME SleepInv, Suspend \/ Resume \/ \E sig \in Signals : External(sig)
    PROVE  SleepInv'
<1>1. requests \in 0..MaxRequests /\ MaxRequests \in Nat /\ requests \in Nat
      /\ suspending \in BOOLEAN
    BY BoundsAssumption DEF SleepInv, TypeOK
<1>2. CASE Suspend
  <2>1. "Sleep" \in Signals /\ suspending' = After(suspending, "Sleep")
      BY <1>2 DEF Suspend, After, Signals
  <2> QED BY <1>1, <1>2, <2>1, SendingKeepsInv DEF Suspend
<1>3. CASE Resume
  <2>1. "Wake" \in Signals /\ suspending' = After(suspending, "Wake")
      BY <1>3 DEF Resume, After, Signals
  <2> QED BY <1>1, <1>3, <2>1, SendingKeepsInv DEF Resume
<1>4. ASSUME NEW sig \in Signals, External(sig) PROVE SleepInv'
  <2>1. sig \notin {"Sleep", "Wake"} /\ suspending' = After(suspending, sig)
      BY <1>4 DEF External, After
  <2>2. requests' \in 0..MaxRequests
      BY <1>1, <1>4 DEF External
  <2> QED BY <1>4, <2>1, <2>2, SendingKeepsInv DEF External
<1> QED BY <1>2, <1>3, <1>4

-----------------------------------------------------------------------------
(* Signals are handled.                                                    *)

\* Handling anything but a suspend shortens the queue and ends at most the cycle.
LEMMA TakingKeepsQueue ==
    ASSUME SleepInv, NEW sig \in Signals, Take(sig), sig # "Sleep",
           signals' = Tail(signals), inCycle' = After(inCycle, sig),
           UNCHANGED <<suspending, cycle>>
    PROVE  Queue' /\ signals' \in Seq(Signals) /\ handling' \in Signals
<1>1. signals \in Seq(Signals) /\ signals # <<>> /\ Head(signals) = sig /\ handling' = sig
      /\ suspending \in BOOLEAN /\ inCycle \in BOOLEAN
    BY DEF SleepInv, TypeOK, Take
<1>2. \E f \in [0..Len(signals) -> BOOLEAN] : Traces(f, inCycle, signals, suspending)
    BY DEF SleepInv, QueueIsHonest
<1>3. \E f \in [0..Len(Tail(signals)) -> BOOLEAN] :
          Traces(f, After(inCycle, sig), Tail(signals), suspending)
    BY <1>1, <1>2, TakeKeepsTrace
<1>4. QueueIsHonest'
    BY <1>3 DEF QueueIsHonest, Traces, After
<1>5. OneSuspendWaits'
    BY <1>1, TakeTypes DEF SleepInv, OneSuspendWaits
<1> QED BY <1>1, <1>4, <1>5, TakeTypes DEF Queue

LEMMA LockKeepsInv ==
    ASSUME SleepInv, HandleLock
    PROVE  SleepInv'
<1>1. Queue' /\ signals' \in Seq(Signals) /\ handling' \in Signals
  <2>1. Take("Lock") /\ "Lock" \in Signals /\ signals' = Tail(signals)
        /\ inCycle' = After(inCycle, "Lock") /\ UNCHANGED <<suspending, cycle>>
      BY DEF HandleLock, Signals, After, logindVars, cycleVars
  <2> QED BY <2>1, TakingKeepsQueue
<1>2. TypeOK'
  <2>1. lockTimer' \in Cycles \cup {None}
      BY BoundsAssumption DEF SleepInv, TypeOK, HandleLock, Cycles, None
  <2> QED BY <1>1, <2>1 DEF SleepInv, TypeOK, HandleLock, logindVars, flagVars, cycleVars, chVars
<1>3. ReadyChannels' /\ PublishedFollows'
  <2>1. pump = "idle" /\ pump' = "idle" /\ UNCHANGED <<preparing, cycleVars>>
      BY DEF HandleLock, Take
  <2> QED BY <2>1, ChannelsKept, InvParts DEF PublishedFollows, HandleLock, cycleVars
<1> QED BY <1>1, <1>2, <1>3, InvParts

LEMMA UnlockKeepsInv ==
    ASSUME SleepInv, HandleUnlock
    PROVE  SleepInv'
<1>1. Queue' /\ signals' \in Seq(Signals) /\ handling' \in Signals
  <2>1. Take("Unlock") /\ "Unlock" \in Signals /\ signals' = Tail(signals)
        /\ inCycle' = After(inCycle, "Unlock") /\ UNCHANGED <<suspending, cycle>>
      BY DEF HandleUnlock, Signals, After, logindVars, cycleVars
  <2> QED BY <2>1, TakingKeepsQueue
<1>2. TypeOK'
    BY <1>1 DEF SleepInv, TypeOK, HandleUnlock, logindVars, flagVars, cycleVars, chVars
<1>3. ReadyChannels'
    BY DEF SleepInv, ReadyChannels, ChannelOfCycle, ReadyChannelSound, HandleUnlock, Take,
           cycleVars, chVars
<1>4. PublishedFollows'
    BY DEF SleepInv, PublishedFollows, HandleUnlock, Take, cycleVars
<1> QED BY <1>1, <1>2, <1>3, <1>4, InvParts

LEMMA OwnerKeepsInv ==
    ASSUME SleepInv, HandleOwner
    PROVE  SleepInv'
<1>1. Queue' /\ signals' \in Seq(Signals) /\ handling' \in Signals
  <2>1. Take("OwnerChanged") /\ "OwnerChanged" \in Signals /\ signals' = Tail(signals)
        /\ inCycle' = After(inCycle, "OwnerChanged") /\ UNCHANGED <<suspending, cycle>>
      BY DEF HandleOwner, Signals, After, logindVars, cycleVars
  <2> QED BY <2>1, TakingKeepsQueue
<1>2. pump = "idle" /\ pump' \in {"idle", "testing"} /\ handling' = "OwnerChanged"
    BY DEF HandleOwner, Take
<1>3. TypeOK'
    BY <1>1, <1>2 DEF SleepInv, TypeOK, HandleOwner, logindVars, flagVars, cycleVars, chVars,
                      timerVars, stateVars
<1>4. ReadyChannels'
    BY <1>2 DEF SleepInv, ReadyChannels, ChannelOfCycle, ReadyChannelSound, HandleOwner, cycleVars,
                chVars
<1>5. PublishedFollows'
    BY <1>2 DEF SleepInv, PublishedFollows, HandleOwner, cycleVars, stateVars
<1> QED BY <1>1, <1>3, <1>4, <1>5, InvParts

LEMMA WakeKeepsInv ==
    ASSUME SleepInv, HandleWake
    PROVE  SleepInv'
<1>1. Queue' /\ signals' \in Seq(Signals) /\ handling' \in Signals
  <2>1. Take("Wake") /\ "Wake" \in Signals /\ signals' = Tail(signals)
        /\ inCycle' = After(inCycle, "Wake") /\ UNCHANGED <<suspending, cycle>>
      BY DEF HandleWake, Signals, After, logindVars
  <2> QED BY <2>1, TakingKeepsQueue
<1>2. TypeOK'
    BY <1>1 DEF SleepInv, TypeOK, HandleWake, logindVars, flagVars, chVars, timerVars, stateVars
<1>3. ReadyChannels'
    BY DEF SleepInv, ReadyChannels, ChannelOfCycle, ReadyChannelSound, HandleWake, Take, chVars
<1>4. PublishedFollows'
    BY DEF SleepInv, PublishedFollows, HandleWake, Take, stateVars
<1> QED BY <1>1, <1>2, <1>3, <1>4, InvParts

\* A suspend: there is no cycle, hence no ready channel, and the next cycle is untouched.
LEMMA SleepKeepsInv ==
    ASSUME SleepInv, HandleSleep
    PROVE  SleepInv'
<1>1. /\ signals \in Seq(Signals) /\ signals # <<>> /\ Head(signals) = "Sleep"
      /\ suspending \in BOOLEAN /\ inCycle \in BOOLEAN /\ pump = "idle" /\ cycle \in 0..MaxCycles
      /\ inCycle' = TRUE /\ cycle' = cycle + 1 /\ suspending' = suspending
    BY DEF SleepInv, TypeOK, HandleSleep, Take, logindVars
<1>2. /\ ~inCycle
      /\ \E f \in [0..Len(Tail(signals)) -> BOOLEAN] : Traces(f, TRUE, Tail(signals), suspending)
  <2>1. \E f \in [0..Len(signals) -> BOOLEAN] : Traces(f, inCycle, signals, suspending)
      BY DEF SleepInv, QueueIsHonest
  <2>2. After(inCycle, Head(signals)) = TRUE
      BY <1>1 DEF After
  <2> QED BY <1>1, <2>1, <2>2, TakeKeepsTrace
<1>3. cycle < MaxCycles /\ \A i \in 1..Len(Tail(signals)) : Tail(signals)[i] # "Sleep"
    BY <1>1, TakeTypes DEF SleepInv, OneSuspendWaits
<1>4. Tail(signals) \in Seq(Signals) /\ "Lock" \in Signals
    BY <1>1, TakeTypes DEF Signals
<1>5. Queue' /\ signals' \in Seq(Signals)
  <2>1. CASE lockFirst
    <3>1. signals' = Append(Tail(signals), "Lock")
        BY <2>1 DEF HandleSleep
    <3>2. After(suspending, "Lock") = suspending
        BY DEF After
    <3>3. \E f \in [0..Len(signals') -> BOOLEAN] : Traces(f, TRUE, signals', suspending)
        BY <1>1, <1>2, <1>4, <3>1, <3>2, SendKeepsTrace
    <3>4. QueueIsHonest'
        BY <1>1, <3>3 DEF QueueIsHonest, Traces, After
    <3>5. \A i \in 1..Len(signals') : signals'[i] # "Sleep"
      <4> DEFINE q == Tail(signals)
      <4>1. q \in Seq(Signals) /\ signals' = Append(q, "Lock")
            /\ \A i \in 1..Len(q) : q[i] # "Sleep"
          BY <1>3, <1>4, <3>1
      <4> HIDE DEF q
      <4> QED BY <4>1
    <3>6. OneSuspendWaits'
        BY <3>5 DEF OneSuspendWaits
    <3> QED BY <1>4, <3>1, <3>4, <3>6 DEF Queue
  <2>2. CASE ~lockFirst
    <3>1. signals' = Tail(signals)
        BY <2>2 DEF HandleSleep
    <3>2. QueueIsHonest'
        BY <1>1, <1>2, <3>1 DEF QueueIsHonest, Traces, After
    <3>3. OneSuspendWaits'
        BY <1>3, <3>1 DEF OneSuspendWaits
    <3> QED BY <1>4, <3>1, <3>2, <3>3 DEF Queue
  <2> QED BY <2>1, <2>2
<1>6. TypeOK'
  <2>1. cycle' \in 0..MaxCycles /\ handling' \in Signals
      BY <1>1, <1>3, BoundsAssumption DEF HandleSleep, Take, Signals
  <2> QED BY <1>5, <2>1 DEF SleepInv, TypeOK, HandleSleep, logindVars, flagVars, chVars,
                            timerVars, stateVars
<1>7. ReadyChannels'
  <2>1. readyCh = None /\ readyCh' = readyCh /\ closedCh' = closedCh /\ waiter' = waiter
      BY <1>1, <1>2 DEF SleepInv, ChannelOfCycle, HandleSleep, chVars
  <2>2. cycle' \in Cycles /\ cycle' > cycle
      BY <1>1, <1>3, BoundsAssumption DEF Cycles
  <2>3. \A c \in Cycles : c > cycle' => c > cycle
      BY <1>1 DEF Cycles
  <2> QED BY <1>1, <2>1, <2>2, <2>3 DEF SleepInv, ReadyChannels, ChannelOfCycle, ReadyChannelSound
<1>8. PublishedFollows'
    BY <1>1 DEF PublishedFollows, HandleSleep
<1> QED BY <1>5, <1>6, <1>7, <1>8, InvParts

\* The new cycle gets a channel of its own, and a waiter on it.
LEMMA StartKeepsInv ==
    ASSUME SleepInv, StartCycle
    PROVE  SleepInv'
<1>1. Queue'
    BY QueueKept, InvParts DEF StartCycle, logindVars, cycleVars
<1>2. cycle \in Cycles /\ cycle \notin closedCh /\ inCycle = TRUE /\ readyCh' = cycle
      /\ pump' = "idle" /\ preparing' = TRUE /\ UNCHANGED <<closedCh, inCycle, cycle>>
    BY DEF SleepInv, TypeOK, ChannelOfCycle, StartCycle, cycleVars
<1>3. /\ waiter' \in [Cycles -> {"none", "blocked", "dropping", "gone"}]
      /\ \A c \in Cycles : c # cycle => waiter'[c] = waiter[c]
    BY <1>2 DEF SleepInv, TypeOK, StartCycle
<1>4. TypeOK'
    BY <1>2, <1>3 DEF SleepInv, TypeOK, StartCycle, logindVars, flagVars, cycleVars, timerVars
<1>5. ReadyChannels'
  <2>1. \A c \in Cycles : c > cycle => c # cycle
      BY DEF Cycles
  <2>2. \A c \in Cycles : waiter[c] = "blocked" => c \in closedCh
      BY DEF SleepInv, ReadyChannelSound, ChannelOfCycle, StartCycle, None, Cycles
  <2> QED BY <1>2, <1>3, <2>1, <2>2 DEF SleepInv, ReadyChannels, ChannelOfCycle, ReadyChannelSound
<1>6. PublishedFollows'
    BY <1>2 DEF PublishedFollows
<1> QED BY <1>1, <1>4, <1>5, <1>6, InvParts

\* The resume closes the channel of the cycle it ends.
LEMMA EndKeepsInv ==
    ASSUME SleepInv, EndCycle
    PROVE  SleepInv'
<1>1. Queue'
    BY QueueKept, InvParts DEF EndCycle, logindVars, cycleVars
<1>2. pump = "ending" /\ pump' \in {"testing", "stuck"}
    BY DEF EndCycle
<1>3. ReadyChannels' /\ readyCh' \in Cycles \cup {None} /\ closedCh' \in SUBSET Cycles
    BY <1>2, ClosingIsSound DEF EndCycle
<1>4. TypeOK'
    BY <1>2, <1>3 DEF SleepInv, TypeOK, EndCycle, logindVars, flagVars, cycleVars, timerVars,
                      stateVars
<1>5. PublishedFollows'
    BY <1>2 DEF SleepInv, PublishedFollows, EndCycle, cycleVars
<1> QED BY <1>1, <1>3, <1>4, <1>5, InvParts

\* The end of a handler: what is published agrees with the cycle again.
LEMMA ReturnKeepsInv ==
    ASSUME SleepInv, pump \in {"testing", "acquiring"}, Return, held' \in BOOLEAN
    PROVE  SleepInv'
<1>1. Queue'
    BY QueueKept, InvParts DEF Return, logindVars, cycleVars
<1>2. preparing' = inCycle /\ inCycle' = inCycle /\ pump' = "idle"
    BY DEF SleepInv, TypeOK, PublishedFollows, Return, cycleVars
<1>3. TypeOK'
    BY <1>2 DEF SleepInv, TypeOK, Return, logindVars, flagVars, cycleVars, chVars, timerVars
<1>4. ReadyChannels'
    BY DEF SleepInv, ReadyChannels, ChannelOfCycle, ReadyChannelSound, Return, cycleVars, chVars
<1>5. PublishedFollows'
    BY <1>2 DEF PublishedFollows
<1> QED BY <1>1, <1>3, <1>4, <1>5, InvParts

LEMMA AcquiringKeepsInv ==
    ASSUME SleepInv, PumpTest \/ PumpAcquire
    PROVE  SleepInv'
<1>1. CASE PumpTest /\ enabled
  <2>1. pump = "testing" /\ pump' = "acquiring"
        /\ UNCHANGED <<logindVars, signals, flagVars, cycleVars, held, chVars, timerVars,
                       waiter, stateVars, handling, client>>
      BY <1>1 DEF PumpTest
  <2>2. Queue'
      BY <2>1, QueueKept, InvParts DEF logindVars, cycleVars
  <2>3. TypeOK'
      BY <2>1 DEF SleepInv, TypeOK, logindVars, flagVars, cycleVars, chVars, timerVars, stateVars
  <2>4. ReadyChannels'
      BY <2>1 DEF SleepInv, ReadyChannels, ChannelOfCycle, ReadyChannelSound, cycleVars, chVars
  <2>5. PublishedFollows'
      BY <2>1 DEF SleepInv, PublishedFollows, cycleVars, stateVars
  <2> QED BY <2>2, <2>3, <2>4, <2>5, InvParts
<1>2. CASE PumpTest /\ ~enabled
  <2>1. pump = "testing" /\ Return /\ held' = held /\ held \in BOOLEAN
      BY <1>2 DEF PumpTest, SleepInv, TypeOK
  <2> QED BY <2>1, ReturnKeepsInv
<1>3. CASE PumpAcquire
  <2>1. pump = "acquiring" /\ Return /\ Inhibit
      BY <1>3 DEF PumpAcquire
  <2>2. held' \in BOOLEAN
      BY <2>1, InhibitTypes DEF SleepInv, TypeOK
  <2> QED BY <2>1, <2>2, ReturnKeepsInv
<1> QED BY <1>1, <1>2, <1>3

-----------------------------------------------------------------------------
(* Goroutines and requests.                                                *)

\* A step that moves only goroutines, timers, flags and the inhibitor.
LEMMA AsideKeepsInv ==
    ASSUME SleepInv, TypeOK',
           UNCHANGED <<suspending, signals, cycleVars, chVars, waiter, preparing, pumpVars>>
    PROVE  SleepInv'
<1>1. Queue'
    BY QueueKept, InvParts DEF cycleVars
<1>2. ReadyChannels'
    BY ChannelsKept, InvParts DEF pumpVars
<1>3. PublishedFollows'
    BY DEF SleepInv, PublishedFollows, pumpVars, cycleVars
<1> QED BY <1>1, <1>2, <1>3, InvParts

LEMMA WaiterKeepsInv ==
    ASSUME SleepInv, NEW c \in Cycles, WaiterCheck(c) \/ WaiterDrop(c)
    PROVE  SleepInv'
<1>1. /\ waiter[c] \in {"blocked", "dropping"}
      /\ waiter' \in [Cycles -> {"none", "blocked", "dropping", "gone"}]
      /\ waiter'[c] \in {"dropping", "gone"}
      /\ \A d \in Cycles : d # c => waiter'[d] = waiter[d]
      /\ held' \in BOOLEAN
      /\ UNCHANGED <<logindVars, signals, flagVars, cycleVars, chVars, timerVars, stateVars,
                     pumpVars, client>>
    BY DEF SleepInv, TypeOK, WaiterCheck, WaiterDrop, Release
<1>2. Queue'
    BY <1>1, QueueKept, InvParts DEF logindVars, cycleVars
<1>3. TypeOK'
    BY <1>1 DEF SleepInv, TypeOK, logindVars, flagVars, cycleVars, chVars, timerVars, stateVars,
                pumpVars
<1>4. ReadyChannels'
  <2>1. UNCHANGED <<readyCh, closedCh, inCycle, cycle, pump>>
      BY <1>1 DEF chVars, cycleVars, pumpVars
  <2>2. pump = "starting" => c # cycle
      BY <1>1 DEF SleepInv, ChannelOfCycle
  <2> QED BY <1>1, <2>1, <2>2 DEF SleepInv, ReadyChannels, ChannelOfCycle, ReadyChannelSound
<1>5. PublishedFollows'
    BY <1>1 DEF SleepInv, PublishedFollows, pumpVars, cycleVars, stateVars
<1> QED BY <1>2, <1>3, <1>4, <1>5, InvParts

LEMMA TimerKeepsInv ==
    ASSUME SleepInv, TimerFires \/ \E c \in Cycles : TimerCheck(c) \/ TimerDrop(c)
    PROVE  SleepInv'
<1>1. TypeOK'
  <2>1. /\ lockTimer' \in Cycles \cup {None} /\ fired' \in SUBSET Cycles
        /\ dropping' \in SUBSET Cycles
      BY DEF SleepInv, TypeOK, TimerFires, TimerCheck, TimerDrop
  <2>2. held' \in BOOLEAN
      BY DEF SleepInv, TypeOK, TimerFires, TimerCheck, TimerDrop, Release
  <2> QED BY <2>1, <2>2 DEF SleepInv, TypeOK, TimerFires, TimerCheck, TimerDrop, Release,
                            logindVars, flagVars, cycleVars, chVars, stateVars, pumpVars
<1>2. UNCHANGED <<suspending, signals, cycleVars, chVars, waiter, preparing, pumpVars>>
    BY DEF TimerFires, TimerCheck, TimerDrop, Release, logindVars, stateVars
<1> QED BY <1>1, <1>2, AsideKeepsInv

LEMMA RequestKeepsInv ==
    ASSUME SleepInv, NEW p \in Clients, NEW was \in BOOLEAN,
           SetLockBeforeSuspend(p, was) \/ SetEnabled(p, was) \/ LockerReady(p)
    PROVE  SleepInv'
<1>1. requests \in 0..MaxRequests /\ MaxRequests \in Nat
    BY BoundsAssumption DEF SleepInv, TypeOK
<1>2. requests' \in 0..MaxRequests
    BY <1>1 DEF SetLockBeforeSuspend, SetEnabled, LockerReady, Begin
<1>3. client' \in [Clients -> {"idle", "testing", "acquiring", "releasing", "readyCheck",
                               "readyDrop", "readySignal", "readyClose"}]
    BY DEF SleepInv, TypeOK, SetLockBeforeSuspend, SetEnabled, LockerReady, Begin
<1>4. enabled' \in BOOLEAN /\ lockFirst' \in BOOLEAN /\ lockTimer' \in Cycles \cup {None}
    BY DEF SleepInv, TypeOK, SetLockBeforeSuspend, SetEnabled, LockerReady, flagVars, timerVars
<1>5. UNCHANGED <<suspending, signals, cycleVars, chVars, waiter, stateVars, pumpVars, held,
                  fired, dropping>>
    BY DEF SetLockBeforeSuspend, SetEnabled, LockerReady, timerVars
<1>6. TypeOK'
    BY <1>2, <1>3, <1>4, <1>5 DEF SleepInv, TypeOK, cycleVars, chVars, stateVars, pumpVars
<1> QED BY <1>5, <1>6, AsideKeepsInv DEF stateVars

LEMMA ClientKeepsInv ==
    ASSUME SleepInv, NEW p \in Clients, ClientStep(p)
    PROVE  SleepInv'
<1>1. client' \in [Clients -> {"idle", "testing", "acquiring", "releasing", "readyCheck",
                               "readyDrop", "readySignal", "readyClose"}]
    BY DEF SleepInv, TypeOK, ClientStep, ClientTest, ClientAcquire, ClientRelease, ReadyCheck,
           ReadyDrop, ReadySignal, ReadyClose, Continue
<1>2. CASE ReadyClose(p)
  <2>1. /\ SignalReady
        /\ UNCHANGED <<logindVars, signals, flagVars, cycleVars, held, timerVars, waiter,
                       stateVars, pumpVars>>
      BY <1>2 DEF ReadyClose
  <2>2. ReadyChannels' /\ readyCh' \in Cycles \cup {None} /\ closedCh' \in SUBSET Cycles
      BY <2>1, ClosingIsSound DEF pumpVars
  <2>3. TypeOK'
      BY <1>1, <2>1, <2>2 DEF SleepInv, TypeOK, logindVars, flagVars, cycleVars, timerVars,
                              stateVars, pumpVars
  <2>4. Queue'
      BY <2>1, QueueKept, InvParts DEF logindVars, cycleVars
  <2>5. PublishedFollows'
      BY <2>1 DEF SleepInv, PublishedFollows, pumpVars, cycleVars, stateVars
  <2> QED BY <2>2, <2>3, <2>4, <2>5, InvParts
<1>3. CASE ~ReadyClose(p)
  <2>1. UNCHANGED <<logindVars, signals, flagVars, cycleVars, chVars, timerVars, waiter,
                    stateVars, pumpVars>>
      BY <1>3 DEF ClientStep, ClientTest, ClientAcquire, ClientRelease, ReadyCheck, ReadyDrop,
                  ReadySignal, Release
  <2>2. held' \in BOOLEAN
      BY <1>3, InhibitTypes DEF SleepInv, TypeOK, ClientStep, ClientTest, ClientAcquire,
         ClientRelease, ReadyCheck, ReadyDrop, ReadySignal, Release
  <2>3. TypeOK'
      BY <1>1, <2>1, <2>2 DEF SleepInv, TypeOK, logindVars, flagVars, cycleVars, chVars,
                              timerVars, stateVars, pumpVars
  <2> QED BY <2>1, <2>3, AsideKeepsInv DEF logindVars, stateVars
<1> QED BY <1>2, <1>3

-----------------------------------------------------------------------------
\* Every step preserves the invariant.
LEMMA StepKeepsInv == SleepInv /\ [Next]_vars => SleepInv'
<1> SUFFICES ASSUME SleepInv, [Next]_vars PROVE SleepInv'
    OBVIOUS
<1>1. CASE Environment
    BY <1>1, LogindKeepsInv, RequestKeepsInv DEF Environment
<1>2. CASE PumpStep
    BY <1>2, LockKeepsInv, UnlockKeepsInv, OwnerKeepsInv, SleepKeepsInv, StartKeepsInv,
       WakeKeepsInv, EndKeepsInv, AcquiringKeepsInv DEF PumpStep
<1>3. CASE TimerFires \/ \E c \in Cycles : GoroutineStep(c)
    BY <1>3, WaiterKeepsInv, TimerKeepsInv DEF GoroutineStep
<1>4. CASE \E p \in Clients : ClientStep(p)
    BY <1>4, ClientKeepsInv
<1>5. CASE UNCHANGED vars
  <2>1. TypeOK'
      BY <1>5 DEF SleepInv, TypeOK, vars, logindVars, flagVars, cycleVars, chVars, timerVars,
                  stateVars, pumpVars
  <2> QED BY <1>5, <2>1, AsideKeepsInv DEF vars, logindVars, stateVars
<1> QED BY <1>1, <1>2, <1>3, <1>4, <1>5 DEF Next

\* The inductive invariant of the sleep inhibitor.
THEOREM SleepInvariant == Spec => []SleepInv
<1> QED BY InitInv, StepKeepsInv, PTL DEF Spec

\* The manager's fields and the places of its goroutines keep their types (loginctl.Manager).
THEOREM TypeCorrect == Spec => []TypeOK
<1>1. SleepInv => TypeOK
    BY DEF SleepInv
<1> QED BY <1>1, SleepInvariant, PTL

\* No ready channel is closed twice and no waiter waits on one that is forgotten
\* (newLockerReadyCh, signalLockerReady).
THEOREM ReadyChannelsAreSound == Spec => []ReadyChannelSound
<1>1. SleepInv => ReadyChannelSound
    BY DEF SleepInv
<1> QED BY <1>1, SleepInvariant, PTL

\* Once every signal has been handled the manager's sleep cycle, and what it publishes of it,
\* are logind's (handleDBusSignal).
THEOREM CyclesAgree == Spec => []CycleFollowsLogind
<1>1. SleepInv => CycleFollowsLogind
  <2> SUFFICES ASSUME SleepInv, pump = "idle", signals = <<>>
               PROVE  inCycle = suspending /\ preparing = inCycle
      BY DEF CycleFollowsLogind
  <2>1. PICK f \in [0..Len(signals) -> BOOLEAN] : Traces(f, inCycle, signals, suspending)
      BY DEF SleepInv, QueueIsHonest
  <2>2. Len(signals) = 0
      OBVIOUS
  <2> QED BY <2>1, <2>2 DEF Traces, SleepInv, PublishedFollows
<1> QED BY <1>1, SleepInvariant, PTL

-----------------------------------------------------------------------------
(***************************************************************************)
(* CupsSubscription: the types, and what holds, for any clients, as long   *)
(* as no newcomer has crossed a stop.                                      *)
(***************************************************************************)

\* Who is registered has been stored and has not begun to leave.
Registered == {"starting", "connecting", "spawning", "in"}

CupsTypes == CupsTypeOK /\ \A c \in subscribers : cupsClient[c] \in Registered

LEMMA CupsInitTypes == CupsInit => CupsTypes
<1> SUFFICES ASSUME CupsInit PROVE CupsTypes
    OBVIOUS
<1>1. 0 \in Channels /\ 0 \in Nat
    BY StartsAssumption DEF Channels
<1>2. running \in BOOLEAN
    BY DEF CupsInit
<1> QED BY <1>1, <1>2 DEF CupsInit, CupsTypes, CupsTypeOK


LEMMA CupsStepTypes == CupsTypes /\ [CupsNext]_cupsVars => CupsTypes'
<1> SUFFICES ASSUME CupsTypes, [CupsNext]_cupsVars PROVE CupsTypes'
    OBVIOUS
<1> USE StartsAssumption DEF CupsTypes, CupsTypeOK, Channels, Starts, Registered, endVars, Overlap
<1>1. ASSUME NEW c \in CupsClients, SubscribeLook(c) PROVE CupsTypes'
    BY <1>1 DEF SubscribeLook, MoveClient, startVars, smVars, loopVars, handlerVars
<1>2. ASSUME NEW c \in CupsClients, SubscribeStore(c) PROVE CupsTypes'
    BY <1>2 DEF SubscribeStore, MoveClient, startVars, smVars, loopVars, handlerVars
<1>3. ASSUME NEW c \in CupsClients, StartEnter(c) PROVE CupsTypes'
    <2>1. starts' \in Channels /\ start' \in [CupsClients -> Channels] /\ eventChan' \in Channels
        <3>1. CASE running
            BY <1>3, <3>1 DEF StartEnter, startVars
        <3>2. CASE ~running
            <4>1. starts < MaxStarts /\ starts \in 0 .. MaxStarts /\ MaxStarts \in Nat
                BY <1>3, <3>2 DEF StartEnter
            <4>2. starts + 1 \in Channels
                BY ONLY <4>1 DEF Channels
            <4> HIDE DEF Channels
            <4> QED BY <1>3, <3>2, <4>2 DEF StartEnter, FreshEventChan
        <3> QED BY <3>1, <3>2
    <2>3. running' \in BOOLEAN
        BY <1>3 DEF StartEnter
    <2>2. /\ cupsClient[c] = "starting" /\ cupsClient'[c] \in {"in", "connecting"}
          /\ cupsClient' = [cupsClient EXCEPT ![c] = cupsClient'[c]]
        BY <1>3 DEF StartEnter, MoveClient
    <2> HIDE DEF Channels
    <2> QED BY <1>3, <2>1, <2>2, <2>3 DEF StartEnter, loopVars, handlerVars
<1>4. ASSUME NEW c \in CupsClients, StartFail(c) PROVE CupsTypes'
    BY <1>4 DEF StartFail, MoveClient, startVars, smVars, loopVars, handlerVars
<1>5. ASSUME NEW c \in CupsClients, StartLoop(c) PROVE CupsTypes'
    BY <1>5 DEF StartLoop, MoveClient, startVars, smVars, loopVars, handlerVars
<1>6. ASSUME NEW c \in CupsClients, StartHandler(c) PROVE CupsTypes'
    BY <1>6 DEF StartHandler, MoveClient, startVars, smVars, loopVars, handlerVars
<1>7. ASSUME NEW c \in CupsClients, Unsubscribe(c) PROVE CupsTypes'
    BY <1>7 DEF Unsubscribe, MoveClient, startVars, smVars, loopVars, handlerVars
<1>8. ASSUME NEW c \in CupsClients, UnsubscribeLook(c) PROVE CupsTypes'
    BY <1>8 DEF UnsubscribeLook, MoveClient, startVars, smVars, loopVars, handlerVars
<1>9. ASSUME NEW c \in CupsClients, StopEnter(c) PROVE CupsTypes'
    BY <1>9 DEF StopEnter, MoveClient, startVars, smVars, loopVars, handlerVars
<1>10. ASSUME NEW c \in CupsClients, StopSignal(c) PROVE CupsTypes'
    BY <1>10 DEF StopSignal, MoveClient, startVars, smVars, loopVars, handlerVars
<1>11. ASSUME NEW c \in CupsClients, StopJoin(c) PROVE CupsTypes'
    BY <1>11 DEF StopJoin, MoveClient, startVars, smVars, loopVars, handlerVars
<1>12. ASSUME NEW c \in CupsClients, StopRenew(c) PROVE CupsTypes'
    BY <1>12 DEF StopRenew, FreshStopChan, MoveClient, startVars, smVars, loopVars, handlerVars
<1>13. ASSUME NEW c \in CupsClients, StopClose(c) PROVE CupsTypes'
    BY <1>13 DEF StopClose, CloseEventChan, MoveClient, startVars, smVars, loopVars, handlerVars
<1>14. ASSUME NEW c \in CupsClients, StopAwait(c) PROVE CupsTypes'
    BY <1>14 DEF StopAwait, MoveClient, startVars, smVars, loopVars, handlerVars
<1>15. ASSUME NEW s \in Starts, LoopStep(s) PROVE CupsTypes'
    BY <1>15 DEF LoopStep, LoopSelect, LoopStops, LoopEvent, startVars, smVars, loopVars, handlerVars
<1>16. ASSUME NEW s \in Starts, EventHandlerStep(s) PROVE CupsTypes'
    BY <1>16 DEF EventHandlerStep, HandlerSelect, HandlerReceive, startVars, smVars, loopVars, handlerVars
<1>17. CASE UNCHANGED cupsVars
    BY <1>17 DEF cupsVars, startVars, smVars, loopVars, handlerVars
<1> QED BY <1>1, <1>2, <1>3, <1>4, <1>5, <1>6, <1>7, <1>8, <1>9, <1>10, <1>11, <1>12, <1>13, <1>14,
           <1>15, <1>16, <1>17 DEF CupsNext, CupsClientStep

\* Clients, loops and handlers keep their types, however many clients come and go
\* (cups.Manager, SubscriptionManager).
THEOREM CupsTypesHold == CupsSpec => []CupsTypeOK
<1>1. CupsTypes => CupsTypeOK
    BY DEF CupsTypes
<1> QED BY <1>1, CupsInitTypes, CupsStepTypes, PTL DEF CupsSpec

-----------------------------------------------------------------------------
(* While nothing has crossed, a stop has the manager to itself from        *)
(* StopEnter on, and so has a Start: the channels in use, the loop and the *)
(* handler are those of the last Start.                                    *)

Begun == {"connecting", "spawning"}
Signalling == {"signalling", "joining"}
Leaving == Signalling \cup {"renewing", "closing"}
Awake == {"top", "select"}

Somebody(places) == \E c \in CupsClients : cupsClient[c] \in places

\* Who is registered, and that nobody starts or stops what another is starting or stopping.
ClientsApart ==
    /\ \A c \in CupsClients : cupsClient[c] \in Registered => c \in subscribers
    /\ \A c \in CupsClients : Stopping(c) => ~running
    /\ \A c \in CupsClients : cupsClient[c] \in Begun => running /\ start[c] = starts
    /\ \A c, d \in CupsClients :
          \/ cupsClient[c] \in Begun /\ cupsClient[d] \in Begun
          \/ cupsClient[c] \in Leaving /\ cupsClient[d] \in Leaving
          => c = d
    /\ running => starts \in Starts

\* The channels in use are those of the last Start and the last Stop, and who may have closed them.
ChannelsInUse ==
    /\ eventChan = starts
    /\ \A e \in closedEvents : e <= starts
    /\ starts \in closedEvents => ~running /\ ~Somebody(Leaving)
    /\ \A e \in closedStops : e <= stopChan
    /\ stopChan \in closedStops => Somebody({"joining", "renewing"})

\* Only the last Start's loop lives, until a stop joins it.
LoopsAreOfLast ==
    /\ \A s \in Starts : loop[s] \in Awake =>
          /\ s = starts /\ (running \/ Somebody(Signalling))
          /\ loop[s] = "select" => loopStop[s] = stopChan
    /\ \A s \in Starts : s > starts \/ (s = starts /\ Somebody({"connecting"})) => loop[s] = "none"
    /\ running => loop[starts] \in Awake \/ Somebody({"connecting"})

\* Only the last Start's handler lives, until a stop has waited for it.
HandlersAreOfLast ==
    /\ \A s \in Starts : eventHandler[s] \in Awake =>
          /\ s = starts /\ (running \/ Somebody(Leaving \cup {"awaiting"})) /\ ~Somebody(Begun)
          /\ eventHandler[s] = "select" => handlerChan[s] = s
    /\ running => eventHandler[starts] \in Awake \/ Somebody(Begun)

\* Subscribers whose Start has been undone, or never was, are about to start again.
StartIsDue ==
    subscribers # {} /\ ~running /\ (starts = 0 \/ loop[starts] # "none") => Somebody({"starting"})

Uncrossed ==
    /\ NeverPanics
    /\ ClientsApart /\ ChannelsInUse /\ LoopsAreOfLast /\ HandlersAreOfLast /\ StartIsDue

CupsInv == CupsTypes /\ (overlapped \/ Uncrossed)

LEMMA CupsInitInv == CupsInit => CupsInv
<1> SUFFICES ASSUME CupsInit PROVE CupsInv
    OBVIOUS
<1>1. CupsTypes
    BY CupsInitTypes
<1>2. Uncrossed
    BY StartsAssumption DEF CupsInit, Uncrossed, NeverPanics, ClientsApart, ChannelsInUse,
       LoopsAreOfLast, HandlersAreOfLast, StartIsDue, Somebody, Stopping, Registered, Begun,
       Signalling, Leaving, Awake, Starts
<1> QED BY <1>1, <1>2 DEF CupsInv

\* A client's move is its own.
LEMMA MovesAlone ==
    ASSUME CupsTypeOK, NEW c \in CupsClients, NEW from, NEW to, MoveClient(c, from, to)
    PROVE  /\ cupsClient[c] = from /\ cupsClient'[c] = to /\ panic = "none"
           /\ \A d \in CupsClients : d # c => cupsClient'[d] = cupsClient[d]
BY DEF MoveClient, CupsTypeOK

LEMMA ClientUncrossed ==
    ASSUME CupsTypes, CupsTypes', Uncrossed, ~overlapped', NEW c \in CupsClients,
           SubscribeLook(c) \/ Unsubscribe(c) \/ CupsClientStep(c)
    PROVE  Uncrossed'
<1>0. /\ CupsTypeOK /\ CupsTypeOK' /\ panic = "none" /\ starts \in 0 .. MaxStarts
      /\ ClientsApart /\ ChannelsInUse /\ LoopsAreOfLast /\ HandlersAreOfLast /\ StartIsDue
    BY DEF CupsTypes, CupsTypeOK, Channels, Uncrossed, NeverPanics
<1> SUFFICES /\ panic' = "none" /\ ClientsApart' /\ ChannelsInUse' /\ LoopsAreOfLast'
             /\ HandlersAreOfLast' /\ StartIsDue'
    BY DEF Uncrossed, NeverPanics
<1> USE StartsAssumption DEF Starts, Registered, Begun, Signalling, Leaving, Awake, Somebody,
        Stopping, startVars, smVars, loopVars, handlerVars, endVars, Overlap
<1>1. CASE SubscribeLook(c)
    BY <1>0, <1>1, MovesAlone
       DEF SubscribeLook, ClientsApart, ChannelsInUse, LoopsAreOfLast, HandlersAreOfLast, StartIsDue
<1>2. CASE SubscribeStore(c)
    <2>0. /\ \/ cupsClient[c] = "storing" /\ cupsClient'[c] = "in" /\ subscribers # {}
             \/ cupsClient[c] = "storingFirst" /\ cupsClient'[c] = "starting"
          /\ \A d \in CupsClients : d # c => cupsClient'[d] = cupsClient[d]
          /\ subscribers' = subscribers \cup {c}
          /\ UNCHANGED <<startVars, smVars, loopVars, handlerVars, panic>>
        BY <1>0, <1>2, MovesAlone DEF SubscribeStore, ClientsApart, ChannelsInUse
    <2>1. ClientsApart'
        BY <1>0, <2>0 DEF ClientsApart
    <2>2. panic' = "none" /\ ChannelsInUse'
        BY <1>0, <2>0 DEF ChannelsInUse
    <2>3. LoopsAreOfLast'
        BY <1>0, <2>0 DEF LoopsAreOfLast
    <2>4. HandlersAreOfLast'
        BY <1>0, <2>0 DEF HandlersAreOfLast
    <2>5. StartIsDue'
        BY <1>0, <2>0 DEF StartIsDue
    <2> QED BY <2>1, <2>2, <2>3, <2>4, <2>5
<1>3. CASE StartEnter(c)
    <2>1. CASE running
        <3>a. /\ cupsClient[c] = "starting" /\ cupsClient'[c] = "in"
              /\ \A d \in CupsClients : d # c => cupsClient'[d] = cupsClient[d]
            BY <1>0, <1>3, <2>1, MovesAlone DEF StartEnter
        <3>b. UNCHANGED <<subscribers, startVars, smVars, loopVars, handlerVars, panic>>
            BY <1>3, <2>1 DEF StartEnter, startVars, smVars, loopVars, handlerVars
        <3>1. ClientsApart'
            BY <1>0, <2>1, <3>a, <3>b DEF ClientsApart
        <3>2. panic' = "none" /\ ChannelsInUse'
            BY <1>0, <2>1, <3>a, <3>b DEF ChannelsInUse
        <3>3. LoopsAreOfLast'
            BY <1>0, <2>1, <3>a, <3>b DEF LoopsAreOfLast
        <3>4. HandlersAreOfLast'
            BY <1>0, <2>1, <3>a, <3>b DEF HandlersAreOfLast
        <3>5. StartIsDue'
            BY <1>0, <2>1, <3>a, <3>b DEF StartIsDue
        <3> QED BY <3>1, <3>2, <3>3, <3>4, <3>5
    <2>2. CASE ~running
        <3>a. /\ cupsClient[c] = "starting" /\ cupsClient'[c] = "connecting"
              /\ \A d \in CupsClients : d # c => cupsClient'[d] = cupsClient[d]
            BY <1>0, <1>3, <2>2, MovesAlone DEF StartEnter
        <3>b. /\ starts < MaxStarts /\ starts' = starts + 1 /\ start'[c] = starts + 1
              /\ eventChan' = starts + 1 /\ running'
              /\ \A d \in CupsClients : ~Stopping(d)
            BY <1>0, <1>3, <2>2 DEF StartEnter, FreshEventChan, CupsTypeOK
        <3>c. \A d \in CupsClients : cupsClient[d] \notin Begun \cup Leaving \cup {"awaiting"}
            BY <1>0, <2>2, <3>b DEF ClientsApart
        <3>d. \A s \in Starts : loop[s] \notin Awake /\ eventHandler[s] \notin Awake
            BY <1>0, <2>2, <3>c DEF LoopsAreOfLast, HandlersAreOfLast
        <3>e. starts \in Nat /\ \A e \in closedEvents : e \in Nat
            <4>1. closedEvents \subseteq 0 .. MaxStarts
                BY <1>0 DEF CupsTypeOK, Channels
            <4> QED BY <1>0, <4>1
        <3>f. /\ UNCHANGED <<subscribers, closedEvents, stopChan, closedStops>>
              /\ UNCHANGED <<loopVars, handlerVars, panic>>
            BY <1>3, <2>2 DEF StartEnter
        <3>1. ClientsApart'
            BY <1>0, <2>2, <3>a, <3>b, <3>c, <3>d, <3>e, <3>f DEF ClientsApart
        <3>2. panic' = "none" /\ ChannelsInUse'
            BY <1>0, <2>2, <3>a, <3>b, <3>c, <3>d, <3>e, <3>f DEF ChannelsInUse
        <3>3. LoopsAreOfLast'
            BY <1>0, <2>2, <3>a, <3>b, <3>c, <3>d, <3>e, <3>f DEF LoopsAreOfLast
        <3>4. HandlersAreOfLast'
            BY <1>0, <2>2, <3>a, <3>b, <3>c, <3>d, <3>e, <3>f DEF HandlersAreOfLast
        <3>5. StartIsDue'
            BY <1>0, <2>2, <3>a, <3>b, <3>c, <3>d, <3>e, <3>f DEF StartIsDue
        <3> QED BY <3>1, <3>2, <3>3, <3>4, <3>5
    <2> QED BY <2>1, <2>2
<1>4. CASE StartFail(c)
    BY <1>0, <1>4, MovesAlone
       DEF StartFail, ClientsApart, ChannelsInUse, LoopsAreOfLast, HandlersAreOfLast, StartIsDue
<1>5. CASE StartLoop(c)
    <2>0. /\ cupsClient[c] = "connecting" /\ cupsClient'[c] = "spawning"
          /\ \A d \in CupsClients : d # c => cupsClient'[d] = cupsClient[d]
          /\ running /\ start[c] = starts /\ starts \in Starts
          /\ \A d \in CupsClients : cupsClient[d] \in Begun => d = c
          /\ loop' = [loop EXCEPT ![starts] = "top"]
          /\ UNCHANGED <<subscribers, startVars, smVars, loopStop, handlerVars, panic>>
        BY <1>0, <1>5, MovesAlone DEF StartLoop, ClientsApart, ChannelsInUse
    <2>1. ClientsApart'
        BY <1>0, <2>0 DEF ClientsApart
    <2>2. panic' = "none" /\ ChannelsInUse'
        BY <1>0, <2>0 DEF ChannelsInUse
    <2>3. LoopsAreOfLast'
        <3>1. loop'[starts] = "top" /\ \A s \in Starts : s # starts => loop'[s] = loop[s]
            BY <1>0, <2>0 DEF CupsTypeOK
        <3>2. \A d \in CupsClients : cupsClient'[d] # "connecting"
            BY <2>0
        <3> QED BY <1>0, <2>0, <3>1, <3>2 DEF LoopsAreOfLast
    <2>4. HandlersAreOfLast'
        BY <1>0, <2>0 DEF HandlersAreOfLast
    <2>5. StartIsDue'
        BY <1>0, <2>0 DEF StartIsDue
    <2> QED BY <2>1, <2>2, <2>3, <2>4, <2>5
<1>6. CASE StartHandler(c)
    <2>0. /\ cupsClient[c] = "spawning" /\ cupsClient'[c] = "in"
          /\ \A d \in CupsClients : d # c => cupsClient'[d] = cupsClient[d]
          /\ running /\ start[c] = starts /\ starts \in Starts
          /\ \A d \in CupsClients : cupsClient[d] \in Begun => d = c
          /\ eventHandler' = [eventHandler EXCEPT ![starts] = "top"]
          /\ UNCHANGED <<subscribers, startVars, smVars, loopVars, handlerChan, panic>>
        BY <1>0, <1>6, MovesAlone DEF StartHandler, ClientsApart, ChannelsInUse
    <2>1. ClientsApart'
        BY <1>0, <2>0 DEF ClientsApart
    <2>2. panic' = "none" /\ ChannelsInUse'
        BY <1>0, <2>0 DEF ChannelsInUse
    <2>3. LoopsAreOfLast'
        BY <1>0, <2>0 DEF LoopsAreOfLast
    <2>4. HandlersAreOfLast'
        BY <1>0, <2>0 DEF HandlersAreOfLast, CupsTypeOK
    <2>5. StartIsDue'
        BY <1>0, <2>0 DEF StartIsDue
    <2> QED BY <2>1, <2>2, <2>3, <2>4, <2>5
<1>7. CASE Unsubscribe(c)
    BY <1>0, <1>7, MovesAlone
       DEF Unsubscribe, ClientsApart, ChannelsInUse, LoopsAreOfLast, HandlersAreOfLast, StartIsDue
<1>8. CASE UnsubscribeLook(c)
    BY <1>0, <1>8, MovesAlone
       DEF UnsubscribeLook, ClientsApart, ChannelsInUse, LoopsAreOfLast, HandlersAreOfLast, StartIsDue
<1>9. CASE StopEnter(c)
    <2>1. CASE running
        <3>a. /\ cupsClient[c] = "stopping" /\ cupsClient'[c] = "signalling"
              /\ \A d \in CupsClients : d # c => cupsClient'[d] = cupsClient[d]
            BY <1>0, <1>9, <2>1, MovesAlone DEF StopEnter
        <3>b. subscribers = {} /\ ~running'
            BY <1>9, <2>1 DEF StopEnter
        <3>c. \A d \in CupsClients : cupsClient[d] \notin Begun \cup Leaving \cup {"awaiting"}
            BY <1>0, <2>1, <3>b DEF ClientsApart
        <3>d. /\ UNCHANGED <<subscribers, startVars, eventChan, closedEvents, stopChan, closedStops>>
              /\ UNCHANGED <<loopVars, handlerVars, panic>>
            BY <1>9 DEF StopEnter
        <3>1. ClientsApart'
            BY <1>0, <2>1, <3>a, <3>b, <3>c, <3>d DEF ClientsApart
        <3>2. panic' = "none" /\ ChannelsInUse'
            BY <1>0, <2>1, <3>a, <3>b, <3>c, <3>d DEF ChannelsInUse
        <3>3. LoopsAreOfLast'
            BY <1>0, <2>1, <3>a, <3>b, <3>c, <3>d DEF LoopsAreOfLast
        <3>4. HandlersAreOfLast'
            BY <1>0, <2>1, <3>a, <3>b, <3>c, <3>d DEF HandlersAreOfLast
        <3>5. StartIsDue'
            BY <1>0, <2>1, <3>a, <3>b, <3>c, <3>d DEF StartIsDue
        <3> QED BY <3>1, <3>2, <3>3, <3>4, <3>5
    <2>2. CASE ~running
        <3>a. /\ cupsClient[c] = "stopping" /\ cupsClient'[c] = "awaiting"
              /\ \A d \in CupsClients : d # c => cupsClient'[d] = cupsClient[d]
            BY <1>0, <1>9, <2>2, MovesAlone DEF StopEnter
        <3>b. ~running' /\ UNCHANGED <<subscribers, startVars, eventChan, closedEvents, stopChan>>
            BY <1>9 DEF StopEnter
        <3>c. UNCHANGED <<closedStops, loopVars, handlerVars, panic>>
            BY <1>9 DEF StopEnter
        <3>1. ClientsApart'
            BY <1>0, <2>2, <3>a, <3>b, <3>c DEF ClientsApart
        <3>2. panic' = "none" /\ ChannelsInUse'
            BY <1>0, <2>2, <3>a, <3>b, <3>c DEF ChannelsInUse
        <3>3. LoopsAreOfLast'
            BY <1>0, <2>2, <3>a, <3>b, <3>c DEF LoopsAreOfLast
        <3>4. HandlersAreOfLast'
            BY <1>0, <2>2, <3>a, <3>b, <3>c DEF HandlersAreOfLast
        <3>5. StartIsDue'
            BY <1>0, <2>2, <3>a, <3>b, <3>c DEF StartIsDue
        <3> QED BY <3>1, <3>2, <3>3, <3>4, <3>5
    <2> QED BY <2>1, <2>2
<1>10. CASE StopSignal(c)
    <2>0. /\ cupsClient[c] = "signalling" /\ cupsClient'[c] = "joining"
          /\ \A d \in CupsClients : d # c => cupsClient'[d] = cupsClient[d]
          /\ ~running /\ \A d \in CupsClients : cupsClient[d] \in Leaving => d = c
          /\ stopChan \notin closedStops /\ closedStops' = closedStops \cup {stopChan} /\ panic' = "none"
          /\ stopChan \in Nat
          /\ UNCHANGED <<subscribers, startVars, running, eventChan, closedEvents, stopChan, loopVars,
                         handlerVars>>
        BY <1>0, <1>10, MovesAlone DEF StopSignal, ClientsApart, ChannelsInUse, CupsTypeOK
    <2>1. ClientsApart'
        BY <1>0, <2>0 DEF ClientsApart
    <2>2. panic' = "none" /\ ChannelsInUse'
        BY <1>0, <2>0 DEF ChannelsInUse
    <2>3. LoopsAreOfLast'
        BY <1>0, <2>0 DEF LoopsAreOfLast
    <2>4. HandlersAreOfLast'
        BY <1>0, <2>0 DEF HandlersAreOfLast
    <2>5. StartIsDue'
        BY <1>0, <2>0 DEF StartIsDue
    <2> QED BY <2>1, <2>2, <2>3, <2>4, <2>5
<1>11. CASE StopJoin(c)
    BY <1>0, <1>11, MovesAlone
       DEF StopJoin, LoopsJoined, ClientsApart, ChannelsInUse, LoopsAreOfLast, HandlersAreOfLast, StartIsDue
<1>12. CASE StopRenew(c)
    <2>0. /\ cupsClient[c] = "renewing" /\ cupsClient'[c] = "closing"
          /\ \A d \in CupsClients : d # c => cupsClient'[d] = cupsClient[d]
          /\ ~running /\ \A d \in CupsClients : cupsClient[d] \in Leaving => d = c
          /\ stopChan' = stopChan + 1 /\ stopChan \in Nat /\ \A e \in closedStops : e \in Nat
          /\ UNCHANGED <<subscribers, startVars, running, eventChan, closedEvents, closedStops, loopVars,
                         handlerVars, panic>>
        BY <1>0, <1>12, MovesAlone DEF StopRenew, FreshStopChan, ClientsApart, ChannelsInUse,
                                         CupsTypeOK
    <2>1. ClientsApart'
        BY <1>0, <2>0 DEF ClientsApart
    <2>2. panic' = "none" /\ ChannelsInUse'
        BY <1>0, <2>0 DEF ChannelsInUse
    <2>3. LoopsAreOfLast'
        BY <1>0, <2>0 DEF LoopsAreOfLast
    <2>4. HandlersAreOfLast'
        BY <1>0, <2>0 DEF HandlersAreOfLast
    <2>5. StartIsDue'
        BY <1>0, <2>0 DEF StartIsDue
    <2> QED BY <2>1, <2>2, <2>3, <2>4, <2>5
<1>13. CASE StopClose(c)
    <2>0. /\ cupsClient[c] = "closing" /\ cupsClient'[c] = "awaiting"
          /\ \A d \in CupsClients : d # c => cupsClient'[d] = cupsClient[d]
          /\ ~running /\ \A d \in CupsClients : cupsClient[d] \in Leaving => d = c
          /\ eventChan = starts /\ closedEvents' = closedEvents \cup {starts} /\ panic' = "none"
          /\ UNCHANGED <<subscribers, startVars, running, eventChan, stopChan, closedStops, loopVars,
                         handlerVars>>
        BY <1>0, <1>13, MovesAlone DEF StopClose, CloseEventChan, ClientsApart, ChannelsInUse
    <2>1. ClientsApart'
        BY <1>0, <2>0 DEF ClientsApart
    <2>2. panic' = "none" /\ ChannelsInUse'
        BY <1>0, <2>0 DEF ChannelsInUse
    <2>3. LoopsAreOfLast'
        BY <1>0, <2>0 DEF LoopsAreOfLast
    <2>4. HandlersAreOfLast'
        BY <1>0, <2>0 DEF HandlersAreOfLast
    <2>5. StartIsDue'
        BY <1>0, <2>0 DEF StartIsDue
    <2> QED BY <2>1, <2>2, <2>3, <2>4, <2>5
<1>14. CASE StopAwait(c)
    BY <1>0, <1>14, MovesAlone
       DEF StopAwait, ClientsApart, ChannelsInUse, LoopsAreOfLast, HandlersAreOfLast, StartIsDue
<1> QED BY <1>1, <1>2, <1>3, <1>4, <1>5, <1>6, <1>7, <1>8, <1>9, <1>10, <1>11, <1>12, <1>13, <1>14
        DEF CupsClientStep

LEMMA GoroutineUncrossed ==
    ASSUME CupsTypes, CupsTypes', Uncrossed, NEW s \in Starts, LoopStep(s) \/ EventHandlerStep(s)
    PROVE  Uncrossed'
<1>0. /\ CupsTypeOK /\ CupsTypeOK' /\ panic = "none" /\ starts \in 0 .. MaxStarts
      /\ ClientsApart /\ ChannelsInUse /\ LoopsAreOfLast /\ HandlersAreOfLast /\ StartIsDue
    BY DEF CupsTypes, CupsTypeOK, Channels, Uncrossed, NeverPanics
<1> SUFFICES /\ panic' = "none" /\ ClientsApart' /\ ChannelsInUse' /\ LoopsAreOfLast'
             /\ HandlersAreOfLast' /\ StartIsDue'
    BY DEF Uncrossed, NeverPanics
<1> USE StartsAssumption DEF Starts, Registered, Begun, Signalling, Leaving, Awake, Somebody,
        Stopping, startVars, smVars, loopVars, handlerVars, endVars, CupsTypeOK,
        ClientsApart, ChannelsInUse, LoopsAreOfLast, HandlersAreOfLast, StartIsDue
<1>1. CASE LoopSelect(s)
    BY <1>0, <1>1 DEF LoopSelect
<1>2. CASE LoopStops(s)
    BY <1>0, <1>2 DEF LoopStops
<1>3. CASE LoopEvent(s)
    <2>1. s = starts /\ (running \/ Somebody(Signalling))
        BY <1>0, <1>3 DEF LoopEvent
    <2>2. eventChan \notin closedEvents
        BY <1>0, <2>1
    <2>3. /\ panic' = "none" /\ loop'[s] = "top" /\ \A t \in Starts : t # s => loop'[t] = loop[t]
          /\ UNCHANGED <<subscribers, cupsClient, startVars, smVars, loopStop, handlerVars>>
        BY <1>0, <1>3, <2>2 DEF LoopEvent
    <2>5. loop[s] = "select" /\ s \in 1 .. MaxStarts
        BY <1>3 DEF LoopEvent
    <2> HIDE DEF CupsTypeOK, ClientsApart, ChannelsInUse, HandlersAreOfLast, StartIsDue
    <2>4. LoopsAreOfLast'
        BY <1>0, <2>1, <2>3, <2>5
    <2>6. StartIsDue'
        BY <1>0, <2>1, <2>3, <2>5 DEF StartIsDue
    <2>7. ClientsApart' /\ ChannelsInUse' /\ HandlersAreOfLast'
        BY <1>0, <2>3 DEF ClientsApart, ChannelsInUse, HandlersAreOfLast
    <2> QED BY <2>3, <2>4, <2>6, <2>7
<1>4. CASE HandlerSelect(s)
    BY <1>0, <1>4 DEF HandlerSelect
<1>5. CASE HandlerReceive(s)
    BY <1>0, <1>5 DEF HandlerReceive
<1> QED BY <1>1, <1>2, <1>3, <1>4, <1>5 DEF LoopStep, EventHandlerStep

\* A crossing is never forgotten.
LEMMA CrossingLasts == overlapped /\ [CupsNext]_cupsVars => overlapped'
<1> SUFFICES ASSUME overlapped, [CupsNext]_cupsVars PROVE overlapped'
    OBVIOUS
<1> USE DEF endVars, Overlap
<1>1. ASSUME NEW c \in CupsClients, SubscribeLook(c) \/ Unsubscribe(c) PROVE overlapped'
    BY <1>1 DEF SubscribeLook, Unsubscribe
<1>2. ASSUME NEW c \in CupsClients, CupsClientStep(c) PROVE overlapped'
    BY <1>2 DEF CupsClientStep, SubscribeStore, StartEnter, StartFail, StartLoop, StartHandler,
       UnsubscribeLook, StopEnter, StopSignal, StopJoin, StopRenew, StopClose, StopAwait
<1>3. ASSUME NEW s \in Starts, LoopStep(s) \/ EventHandlerStep(s) PROVE overlapped'
    BY <1>3 DEF LoopStep, LoopSelect, LoopStops, LoopEvent, EventHandlerStep, HandlerSelect,
       HandlerReceive
<1>4. CASE UNCHANGED cupsVars
    BY <1>4 DEF cupsVars
<1> QED BY <1>1, <1>2, <1>3, <1>4 DEF CupsNext

LEMMA CupsStepInv == CupsInv /\ [CupsNext]_cupsVars => CupsInv'
<1> SUFFICES ASSUME CupsInv, [CupsNext]_cupsVars PROVE CupsInv'
    OBVIOUS
<1>1. CupsTypes /\ CupsTypes'
    BY CupsStepTypes DEF CupsInv
<1>2. SUFFICES ASSUME ~overlapped' PROVE Uncrossed'
    BY <1>1 DEF CupsInv
<1>3. Uncrossed
    BY <1>2, CrossingLasts DEF CupsInv
<1>4. ASSUME NEW c \in CupsClients, SubscribeLook(c) \/ Unsubscribe(c) \/ CupsClientStep(c)
      PROVE  Uncrossed'
    BY <1>1, <1>2, <1>3, <1>4, ClientUncrossed
<1>5. ASSUME NEW s \in Starts, LoopStep(s) \/ EventHandlerStep(s) PROVE Uncrossed'
    BY <1>1, <1>3, <1>5, GoroutineUncrossed
<1>6. CASE UNCHANGED cupsVars
    BY <1>3, <1>6 DEF cupsVars, startVars, smVars, loopVars, handlerVars, endVars, Uncrossed,
       NeverPanics, ClientsApart, ChannelsInUse, LoopsAreOfLast, HandlersAreOfLast, StartIsDue,
       Somebody, Stopping, Starts
<1> QED BY <1>4, <1>5, <1>6 DEF CupsNext

LEMMA CupsInvariant == CupsSpec => []CupsInv
BY CupsInitInv, CupsStepInv, PTL DEF CupsSpec

\* Whoever comes and goes, in whatever order and however often: as long as no newcomer has
\* crossed a stop, the subscribers whose last Start succeeded get events (Subscribe,
\* SubscriptionManager.Start, Stop).
THEOREM SubscribersAreFed == CupsSpec => []SubscriberIsFed
<1>1. CupsInv => SubscriberIsFed
    <2> SUFFICES ASSUME CupsInv, ~overlapped, NEW c \in CupsClients, cupsClient[c] = "in",
                        ~StartUnderWay
                 PROVE  eventChan # 0 /\ (loop[eventChan] # "none" => Fed(eventChan))
        BY DEF SubscriberIsFed
    <2>1. /\ ClientsApart /\ ChannelsInUse /\ LoopsAreOfLast /\ HandlersAreOfLast /\ StartIsDue
          /\ starts \in 0 .. MaxStarts
        BY DEF CupsInv, Uncrossed, CupsTypes, CupsTypeOK, Channels
    <2>2. ~Somebody(Begun) /\ ~Somebody({"starting"}) /\ ~Somebody({"connecting"})
        BY DEF StartUnderWay, Somebody, Begun
    <2>3. c \in subscribers
        BY <2>1 DEF ClientsApart, Registered
    <2>4. starts # 0 /\ (loop[starts] # "none" => running)
        BY <2>1, <2>2, <2>3, StartsAssumption DEF StartIsDue, ClientsApart, Starts
    <2>5. starts \in Starts
        BY <2>1, <2>4, StartsAssumption DEF Starts
    <2>6. ASSUME running PROVE Fed(starts)
        <3>1. loop[starts] \in Awake /\ eventHandler[starts] \in Awake
            BY <2>1, <2>2, <2>6 DEF LoopsAreOfLast, HandlersAreOfLast
        <3>2. starts \notin closedEvents /\ stopChan \notin closedStops
            BY <2>1, <2>6 DEF ChannelsInUse, ClientsApart, Somebody, Stopping
        <3> QED BY <2>1, <2>5, <3>1, <3>2
                DEF Fed, Awake, LoopsAreOfLast, HandlersAreOfLast
    <2> QED BY <2>1, <2>4, <2>6 DEF ChannelsInUse
<1> QED BY <1>1, CupsInvariant, PTL

\* The daemon is brought down only by a crossing: otherwise no channel is closed twice, and
\* none is written to once closed (SubscriptionManager.Stop, dbusListenerLoop).
THEOREM OnlyCrossingsPanic == CupsSpec => [](overlapped \/ NeverPanics)
<1>1. CupsInv => overlapped \/ NeverPanics
    BY DEF CupsInv, Uncrossed
<1> QED BY <1>1, CupsInvariant, PTL

-----------------------------------------------------------------------------
(***************************************************************************)
(* The managers in one behaviour.                                          *)
(***************************************************************************)

\* Each manager behaves as if the other were not there.
LEMMA ManagersParts == MCSpec => Spec /\ CupsSpec
<1>1. MCInit => Init /\ CupsInit
    BY DEF MCInit
<1>2. [MCNext]_<<part, vars, cupsVars>> => [Next]_vars /\ [CupsNext]_cupsVars
    BY DEF MCNext, Inhibitor, Printers
<1> QED BY <1>1, <1>2, PTL DEF MCSpec, Spec, CupsSpec

\* The two managers keep their types, whatever they are asked to do.
THEOREM ManagersTypesHold == MCSpec => []ManagersTypeOK
BY ManagersParts, TypeCorrect, CupsTypesHold, PTL DEF ManagersTypeOK
=============================================================================
