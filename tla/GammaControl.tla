----------------------------- MODULE GammaControl -----------------------------
(***************************************************************************)
(* The night light of the daemon (internal/server/wayland/manager.go).     *)
(* One goroutine, the actor, owns the gamma controls of the outputs: every *)
(* other goroutine (a request, the Wayland dispatcher, a timer, the        *)
(* scheduler) posts a closure to its queue and goes on.  SetEnabled of the *)
(* code, here SetGammaEnabled, changes the configuration at once and       *)
(* decides afterwards, from a flag the actor writes, what to post.         *)
(*                                                                         *)
(* A level stands for a colour temperature and a gamma; the schedule of    *)
(* the sun is left out (lowTemp = highTemp), and so is the hourly timer    *)
(* that would apply the level again.  A dead Wayland connection, which     *)
(* ends all gamma operations, is left out too.                             *)
(***************************************************************************)
EXTENDS Integers, Sequences, FiniteSets

CONSTANTS
    Outs,         \* the outputs; a monitor that returns is another one
    Levels,       \* what the configuration may ask for
    Plain,        \* what an output shows when nobody controls its gamma
    CmdCap,       \* capacity of the actor's queue (128 in the code)
    MaxRetries,   \* 10 in the code
    MaxEvents     \* bound on what the environment does in a behaviour

ASSUME GammaAssumption ==
    /\ Outs # {} /\ Levels # {} /\ Plain \notin Levels
    /\ CmdCap \in Nat \ 0..2 /\ MaxRetries \in Nat \ {0}

VARIABLES
    gammaEnabled, level,   \* m.config
    available,             \* m.availableOutputs
    plugged,               \* the monitors that are there
    dev,                   \* for each output, m.outputs[o] and its control objects
    controlsInitialized,
    cmdq, updateTrigger,
    scheduler,             \* "wait", or "post" when it is about to post
    caller,                \* SetGammaEnabled between its unlock and its decision
    watcher,               \* outputs whose announcement is about to be posted
    resumeTimer,           \* a resume waits for its 500 ms
    seen,                  \* the outputs announced so far
    events,                \* how much the environment has done
    crossed                \* history: a monitor or the switch was touched while an earlier
                           \* change of that kind was still on its way

gammaVars == <<gammaEnabled, level, available, plugged, dev, controlsInitialized,
               cmdq, updateTrigger, scheduler, caller, watcher, resumeTimer, seen, events,
               crossed>>

Slots == 1..2      \* outputState objects of one output alive at once
Handles == 1..3    \* control objects of one output alive at once

\* An outputState.  ctl is 0 when gammaControl is nil; ready is rampSize > 0; timers
\* counts the backoff timers that hold it, queued their closures in the queue.
Blank == [ctl |-> 0, ready |-> FALSE, failed |-> FALSE, retry |-> 0,
          last |-> Plain, timers |-> 0, queued |-> 0]
NoControl == [st |-> "none", ev |-> "none"]
Untouched == [tracked |-> 0, obj |-> [k \in Slots |-> Blank],
              ctl |-> [c \in Handles |-> NoControl], shown |-> Plain]

Cmd(do, o, k) == [do |-> do, out |-> o, obj |-> k]
Simple(do) == [do |-> do]
\* post: a full queue drops the closure.
Posted(q, c) == IF Len(q) < CmdCap THEN Append(q, c) ELSE q

Tracked(d) == {o \in Outs : d[o].tracked # 0}
\* An object nobody refers to is collected.
Tidy(r) == [r EXCEPT !.obj = [k \in Slots |->
    IF k = r.tracked \/ r.obj[k].timers + r.obj[k].queued > 0 THEN r.obj[k] ELSE Blank]]

FreeSlots(r) == {k \in Slots : k # r.tracked /\ r.obj[k] = Blank}
FreeHandles(r) == {c \in Handles : r.ctl[c] = NoControl}
Least(S) == CHOOSE x \in S : \A y \in S : x <= y
-----------------------------------------------------------------------------
(* The compositor, as wlr-gamma-control-unstable-v1 has it: one control    *)
(* holds an output, another one is told that it failed.                    *)

Holds(r) == \E c \in Handles : r.ctl[c].st = "holds"

\* get_gamma_control with the handle c.
Granted(r, o, c) ==
    [r EXCEPT !.ctl[c] = IF Holds(r) \/ o \notin plugged THEN [st |-> "void", ev |-> "failed"]
                                                         ELSE [st |-> "holds", ev |-> "size"]]
Destroyed(r, c) ==
    IF c = 0 THEN r
    ELSE [r EXCEPT !.ctl[c] = NoControl,
                   !.shown = IF r.ctl[c].st = "holds" THEN Plain ELSE @]
\* The control c loses its output.
Voided(r, c) == [r EXCEPT !.ctl[c] = [st |-> "void", ev |-> "failed"], !.shown = Plain]
-----------------------------------------------------------------------------
(* The closures, as functions of the table of outputs.                     *)

\* A new outputState with a control, stored over the one that may be there.
Attached(r, o) ==
    LET k == Least(FreeSlots(r))
        c == Least(FreeHandles(r))
    IN  Tidy([Granted(r, o, c) EXCEPT !.tracked = k, !.obj[k] = [Blank EXCEPT !.ctl = c]])

\* Mutation: a tear-down or a removal that forgets the output and leaves its control.
DetachedLeaking(r) == IF r.tracked = 0 THEN r ELSE Tidy([r EXCEPT !.tracked = 0])

\* The control destroyed, the output no longer tracked.
Detached(r) ==
    IF r.tracked = 0 THEN r
    ELSE Tidy([Destroyed(r, r.obj[r.tracked].ctl)
                  EXCEPT !.tracked = 0, !.obj[r.tracked].ctl = 0])

\* Mutation: a new size that keeps the last level written.
SizeKeepsLast(r) ==
    IF r.tracked = 0 THEN r
    ELSE [r EXCEPT !.obj[r.tracked] = [@ EXCEPT !.ready = TRUE, !.failed = FALSE, !.retry = 0]]

SizedOutput(r) ==
    IF r.tracked = 0 THEN r
    ELSE [r EXCEPT !.obj[r.tracked] =
             [@ EXCEPT !.ready = TRUE, !.failed = FALSE, !.retry = 0, !.last = Plain]]

FailedOutput(r, o) ==
    IF r.tracked = 0 THEN r
    ELSE LET x == r.obj[r.tracked]
             y == [x EXCEPT !.ctl = 0, !.failed = TRUE, !.ready = FALSE, !.retry = x.retry + 1,
                            !.timers = IF o \in available THEN x.timers + 1 ELSE x.timers]
         IN  [Destroyed(r, x.ctl) EXCEPT !.obj[r.tracked] = y]

\* The closure of a backoff timer: it holds the object k, tracked or not.
Recreated(r, o, k) ==
    LET done == [r EXCEPT !.obj[k].queued = @ - 1]
        base == Destroyed(done, done.obj[k].ctl)
        c == Least(FreeHandles(base))
    IN  IF /\ o \in available /\ r.tracked # 0
           /\ gammaEnabled /\ controlsInitialized
           /\ r.obj[k].retry < MaxRetries
        THEN Tidy([Granted(base, o, c) EXCEPT !.obj[k].ctl = c, !.obj[k].failed = FALSE])
        ELSE Tidy(done)

\* applyGamma: bad are the outputs whose table cannot be written.
CanApply(r, o) ==
    /\ r.tracked # 0
    /\ LET x == r.obj[r.tracked]
       IN  ~x.failed /\ x.ready /\ x.ctl # 0 /\ x.last # level
    /\ o \in available

AppliedOutput(r, o, bad) ==
    IF ~CanApply(r, o) THEN r
    ELSE IF o \in bad
         THEN [r EXCEPT !.obj[r.tracked] =
                  [@ EXCEPT !.failed = TRUE, !.ready = FALSE, !.last = Plain]]
         ELSE [r EXCEPT !.obj[r.tracked].last = level,
                        !.shown = IF r.ctl[r.obj[r.tracked].ctl].st = "holds" THEN level ELSE @]

AnyReady(d) == \E o \in Tracked(d) :
    d[o].obj[d[o].tracked].ready /\ ~d[o].obj[d[o].tracked].failed

\* applyCurrentTemp.
Applied(d, bad) ==
    IF controlsInitialized /\ AnyReady(d)
    THEN [o \in Outs |-> AppliedOutput(d[o], o, bad)]
    ELSE d
-----------------------------------------------------------------------------
(* The actor: the closure at the head of its queue, in one step.           *)

TakeCmd(do) == cmdq # <<>> /\ Head(cmdq).do = do /\ cmdq' = Tail(cmdq)
\* Bounds Slots and Handles.
Room(os) == \A o \in os : FreeSlots(dev[o]) # {} /\ FreeHandles(dev[o]) # {}
ActorIdle ==
    UNCHANGED <<gammaEnabled, level, plugged, scheduler, caller, watcher, resumeTimer, seen,
                crossed>>

SetupOutputControls ==
    /\ Room(available)
    /\ dev' = [o \in Outs |-> IF o \in available THEN Attached(dev[o], o) ELSE dev[o]]
    /\ controlsInitialized' = TRUE

RunStartup ==
    /\ TakeCmd("startup")
    /\ IF controlsInitialized THEN UNCHANGED <<dev, controlsInitialized>>
                              ELSE SetupOutputControls
    /\ ActorIdle /\ UNCHANGED <<available, updateTrigger, events>>

RunSetup ==
    /\ TakeCmd("setup")
    /\ SetupOutputControls
    /\ updateTrigger' = TRUE
    /\ ActorIdle /\ UNCHANGED <<available, events>>

RunTeardown ==
    /\ TakeCmd("teardown")
    /\ dev' = [o \in Outs |-> Detached(dev[o])]
    /\ controlsInitialized' = FALSE
    /\ ActorIdle /\ UNCHANGED <<available, updateTrigger, events>>

RunAdd ==
    /\ TakeCmd("add")
    /\ LET o == Head(cmdq).out
       IN  Room({o}) /\ dev' = [dev EXCEPT ![o] = Attached(@, o)]
    /\ controlsInitialized' = TRUE
    /\ ActorIdle /\ UNCHANGED <<available, updateTrigger, events>>

\* An output that is not tracked stays in availableOutputs.
RunRemoved ==
    /\ TakeCmd("removed")
    /\ LET o == Head(cmdq).out
       IN  /\ dev' = [dev EXCEPT ![o] = Detached(@)]
           /\ available' = IF dev[o].tracked = 0 THEN available ELSE available \ {o}
           /\ controlsInitialized' =
                  (controlsInitialized /\ (dev[o].tracked # 0 => Tracked(dev') # {}))
    /\ ActorIdle /\ UNCHANGED <<updateTrigger, events>>

\* The closures that end in applyCurrentTemp, on the table d.
ApplyOn(d) ==
    \E bad \in SUBSET {o \in Outs : CanApply(d[o], o)} :
        /\ events + Cardinality(bad) <= MaxEvents   \* bound MaxEvents
        /\ dev' = Applied(d, bad)
        /\ events' = events + Cardinality(bad)

RunSize ==
    /\ TakeCmd("size")
    /\ LET o == Head(cmdq).out IN ApplyOn([dev EXCEPT ![o] = SizedOutput(@)])
    /\ ActorIdle /\ UNCHANGED <<available, controlsInitialized, updateTrigger>>

RunFailed ==
    /\ TakeCmd("failed")
    /\ LET o == Head(cmdq).out IN dev' = [dev EXCEPT ![o] = FailedOutput(@, o)]
    /\ ActorIdle /\ UNCHANGED <<available, controlsInitialized, updateTrigger, events>>

RunRecreate ==
    /\ TakeCmd("recreate")
    /\ LET o == Head(cmdq).out
           k == Head(cmdq).obj
       IN  /\ FreeHandles(dev[o]) # {}   \* bound Handles
           /\ dev' = [dev EXCEPT ![o] = Recreated(@, o, k)]
    /\ ActorIdle /\ UNCHANGED <<available, controlsInitialized, updateTrigger, events>>

RunApply ==
    /\ TakeCmd("apply")
    /\ ApplyOn(dev)
    /\ ActorIdle /\ UNCHANGED <<available, controlsInitialized, updateTrigger>>

\* handleResume: the compositor may have forgotten the tables, so write them again.
Forgotten(r) == IF r.tracked = 0 THEN r ELSE [r EXCEPT !.obj[r.tracked].last = Plain]
RunResume ==
    /\ TakeCmd("resume")
    /\ IF gammaEnabled /\ controlsInitialized
       THEN ApplyOn([o \in Outs |-> Forgotten(dev[o])]) /\ updateTrigger' = TRUE
       ELSE UNCHANGED <<dev, updateTrigger, events>>
    /\ ActorIdle /\ UNCHANGED <<available, controlsInitialized>>

Actor == \/ RunStartup \/ RunSetup \/ RunTeardown \/ RunAdd \/ RunRemoved \/ RunSize
         \/ RunFailed \/ RunRecreate \/ RunApply \/ RunResume
-----------------------------------------------------------------------------
(* The goroutines that post.                                               *)

NothingToRun ==
    /\ cmdq = <<>> /\ scheduler = "wait" /\ ~updateTrigger
    /\ caller = "idle" /\ watcher = {}
NothingToHear == \A o \in Outs, c \in Handles : dev[o].ctl[c].ev = "none"
Settled == NothingToRun /\ NothingToHear
NoBackoff == \A o \in Outs, k \in Slots : dev[o].obj[k].timers = 0
NoTimer == ~resumeTimer /\ NoBackoff

Queued(dos) == \E i \in DOMAIN cmdq : cmdq[i].do \in dos
\* A monitor or the switch was touched, and what follows from it is not done.
UnderWay ==
    \/ caller # "idle" \/ watcher # {}
    \/ Queued({"startup", "setup", "teardown", "add", "removed"})
\* What a tear-down leaves behind: timers and messages of the objects it forgot.
Leftovers == ~NoBackoff \/ Queued({"recreate", "size", "failed"})

\* The environment acts once more.
Event == events < MaxEvents /\ events' = events + 1   \* bound MaxEvents

ApplyTrigger ==
    /\ scheduler = "wait" /\ updateTrigger
    /\ updateTrigger' = FALSE
    /\ scheduler' = IF gammaEnabled THEN "post" ELSE "wait"
    /\ UNCHANGED <<gammaEnabled, level, available, plugged, dev, controlsInitialized,
                   cmdq, caller, watcher, resumeTimer, seen, events, crossed>>

PostApply ==
    /\ scheduler = "post"
    /\ scheduler' = "wait"
    /\ cmdq' = Posted(cmdq, Simple("apply"))
    /\ UNCHANGED <<gammaEnabled, level, available, plugged, dev, controlsInitialized,
                   updateTrigger, caller, watcher, resumeTimer, seen, events, crossed>>

\* SetTemperature, SetGamma, SetConfig: the level and a trigger that may be there already.
SetLevel ==
    /\ Event
    /\ level' \in Levels \ {level}
    /\ updateTrigger' = TRUE
    /\ UNCHANGED <<gammaEnabled, available, plugged, dev, controlsInitialized, cmdq,
                   scheduler, caller, watcher, resumeTimer, seen, crossed>>

SetGammaEnabled ==
    /\ caller = "idle"
    /\ Event
    /\ gammaEnabled' = ~gammaEnabled
    /\ caller' = "decide"
    /\ crossed' = (crossed \/ UnderWay \/ (~gammaEnabled /\ Leftovers))
    /\ UNCHANGED <<level, available, plugged, dev, controlsInitialized, cmdq,
                   updateTrigger, scheduler, watcher, resumeTimer, seen>>

DecideEnabled ==
    /\ caller = "decide"
    /\ caller' = "idle"
    /\ cmdq' = CASE gammaEnabled /\ ~controlsInitialized -> Posted(cmdq, Simple("setup"))
                 [] ~gammaEnabled /\ controlsInitialized -> Posted(cmdq, Simple("teardown"))
                 [] OTHER -> cmdq
    /\ updateTrigger' = (updateTrigger \/ (gammaEnabled /\ controlsInitialized))
    /\ UNCHANGED <<gammaEnabled, level, available, plugged, dev, controlsInitialized,
                   scheduler, watcher, resumeTimer, seen, events, crossed>>

\* The registry announces an output: it is posted only if the light is enabled then.
Plug(o) ==
    /\ o \notin seen /\ watcher = {}
    /\ plugged' = plugged \cup {o}
    /\ available' = available \cup {o}
    /\ watcher' = IF gammaEnabled THEN watcher \cup {o} ELSE watcher
    /\ seen' = seen \cup {o}
    /\ crossed' = (crossed \/ (gammaEnabled /\ UnderWay))
    /\ Event
    /\ UNCHANGED <<gammaEnabled, level, dev, controlsInitialized, cmdq,
                   updateTrigger, scheduler, caller, resumeTimer>>

PostAdd(o) ==
    /\ o \in watcher
    /\ watcher' = watcher \ {o}
    /\ cmdq' = Posted(cmdq, Cmd("add", o, 0))
    /\ UNCHANGED <<gammaEnabled, level, available, plugged, dev, controlsInitialized,
                   updateTrigger, scheduler, caller, resumeTimer, seen, events, crossed>>

Unplug(o) ==
    /\ o \in plugged /\ watcher = {}
    /\ Event
    /\ plugged' = plugged \ {o}
    /\ dev' = [dev EXCEPT ![o] =
          IF Holds(@) THEN Voided(@, CHOOSE c \in Handles : @.ctl[c].st = "holds") ELSE @]
    /\ cmdq' = Posted(cmdq, Cmd("removed", o, 0))
    /\ crossed' = (crossed \/ UnderWay)
    /\ UNCHANGED <<gammaEnabled, level, available, controlsInitialized,
                   updateTrigger, scheduler, caller, watcher, resumeTimer, seen>>

\* gamma_size or failed reaches the handler of the control.
HearControl(o, c) ==
    /\ dev[o].ctl[c].ev # "none" /\ watcher = {}
    /\ cmdq' = Posted(cmdq, Cmd(dev[o].ctl[c].ev, o, 0))
    /\ dev' = [dev EXCEPT ![o].ctl[c].ev = "none"]
    /\ UNCHANGED <<gammaEnabled, level, available, plugged, controlsInitialized,
                   updateTrigger, scheduler, caller, watcher, resumeTimer, seen,
                   events, crossed>>

\* The compositor takes an output away from its control.
LoseControl(o, c) ==
    /\ dev[o].ctl[c] = [st |-> "holds", ev |-> "none"]
    /\ Event
    /\ dev' = [dev EXCEPT ![o] = Voided(@, c)]
    /\ UNCHANGED <<gammaEnabled, level, available, plugged, controlsInitialized,
                   cmdq, updateTrigger, scheduler, caller, watcher, resumeTimer,
                   seen, crossed>>

FireBackoff(o, k) ==
    /\ dev[o].obj[k].timers > 0
    /\ cmdq' = Posted(cmdq, Cmd("recreate", o, k))
    /\ LET x == dev[o].obj[k]
           y == [x EXCEPT !.timers = x.timers - 1,
                          !.queued = IF cmdq' = cmdq THEN x.queued ELSE x.queued + 1]
       IN  dev' = [dev EXCEPT ![o].obj[k] = y]
    /\ UNCHANGED <<gammaEnabled, level, available, plugged, controlsInitialized,
                   updateTrigger, scheduler, caller, watcher, resumeTimer, seen,
                   events, crossed>>

\* The machine wakes up; the outputs may have lost their tables.
WakeUp ==
    /\ Event
    /\ ~resumeTimer
    /\ \E lost \in SUBSET Outs :
          dev' = [o \in Outs |-> IF o \in lost THEN [dev[o] EXCEPT !.shown = Plain] ELSE dev[o]]
    /\ resumeTimer' = gammaEnabled
    /\ UNCHANGED <<gammaEnabled, level, available, plugged, controlsInitialized,
                   cmdq, updateTrigger, scheduler, caller, watcher, seen, crossed>>

FireResume ==
    /\ resumeTimer
    /\ resumeTimer' = FALSE
    /\ cmdq' = Posted(cmdq, Simple("resume"))
    /\ UNCHANGED <<gammaEnabled, level, available, plugged, dev, controlsInitialized,
                   updateTrigger, scheduler, caller, watcher, seen, events, crossed>>
-----------------------------------------------------------------------------
\* One output at start; NewManager posts the set-up, the scheduler the first apply.
GammaInit ==
    /\ gammaEnabled \in BOOLEAN
    /\ level = CHOOSE l \in Levels : TRUE
    /\ \E o \in {CHOOSE o \in Outs : TRUE} : available = {o} /\ plugged = {o} /\ seen = {o}
    /\ dev = [o \in Outs |-> Untouched]
    /\ controlsInitialized = FALSE
    /\ LET add == Cmd("add", CHOOSE o \in Outs : TRUE, 0)
       IN  cmdq \in IF gammaEnabled THEN {<<add, Simple("startup"), Simple("apply")>>,
                                          <<add, Simple("apply"), Simple("startup")>>}
                                    ELSE {<<>>}
    /\ updateTrigger = FALSE /\ scheduler = "wait" /\ caller = "idle"
    /\ watcher = {} /\ resumeTimer = FALSE /\ events = 0 /\ crossed = FALSE

GammaNext ==
    \/ Actor
    \/ ApplyTrigger \/ PostApply
    \/ SetLevel \/ SetGammaEnabled \/ DecideEnabled
    \/ \E o \in Outs : Plug(o) \/ PostAdd(o) \/ Unplug(o)
    \/ \E o \in Outs, c \in Handles : HearControl(o, c) \/ LoseControl(o, c)
    \/ \E o \in Outs, k \in Slots : FireBackoff(o, k)
    \/ WakeUp \/ FireResume

GammaSpec == GammaInit /\ [][GammaNext]_gammaVars
-----------------------------------------------------------------------------
GammaTypeOK ==
    /\ gammaEnabled \in BOOLEAN /\ level \in Levels /\ controlsInitialized \in BOOLEAN
    /\ plugged \subseteq Outs /\ available \subseteq Outs /\ watcher \subseteq plugged
    /\ Len(cmdq) <= CmdCap
    /\ \A o \in Outs :
          /\ dev[o].tracked \in Slots \cup {0}
          /\ dev[o].shown \in Levels \cup {Plain}
          /\ \A k \in Slots : dev[o].obj[k].queued >= 0 /\ dev[o].obj[k].retry >= 0
          /\ ~crossed => \A k \in Slots : dev[o].obj[k].retry <= MaxRetries

\* Safety: when everything posted has run and no timer is left, the light follows its
\* configuration without a manual toggle, unless monitors and the switch were touched faster
\* than the actor followed (crossed; MCGammaControl shows what happens then).  Enabled, every
\* monitor that is there is tracked and, unless its control has failed, shows the level asked
\* for: no change of it, no new control and no wake-up is swallowed by the trigger of capacity
\* one or by the comparison with the last level written.  Disabled, none is tracked and all
\* show their own colours.
LightFollowsConfig ==
    ~crossed /\ Settled /\ NoTimer =>
        IF gammaEnabled
        THEN /\ plugged \subseteq Tracked(dev) /\ (plugged # {} => controlsInitialized)
             /\ \A o \in plugged :
                   dev[o].obj[dev[o].tracked].failed \/ dev[o].shown = level
        ELSE /\ Tracked(dev) = {}
             /\ \A o \in Outs : dev[o].shown = Plain

\* "gamma: output returned, re-establishing controls ... so the gamma_size event that follows
\* control creation drives the reapply, instead of waiting for a manual toggle": with the light
\* on and nothing left to run, no output that the compositor has granted to the daemon stays
\* dark while the manager works with another control of it, or with none.
ReturnedOutputIsLit ==
    Settled /\ NoTimer /\ gammaEnabled => \A o \in plugged, c \in Handles :
        dev[o].ctl[c].st = "holds" =>
            dev[o].shown = level \/ (dev[o].tracked # 0 /\ dev[o].obj[dev[o].tracked].ctl = c)

\* Safety: the compositor gives an output to one control only, so a control that was
\* replaced without being destroyed would keep it from the one that is used.  A crossing
\* leaves such a control behind.
NoControlLeaks ==
    ~crossed /\ Settled => \A o \in Outs, c \in Handles :
        dev[o].ctl[c].st = "holds" =>
            dev[o].tracked # 0 /\ dev[o].obj[dev[o].tracked].ctl = c
=============================================================================
