-------------------------- MODULE WallpaperSchedule --------------------------
(***************************************************************************)
(* The wallpaper scheduler (internal/server/wallpaper: manager.go and      *)
(* state.go).  One loop reads the clock and the configuration, computes    *)
(* when each schedule fires next, writes the last fires to disk, publishes *)
(* the rotations that are due and sleeps until the next one, a trigger or  *)
(* a reset.  The last fires survive a restart, so that a daily time that   *)
(* passed meanwhile is caught up with; the configuration does not, the     *)
(* shell sends it again.                                                   *)
(*                                                                         *)
(* Time is counted in ticks, Day of them in a day.  Two clocks matter:     *)
(* while the machine sleeps the wall clock goes on and the monotonic one,  *)
(* which timers and times made by now.Add follow, stands still.  The write *)
(* to disk succeeds; the days are all equally long.                        *)
(***************************************************************************)
EXTENDS Integers, FiniteSets

CONSTANTS
    Schedules,     \* the keys: the monitors, or "" for all of them
    Day,           \* ticks in a day
    Times,         \* the daily times the shell may ask for
    Interval,      \* ticks of the interval mode; it is told apart from the times
    MaxTime,       \* bound on the wall clock
    MaxChanges     \* bound on what the shell, the machine and restarts do

ASSUME ScheduleAssumption ==
    /\ Day \in Nat \ {0, 1} /\ Times \subseteq 0..(Day - 1) /\ Interval \in Nat \ {0}

VARIABLES
    wall, mono,      \* the clocks
    asleep,          \* the machine is suspended
    wanted,          \* m.config: for each key a daily time, Every or Off
    changed,         \* m.updateTrigger
    toReset,         \* m.resetReq (a set: eight fit)
    wallLoop,            \* "iterate", "persist", "publish", "wait", or "down" before a start
    left,            \* ticks until its timer fires
    resets,          \* resets taken from resetReq and not yet applied
    planned,         \* schedules: for each key its configuration and next fire
    lastFires, disk, \* in memory, in the file
    due, decided,    \* the keys this iteration fires, and its now
    rotated,           \* when each key's last published daily rotation was decided
    restarted,       \* the daemon has been started again
    changes

wallLoopVars == <<wallLoop, left, resets, planned, lastFires, disk, due, decided, rotated>>
wallVars == <<wall, mono, asleep, wanted, changed, toReset, wallLoopVars, restarted, changes>>

Off == -1
Every == Day
Settings == Times \cup {Every, Off}
Daily(c) == c \in 0..(Day - 1)
Never == -1

\* A Go time: its wall reading and its monotonic one, or Never if it has none.
Moment(w, m) == [wall |-> w, mono |-> m]
Unplanned == [cfg |-> Off, next |-> Moment(0, 0), late |-> FALSE]
Before(a, b) == IF a.mono # Never /\ b.mono # Never THEN a.mono < b.mono ELSE a.wall < b.wall
Now == Moment(wall, mono)
Until(t) == IF t.mono # Never THEN t.mono - mono ELSE t.wall - wall
Later(n) == Moment(wall + n, mono + n)

\* prevDailyTime and nextDailyTime: the latest time at or before now, the first one after.
PrevDaily(c, t) == LET today == (t \div Day) * Day + c
                   IN  IF today > t THEN today - Day ELSE today
NextDaily(c) == PrevDaily(c, wall) + Day
ComputeNext(c) == IF Daily(c) THEN Moment(NextDaily(c), Never) ELSE Later(Interval)
CatchUpDelay == 1
-----------------------------------------------------------------------------
Change == changes < MaxChanges /\ changes' = changes + 1   \* bound MaxChanges

Active == {k \in Schedules : wanted[k] # Off}
New == {k \in Active : planned[k].cfg = Off}

\* A schedule that appears: the first time it is seeded; after that it fires soon if its
\* last fire is older than its last time.
Missed(k) == Daily(wanted[k]) /\ lastFires[k] # Never /\ lastFires[k] < PrevDaily(wanted[k], wall)
Appears(k) == [cfg |-> wanted[k], late |-> Missed(k),
               next |-> IF Missed(k) THEN Later(CatchUpDelay) ELSE ComputeNext(wanted[k])]
Planned(k) ==
    CASE k \notin Active -> Unplanned
      [] k \in New -> Appears(k)
      [] OTHER -> IF planned[k].cfg # wanted[k] \/ k \in resets
                  THEN [cfg |-> wanted[k], late |-> FALSE, next |-> ComputeNext(wanted[k])]
                  ELSE planned[k]
Seeded == {k \in New : Daily(wanted[k]) /\ lastFires[k] = Never}
Due == {k \in Active : ~Before(Now, Planned(k).next)}

\* Mutation: a rotation is not a last fire: only the seeds are kept.
FiresOfSeeds == [k \in Schedules |->
    IF Seeded \cup {d \in Due : Daily(wanted[d])} = {} THEN lastFires[k]
    ELSE IF k \notin Active THEN Never
    ELSE IF k \in Seeded THEN wall ELSE lastFires[k]]

\* Last fires of schedules that are gone are dropped when anything is written.
Fires == [k \in Schedules |->
    IF Seeded \cup {d \in Due : Daily(wanted[d])} = {} THEN lastFires[k]
    ELSE IF k \notin Active THEN Never
    ELSE IF k \in Seeded \/ (k \in Due /\ Daily(wanted[k])) THEN wall ELSE lastFires[k]]

Iterate ==
    /\ wallLoop = "iterate"
    /\ planned' = [k \in Schedules |->
           IF k \in Due THEN [cfg |-> wanted[k], late |-> FALSE, next |-> ComputeNext(wanted[k])]
           ELSE Planned(k)]
    /\ resets' = resets \ Active
    /\ lastFires' = Fires
    /\ due' = Due /\ decided' = wall
    /\ wallLoop' = IF Fires = lastFires THEN "publish" ELSE "persist"
    /\ UNCHANGED <<wall, mono, asleep, wanted, changed, toReset, left, disk, rotated, restarted,
                   changes>>

Persist ==
    /\ wallLoop = "persist"
    /\ disk' = lastFires
    /\ wallLoop' = "publish"
    /\ UNCHANGED <<wall, mono, asleep, wanted, changed, toReset, left, resets, planned,
                   lastFires, due, decided, rotated, restarted, changes>>

\* setState for each key that is due, then the timer for the soonest one.  soonest goes
\* through the map in any order and keeps the best so far.  Where Before orders the times
\* nothing is before the one it finds; where times of both kinds go round in a circle,
\* which takes three, the order decides.
Orderly(S) == \A i, j, k \in S :
    Before(planned[i].next, planned[k].next) =>
        Before(planned[i].next, planned[j].next) \/ Before(planned[j].next, planned[k].next)
Soonest(S) == {k \in S : Orderly(S) => \A j \in S : ~Before(planned[j].next, planned[k].next)}
AtLeastASecond(d) == IF d < 1 THEN 1 ELSE d
PublishDue ==
    /\ wallLoop = "publish"
    /\ rotated' = [k \in Schedules |->
          IF k \in due /\ Daily(planned[k].cfg) THEN decided ELSE rotated[k]]
    /\ due' = {} /\ decided' = 0
    /\ LET S == {k \in Schedules : planned[k].cfg # Off}
       IN  left' \in IF S = {} THEN {Day}
                     ELSE {AtLeastASecond(Until(planned[k].next)) : k \in Soonest(S)}
    /\ wallLoop' = "wait"
    /\ UNCHANGED <<wall, mono, asleep, wanted, changed, toReset, resets, planned, lastFires,
                   disk, restarted, changes>>

Woken(takes) ==
    /\ wallLoop = "wait" /\ takes
    /\ wallLoop' = "iterate"
    /\ UNCHANGED <<wall, mono, asleep, wanted, left, planned, lastFires, disk, due, decided,
                   rotated, restarted, changes>>
TakeTrigger == Woken(changed) /\ changed' = FALSE /\ UNCHANGED <<toReset, resets>>
TakeTimer == Woken(left = 0) /\ UNCHANGED <<changed, toReset, resets>>
TakeReset(k) ==
    /\ Woken(k \in toReset)
    /\ toReset' = toReset \ {k} /\ resets' = resets \cup {k}
    /\ UNCHANGED changed

\* SetConfig: nothing if it is the same.
SetConfig(k, c) ==
    /\ wallLoop # "down" /\ wanted[k] # c /\ Change
    /\ wanted' = [wanted EXCEPT ![k] = c]
    /\ changed' = TRUE
    /\ UNCHANGED <<wall, mono, asleep, toReset, wallLoopVars, restarted>>

ResetSchedule(k) ==
    /\ wallLoop # "down" /\ Change
    /\ toReset' = toReset \cup {k}
    /\ UNCHANGED <<wall, mono, asleep, wanted, changed, wallLoopVars, restarted>>

\* The program stands still while the machine sleeps.
Tick ==
    /\ wall < MaxTime   \* bound MaxTime
    /\ wall' = wall + 1
    /\ mono' = IF asleep THEN mono ELSE mono + 1
    /\ left' = IF asleep \/ left = 0 THEN left ELSE left - 1
    /\ UNCHANGED <<asleep, wanted, changed, toReset, wallLoop, resets, planned, lastFires, disk,
                   due, decided, rotated, restarted, changes>>

Sleep ==
    /\ ~asleep /\ Change
    /\ asleep' = TRUE
    /\ UNCHANGED <<wall, mono, wanted, changed, toReset, wallLoopVars, restarted>>

\* Mutation: the watcher takes the announcement of a sleep for the wake-up.
TriggerOnSleep == UNCHANGED changed

\* WatchLoginctl: every state that is not the announcement of a sleep is a trigger.
TriggerOnWake == changed' = (changed \/ wallLoop # "down")
Wake ==
    /\ asleep
    /\ asleep' = FALSE
    /\ TriggerOnWake
    /\ UNCHANGED <<wall, mono, wanted, toReset, wallLoopVars, restarted, changes>>

\* The daemon stops or dies at any point of the loop; what was not written is lost.
Stop ==
    /\ wallLoop # "down" /\ Change
    /\ wallLoop' = "down"
    /\ wanted' = [k \in Schedules |-> Off] /\ planned' = [k \in Schedules |-> Unplanned]
    /\ changed' = FALSE /\ toReset' = {} /\ resets' = {} /\ left' = 0 /\ due' = {} /\ decided' = 0
    /\ lastFires' = [k \in Schedules |-> Never]
    /\ UNCHANGED <<wall, mono, asleep, disk, rotated, restarted>>
Start ==
    /\ wallLoop = "down" /\ ~asleep
    /\ wallLoop' = "iterate" /\ restarted' = TRUE
    /\ lastFires' = disk
    /\ UNCHANGED <<wall, mono, asleep, wanted, changed, toReset, left, resets, planned, disk,
                   due, decided, rotated, changes>>

WallStep == ~asleep /\ (Iterate \/ Persist \/ PublishDue \/ TakeTrigger \/ TakeTimer
                         \/ \E k \in Schedules : TakeReset(k))

WallInit ==
    /\ wall = 0 /\ mono = 0 /\ asleep = FALSE
    /\ wanted = [k \in Schedules |-> Off] /\ changed = FALSE /\ toReset = {}
    /\ wallLoop = "iterate" /\ left = 0 /\ resets = {} /\ due = {} /\ decided = 0
    /\ planned = [k \in Schedules |-> Unplanned]
    /\ lastFires = [k \in Schedules |-> Never] /\ disk = [k \in Schedules |-> Never]
    /\ rotated = [k \in Schedules |-> Never]
    /\ restarted = FALSE /\ changes = 0

WallNext ==
    \/ WallStep \/ Tick \/ Sleep \/ Wake \/ Stop \/ Start
    \/ ~asleep /\ \E k \in Schedules : ResetSchedule(k) \/ \E c \in Settings : SetConfig(k, c)

WallSpec == WallInit /\ [][WallNext]_wallVars
-----------------------------------------------------------------------------
WallTypeOK ==
    /\ wanted \in [Schedules -> Settings] /\ resets \subseteq Schedules /\ due \subseteq Schedules
    /\ wallLoop \in {"iterate", "persist", "publish", "wait", "down"}
    /\ \A k \in Schedules :
          /\ planned[k].cfg \in Settings /\ lastFires[k] \in -1..wall /\ disk[k] \in -1..wall
    /\ left \in Nat /\ mono <= wall

\* Safety: when the loop has nothing to do, on a machine that is awake, every daily schedule
\* waits for the first of its times from now on, or for its catch-up: none is slept
\* through, though the timer stood still while the machine slept.  (A timer at its minimum
\* of one tick is about to look: the time may have passed while the loop was at work.)
\* An interval planned before the machine slept is compared by its wall reading and awaited
\* by its monotonic one: beside such a one a daily schedule of another monitor may be
\* late, and only the times that all follow the clocks as they are now are spoken of.
AtRestNow == ~asleep /\ wallLoop = "wait" /\ ~changed /\ toReset = {} /\ left > 1
InStep(t) == t.mono # Never => t.wall - t.mono = wall - mono
AllInStep == \A k \in Schedules : planned[k].cfg # Off => InStep(planned[k].next)
NoTimeSleptThrough ==
    AtRestNow /\ AllInStep => \A k \in Schedules : Daily(planned[k].cfg) =>
        planned[k].late \/ planned[k].next.wall = NextDaily(planned[k].cfg)

\* Action: a daily rotation that is published serves a time later than the one the last
\* published rotation was decided at: no restart, at whatever point of the loop, no
\* sleep and no change of the configuration makes one time rotate twice.
NoTimeServedTwice ==
    [][wallLoop = "publish" /\ wallLoop' = "wait" =>
          \A k \in due : Daily(planned[k].cfg) =>
              rotated[k] < PrevDaily(planned[k].cfg, decided)]_wallVars

\* "Scheduled time passed while dms wasn't running": a schedule is caught up with only
\* in a daemon that was stopped before.
CatchUpAfterStop ==
    [][\A k \in Schedules : planned'[k].late => restarted]_wallVars
=============================================================================
