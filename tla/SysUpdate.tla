------------------------------ MODULE SysUpdate ------------------------------
(***************************************************************************)
(* The system update manager (core/internal/server/sysupdate/manager.go):  *)
(* refreshes asked for by socket requests, by the background scheduler and *)
(* by a finished custom upgrade; at most one upgrade operation at a time,  *)
(* which a request may cancel; one state, with one Phase, for all of them. *)
(*                                                                         *)
(* m.mu protects each access to the state, refreshSerial a whole refresh,  *)
(* opMu the operation's cancel function.  Time is coarse: NextCheckUnix is *)
(* unset, in the future, or past.  Backends are external: a check finds    *)
(* updates or none, or fails; an upgrade installs, or fails.               *)
(***************************************************************************)
EXTENDS Integers, FiniteSets

CONSTANTS
    Backends,      \* the package managers there may be, model values
    Requesters,    \* request handlers that may be in Refresh at once
    MaxClients,    \* bound: clients that want background checks
    MaxUnderflows, \* bound: Release handlers that have found no client to release
    MaxRefreshes,  \* bound: Refresh requests
    MaxOps         \* bound: Upgrade requests that are accepted

ASSUME RequestersAssumption == {"scheduler", "afterOp", "unheld"} \cap Requesters = {}

ASSUME BoundsAssumption ==
    /\ IsFiniteSet(Backends)
    /\ MaxClients \in Nat /\ MaxUnderflows \in Nat
    /\ MaxRefreshes \in Nat /\ MaxOps \in Nat \ {0}

NoOp == 0
Ops == 1 .. MaxOps
Unheld == "unheld"                     \* refreshSerial is free
Sched == "scheduler"
AfterOp == "afterOp"                   \* the refresh that ends a custom upgrade
Refreshers == Requesters \cup {Sched, AfterOp}
Phases == {"idle", "refreshing", "upgrading", "error"}
RefreshPlaces == {"idle", "waiting", "coalesced", "wanting", "checking"}
Upgrading ==
    {"running", "opening", "installing", "terminal", "settling", "settlingCustom"}
OpPlaces == Upgrading \cup {"none", "started", "custom", "refreshing", "leaving", "done"}
Errors == {"none", "backend-failed", "cancelled", "timeout", "no-backend"}

VARIABLES
    backends,    \* m.selection.All(), found at start and never changed
    phase,       \* m.state.Phase
    error,       \* m.state.Error
    packages,    \* backends with packages in m.state.Packages
    next,        \* m.state.NextCheckUnix
    clients,     \* m.acquireCount
    clamps,      \* Release handlers about to set a negative acquireCount to 0
    wake,        \* the token in m.wakeSched
    alarm,       \* the scheduler's timer, as set from next
    serial,      \* the refresher that holds refreshSerial
    refresh,     \* where each refresher is
    results,     \* what the backends answered the refresh in flight
    unserved,    \* history: callers since whose request no refresh has been
                 \* published, and AfterOp while its own has not
    refreshes,   \* how many Refresh requests have been made
    opCancel,    \* the operation m.opCancel belongs to
    op,          \* where each upgrade goroutine is
    ctx,         \* its context: "live", "cancelled" or "expired"
    todo         \* the backends it has still to upgrade

stateVars == <<phase, error, packages>>
schedVars == <<next, clients, clamps, wake, alarm>>
refreshVars == <<serial, refresh, results, unserved>>
opVars == <<opCancel, op, ctx, todo>>
updateVars == <<backends, stateVars, schedVars, refreshVars, refreshes, opVars>>

UpdateInit ==
    /\ backends \in SUBSET Backends
    /\ phase = "idle" /\ packages = {}
    /\ error = IF backends = {} THEN "no-backend" ELSE "none"
    /\ next = "unset" /\ clients = 0 /\ clamps = 0 /\ wake = FALSE /\ alarm = "none"
    /\ serial = Unheld /\ unserved = {} /\ refreshes = 0
    /\ refresh = [r \in Refreshers |-> "idle"]
    /\ results = [b \in Backends |-> "pending"]
    /\ opCancel = NoOp /\ op = [i \in Ops |-> "none"]
    /\ ctx = [i \in Ops |-> "live"] /\ todo = {}

-----------------------------------------------------------------------------
(* Refresh and runRefresh.                                                 *)

\* Refresh looks at the phase and decides, with no lock held afterwards.
Refresh(r, force) ==
    /\ refresh[r] = "idle" /\ refreshes < MaxRefreshes
    /\ refreshes' = refreshes + 1
    /\ refresh' = [refresh EXCEPT ![r] =
          IF phase = "upgrading" THEN "idle"
          ELSE IF phase = "refreshing" /\ ~ force THEN "waiting" ELSE "wanting"]
    /\ unserved' = IF refresh'[r] = "idle" THEN unserved ELSE unserved \cup {r}
    /\ UNCHANGED <<stateVars, schedVars, serial, results, backends, opVars>>

\* Mutation: the caller does not wait for the refresh in flight.
CoalesceAtOnce(r) ==
    /\ refresh[r] = "waiting"
    /\ refresh' = [refresh EXCEPT ![r] = "coalesced"]
    /\ UNCHANGED <<stateVars, schedVars, serial, results, unserved,
                   backends, refreshes, opVars>>

\* The refresh in flight is waited for by locking and unlocking refreshSerial.
Coalesce(r) ==
    /\ refresh[r] = "waiting"
    /\ serial = Unheld
    /\ refresh' = [refresh EXCEPT ![r] = "coalesced"]
    /\ UNCHANGED <<stateVars, schedVars, serial, results, unserved,
                   backends, refreshes, opVars>>

CoalescedReturn(r) ==
    /\ refresh[r] = "coalesced"
    /\ refresh' = [refresh EXCEPT ![r] = "idle"]
    /\ UNCHANGED <<stateVars, schedVars, serial, results, unserved,
                   backends, refreshes, opVars>>

\* The start of runRefresh, which gives up without a backend and while an upgrade is shown.
EnterRefresh(r) ==
    /\ refresh[r] = "wanting"
    /\ serial = Unheld
    /\ IF backends = {} \/ phase = "upgrading"
         THEN /\ refresh' = [refresh EXCEPT ![r] = "idle"]
              /\ UNCHANGED <<stateVars, serial, results>>
         ELSE /\ refresh' = [refresh EXCEPT ![r] = "checking"]
              /\ serial' = r
              /\ phase' = "refreshing"
              /\ error' = "none"
              /\ results' = [b \in Backends |-> "pending"]
              /\ UNCHANGED packages
    /\ UNCHANGED <<schedVars, unserved, backends, refreshes, opVars>>

Check(r, b) ==
    /\ refresh[r] = "checking"
    /\ b \in backends /\ results[b] = "pending"
    /\ \E answer \in {"failed", "updates", "current"} :
          results' = [results EXCEPT ![b] = answer]
    /\ UNCHANGED <<stateVars, schedVars, serial, refresh, unserved,
                   backends, refreshes, opVars>>

\* Only requests are manual.
Manual(r) == r \in Requesters

Answered(answer) == {b \in backends : results[b] = answer}

\* Mutation: a failed background check returns before it leaves the phase.
OutcomeSilentStuck(r) ==
    \/ Answered("failed") = {} /\ phase' = "idle" /\ UNCHANGED error
    \/ Answered("failed") # {} /\ Manual(r) /\ phase' = "error" /\ error' = "backend-failed"
    \/ Answered("failed") # {} /\ ~ Manual(r) /\ UNCHANGED <<phase, error>>

\* The second critical section of runRefresh: a failed backend keeps its
\* packages; background failures are silent.
Outcome(r) ==
    IF Answered("failed") = {} \/ ~ Manual(r)
      THEN phase' = "idle" /\ UNCHANGED error
      ELSE phase' = "error" /\ error' = "backend-failed"

\* Mutation: only a successful check moves the next one.
RescheduleOnSuccess ==
    /\ next' = IF Answered("failed") = {} THEN "future" ELSE next
    /\ wake' = TRUE

Reschedule ==
    /\ next' = "future"
    /\ wake' = TRUE

\* Mutation: runRefresh returns with refreshSerial locked.
UnlockForgotten(r) ==
    /\ UNCHANGED serial
    /\ refresh' = [refresh EXCEPT ![r] = "idle"]

Unlock(r) ==
    /\ serial' = Unheld
    /\ refresh' = [refresh EXCEPT ![r] = "idle"]

Publish(r) ==
    /\ refresh[r] = "checking"
    /\ Answered("pending") = {}
    /\ packages' = Answered("updates") \cup (Answered("failed") \cap packages)
    /\ Outcome(r)
    /\ Reschedule
    /\ Unlock(r)
    /\ unserved' = IF r = AfterOp THEN {} ELSE unserved \cap {AfterOp}
    /\ UNCHANGED <<clients, clamps, alarm, results, backends, refreshes, opVars>>

-----------------------------------------------------------------------------
(* Upgrade, Cancel, runUpgrade, runCustomUpgrade.                          *)

\* The operation's goroutine has not finished.
Live(i) == op[i] \notin {"none", "done"}

Upgrade ==
    /\ backends # {} /\ opCancel = NoOp
    /\ \E i \in Ops :
          /\ op[i] = "none" /\ \A k \in 1 .. (i - 1) : op[k] # "none"
          /\ opCancel' = i
          /\ \E kind \in {"started", "custom"} : op' = [op EXCEPT ![i] = kind]
    /\ UNCHANGED <<stateVars, schedVars, refreshVars, backends, refreshes, ctx, todo>>

Cancel ==
    /\ opCancel # NoOp
    /\ ctx[opCancel] = "live"
    /\ ctx' = [ctx EXCEPT ![opCancel] = "cancelled"]
    /\ UNCHANGED <<stateVars, schedVars, refreshVars, backends, refreshes, opCancel, op, todo>>

\* The 30 minute timeout of the operation's context.
Expire(i) ==
    /\ Live(i) /\ ctx[i] = "live"
    /\ ctx' = [ctx EXCEPT ![i] = "expired"]
    /\ UNCHANGED <<stateVars, schedVars, refreshVars, backends, refreshes, opCancel, op, todo>>

GoTo(i, place) == op' = [op EXCEPT ![i] = place]

\* Mutation: the two assignments are swapped.
SetErrorSwapped(code) ==
    /\ phase' = code
    /\ error' = "error"
    /\ UNCHANGED packages

SetError(code) ==
    /\ phase' = "error"
    /\ error' = code
    /\ UNCHANGED packages

\* runUpgrade: only backends with packages in the list take part, less those
\* the options exclude.
StartUpgrade(i) ==
    /\ op[i] = "started"
    /\ \E targets \in SUBSET packages :
          IF targets = {}
            THEN /\ SetError("no-backend")
                 /\ GoTo(i, "leaving")
                 /\ UNCHANGED todo
            ELSE /\ phase' = "upgrading" /\ error' = "none" /\ UNCHANGED packages
                 /\ todo' = targets
                 /\ GoTo(i, "running")
    /\ UNCHANGED <<schedVars, refreshVars, backends, refreshes, opCancel, ctx>>

\* runCustomUpgrade: the command runs in a terminal, which may not be found.
StartCustom(i) ==
    /\ op[i] = "custom"
    /\ \/ SetError("backend-failed") /\ GoTo(i, "leaving")
       \/ /\ phase' = "upgrading" /\ error' = "none" /\ UNCHANGED packages
          /\ GoTo(i, "opening")
    /\ UNCHANGED <<schedVars, refreshVars, backends, refreshes, opCancel, ctx, todo>>

FailureCode(i) ==
    IF ctx[i] = "expired" THEN "timeout"
    ELSE IF ctx[i] = "cancelled" THEN "cancelled" ELSE "backend-failed"

\* A backend's command, or the terminal, is started: not once the context is done.
StartCommand(i) ==
    /\ ctx[i] = "live"
    /\ \/ op[i] = "running" /\ GoTo(i, "installing")
       \/ op[i] = "opening" /\ GoTo(i, "terminal")
    /\ UNCHANGED <<stateVars, schedVars, refreshVars, backends, refreshes, opCancel, ctx, todo>>

\* The command fails, or cannot be started.
Fail(i) ==
    /\ op[i] \in {"running", "opening", "installing", "terminal"}
    /\ SetError(FailureCode(i))
    /\ GoTo(i, "leaving")
    /\ UNCHANGED <<schedVars, refreshVars, backends, refreshes, opCancel, ctx, todo>>

Install(i, b) ==
    /\ op[i] = "installing" /\ b \in todo
    /\ todo' = todo \ {b}
    /\ GoTo(i, IF todo = {b} THEN "settling" ELSE "running")
    /\ UNCHANGED <<stateVars, schedVars, refreshVars, backends, refreshes, opCancel, ctx>>

RunCommand(i) ==
    /\ op[i] = "terminal"
    /\ GoTo(i, "settlingCustom")
    /\ UNCHANGED <<stateVars, schedVars, refreshVars, backends, refreshes, opCancel, ctx, todo>>

\* finishSuccessfulUpgrade, after its delay; a custom upgrade then refreshes.
Settle(i) ==
    /\ op[i] = "settling"
    /\ phase' = "idle" /\ packages' = {}
    /\ GoTo(i, "leaving")
    /\ UNCHANGED <<error, schedVars, refreshVars, backends, refreshes, opCancel, ctx, todo>>

SettleCustom(i) ==
    /\ op[i] = "settlingCustom"
    /\ phase' = "idle"
    /\ GoTo(i, "refreshing")
    /\ refresh' = [refresh EXCEPT ![AfterOp] = "wanting"]
    /\ unserved' = unserved \cup {AfterOp}
    /\ UNCHANGED <<error, packages, schedVars, serial, results, backends, refreshes, opCancel, ctx,
                   todo>>

\* Mutation: the token is given back before the final refresh.
RefreshedEarly(i) ==
    /\ op[i] = "refreshing"
    /\ opCancel' = NoOp
    /\ GoTo(i, IF refresh[AfterOp] = "idle" THEN "leaving" ELSE "refreshing")
    /\ UNCHANGED <<stateVars, schedVars, refreshVars, backends, refreshes, ctx, todo>>

Refreshed(i) ==
    /\ op[i] = "refreshing"
    /\ refresh[AfterOp] = "idle"
    /\ GoTo(i, "leaving")
    /\ UNCHANGED <<stateVars, schedVars, refreshVars, backends, refreshes, opCancel, ctx, todo>>

\* The deferred function of runUpgrade.
Leave(i) ==
    /\ op[i] = "leaving"
    /\ opCancel' = NoOp
    /\ todo' = {}
    /\ ctx' = [ctx EXCEPT ![i] = "live"]
    /\ GoTo(i, "done")
    /\ UNCHANGED <<stateVars, schedVars, refreshVars, backends, refreshes>>

OpStep(i) ==
    \/ StartUpgrade(i) \/ StartCustom(i) \/ StartCommand(i) \/ Fail(i)
    \/ \E b \in Backends : Install(i, b)
    \/ RunCommand(i) \/ Settle(i) \/ SettleCustom(i) \/ Refreshed(i) \/ Leave(i)

-----------------------------------------------------------------------------
(* The scheduler, Acquire, Release, SetInterval, and the world.            *)

Acquire ==
    /\ clients < MaxClients
    /\ clients' = clients + 1
    /\ next' = IF next = "unset" THEN "future" ELSE next
    /\ wake' = TRUE
    /\ UNCHANGED <<stateVars, clamps, alarm, refreshVars, backends, refreshes, opVars>>

\* Release decrements the count and then, if it went below zero, sets it to zero.
Release ==
    /\ clients > 0 \/ (clients = 0 /\ clamps < MaxUnderflows)
    /\ clients' = clients - 1
    /\ clamps' = IF clients = 0 THEN clamps + 1 ELSE clamps
    /\ UNCHANGED <<stateVars, next, wake, alarm, refreshVars, backends, refreshes, opVars>>

Clamp ==
    /\ clamps > 0
    /\ clamps' = clamps - 1
    /\ clients' = 0
    /\ UNCHANGED <<stateVars, next, wake, alarm, refreshVars, backends, refreshes, opVars>>

SetInterval ==
    /\ next' = "future"
    /\ wake' = TRUE
    /\ UNCHANGED <<stateVars, clients, clamps, alarm, refreshVars, backends, refreshes, opVars>>

\* The head of the loop: with nobody interested only a wake-up is waited for.
SchedArm ==
    /\ alarm = "none" /\ refresh[Sched] = "idle"
    /\ IF clients = 0
         THEN /\ wake /\ wake' = FALSE
              /\ UNCHANGED alarm
         ELSE /\ alarm' = IF next = "past" THEN "past" ELSE "future"
              /\ UNCHANGED wake
    /\ UNCHANGED <<stateVars, next, clients, clamps, refreshVars, backends, refreshes, opVars>>

SchedWoken ==
    /\ alarm # "none" /\ wake
    /\ wake' = FALSE
    /\ alarm' = "none"
    /\ UNCHANGED <<stateVars, next, clients, clamps, refreshVars, backends, refreshes, opVars>>

SchedFire ==
    /\ alarm = "past" /\ refresh[Sched] = "idle"
    /\ alarm' = "none"
    /\ refresh' = [refresh EXCEPT ![Sched] = "wanting"]
    /\ UNCHANGED <<stateVars, next, clients, clamps, wake, serial, results, unserved,
                   backends, refreshes, opVars>>

SchedStep == SchedArm \/ SchedWoken \/ SchedFire

TimePasses ==
    /\ "future" \in {next, alarm}
    /\ next' = IF next = "future" THEN "past" ELSE next
    /\ alarm' = IF alarm = "future" THEN "past" ELSE alarm
    /\ UNCHANGED <<stateVars, clients, clamps, wake, refreshVars, backends, refreshes, opVars>>

RefreshStep(r) ==
    \/ Coalesce(r) \/ CoalescedReturn(r) \/ EnterRefresh(r)
    \/ \E b \in Backends : Check(r, b)
    \/ Publish(r)

UpdateNext ==
    \/ \E r \in Requesters, force \in BOOLEAN : Refresh(r, force)
    \/ \E r \in Refreshers : RefreshStep(r)
    \/ Upgrade \/ Cancel
    \/ \E i \in Ops : Expire(i) \/ OpStep(i)
    \/ Acquire \/ Release \/ Clamp \/ SetInterval
    \/ SchedStep \/ TimePasses

UpdateSpec == UpdateInit /\ [][UpdateNext]_updateVars

\* Goroutines run, backends answer (CheckUpdates and Upgrade take a context
\* with a deadline) and refreshSerial, a sync.Mutex with a starvation mode, is
\* granted to every goroutine that keeps waiting for it; a select with several
\* ready cases chooses among them at random, so the timer is not passed over for ever.
UpdateFairness ==
    /\ \A r \in Refreshers : SF_updateVars(RefreshStep(r))
    /\ \A i \in Ops : WF_updateVars(OpStep(i))
    /\ WF_updateVars(SchedStep) /\ SF_updateVars(SchedFire)

UpdateFairSpec == UpdateSpec /\ UpdateFairness

-----------------------------------------------------------------------------
\* The variables range over what the program can hold.
UpdateTypeOK ==
    /\ phase \in Phases /\ error \in Errors
    /\ backends \subseteq Backends /\ packages \subseteq backends
    /\ next \in {"unset", "future", "past"} /\ alarm \in {"none", "future", "past"}
    /\ clients \in -1 .. MaxClients /\ clamps \in 0 .. MaxUnderflows /\ wake \in BOOLEAN
    /\ serial \in Refreshers \cup {Unheld}
    /\ refresh \in [Refreshers -> RefreshPlaces]
    /\ results \in [Backends -> {"pending", "failed", "updates", "current"}]
    /\ unserved \subseteq Refreshers /\ refreshes \in 0 .. MaxRefreshes
    /\ opCancel \in Ops \cup {NoOp}
    /\ op \in [Ops -> OpPlaces]
    /\ ctx \in [Ops -> {"live", "cancelled", "expired"}] /\ todo \subseteq backends

\* The operation that m.opCancel belongs to is the only upgrade goroutine alive,
\* from the request to the end of its last refresh: two never run at once, and
\* Cancel reaches the one that runs.
OneOperation == \A i \in Ops : Live(i) <=> i = opCancel

\* A phase is never left behind: "refreshing" is shown only while a refresh is
\* in flight and holds refreshSerial, "upgrading" only while an upgrade runs,
\* although the two overwrite each other's phase.
PhaseIsLive ==
    /\ phase = "refreshing" => \E r \in Refreshers : serial = r /\ refresh[r] = "checking"
    /\ phase = "upgrading" => \E i \in Ops : op[i] \in Upgrading

\* A Refresh that joins the refresh in flight returns only after a refresh has
\* been published since it was called.
CoalescedIsFresh ==
    \A r \in Requesters : refresh[r] = "coalesced" => r \notin unserved

\* A custom upgrade is over only when the package list has been read again: its
\* own refresh is never skipped because an upgrade is shown.
CustomUpgradeRechecked ==
    \A i \in Ops : op[i] = "refreshing" /\ refresh[AfterOp] = "idle" => AfterOp \notin unserved

\* What is begun ends, whatever upgrades and other refreshes do: every Refresh request
\* returns, and every upgrade gives the operation token back, so that another can start.
WorkEnds ==
    /\ \A r \in Requesters : refresh[r] # "idle" ~> refresh[r] = "idle"
    /\ \A i \in Ops : Live(i) ~> opCancel # i

\* A check that is due is made, or put off by a new interval, as long as a client
\* is interested and there is a backend to ask: an upgrade in progress only delays it.
DueCheckRuns == next = "past" ~> next # "past" \/ clients <= 0 \/ backends = {}

=============================================================================
