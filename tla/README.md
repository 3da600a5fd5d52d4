# Verification of the rocket-d daemon

This directory holds TLA+ models of the concurrent core of the `rocket-d` daemon
(`src/rocket-d-shell/core`, written in Go), TLC configurations that check them on small instances,
and TLAPS proofs of their safety properties for every value of the constants.
Paths below are relative to `src/rocket-d-shell/core/internal` unless they begin with `src/`.
`PROJECT.json` maps every definition to the lines it stands for.

- [1. The system](#1-the-system)
- [2. Modules](#2-modules)
- [3. What each module models](#3-what-each-module-models)
- [4. Runs](#4-runs)
- [5. Fairness and rest](#5-fairness-and-rest)
- [6. Proofs](#6-proofs)
- [7. Findings](#7-findings)
- [8. What is not modelled](#8-what-is-not-modelled)
- [9. Plan](#9-plan)

## 1. The system

The repository holds a desktop shell in QML (`src/rocket-d-shell/quickshell`), its installer and
dotfiles, and the daemon. The daemon owns a Unix socket. A connection sends requests, each of which
a router hands to a service, and may subscribe: then a handler streams the state of the services it
named until the connection breaks. A service is a *manager*, an object with a mutex around a state,
one or more goroutines that follow an external system (D-Bus signals, CUPS, the Wayland display,
timers, child processes), a table of subscriber channels and, mostly, a *notifier* goroutine that
merges changes within a delay. Handlers of different connections run concurrently and call managers
directly; managers call each other rarely (tray recovery subscribes to loginctl). Nothing in the
daemon is replicated and little is persisted (the wallpaper scheduler's last fires, the clipboard
history); the difficulty is in goroutines, timers, channel life cycles and locks taken one after
the other.

| Component | State | Operations | What is hard | What makes it correct |
|---|---|---|---|---|
| Theme queue (`matugen/queue.go`) | current and pending job, Done channels, worker goroutines, lock file | Submit, runWorker, finishJob, the waiting handler | two workers alive at once, a channel send under the mutex, the handler's timeout | every job resolved once, none stranded, only displaced jobs cancelled |
| Sleep inhibitor (`server/loginctl`) | inhibitor file, sleep cycle, ready channel, lock timer, flags | logind's signals, locker-ready, enable, lock-before-suspend | check and act under different locks, a pump that may stop itself, late or missing lockers | an inhibitor is held when it should be and released in time, no waiter leaks, the cycle is logind's |
| System updates (`server/sysupdate`) | one phase, list of packages, operation token, refresh mutex, schedule | Refresh, Upgrade, Cancel, Acquire, Release, SetInterval, scheduler | refreshes, upgrades and scheduler share one phase; cancel and timeout at any point | one operation at a time, no phase left behind, joined and final refreshes real, due checks made |
| CUPS events (`server/cups`) | subscribers, stop and event channels, writer and handler goroutines | Subscribe, Unsubscribe, Start, Stop, events | a stop is many steps, channels are closed and remade while the next subscriber starts | no send or close on a closed channel, a subscriber is fed, Unsubscribe returns |
| State broadcast (`server/network/manager.go`) and subscription sessions (`server/server.go`) | state, dirty mark, last notified state, channels, wait group, stop channel | backend callbacks, notifier, subscribe, producers, closing | changes during a notification, full channels, a connection that breaks at any step | no change unannounced, a client catches up, a session is taken down completely and in order |
| Prompt broker (`server/network`) | pending prompts, reply channels, keys | Ask, Wait, Resolve, CancelAll | two agents for one key, replies racing the time limit, cancels that come early | an answer reaches the question it was given for; nothing is left behind |
| Night light (`server/wayland`) | configuration, gamma controls per output, queue of closures, backoff timers | switch, levels, outputs that come and go, resume | decisions made from a flag that queued closures will change; controls fail | the outputs show what is configured; no control is leaked |
| Clipboard history (`server/clipboard`) | database of entries, pins, published history | store, copy, pin, unpin, delete, clear, sweep, restart | one request is several transactions, sweeps are delayed, compaction closes the database | no content twice or lost, the published history is the stored one |
| Wallpaper scheduler (`server/wallpaper`) | schedules, last fires in memory and on disk | tick, reset, fire, sleep, restart | two clocks over a suspend, a stop between fire, save and publish | a time is neither slept through nor served twice |
| Brightness of monitors (`server/brightness`) | devices, pending values, timers | set, debounce, write, rescan | timers that cannot be stopped any more, monitors that come and go | the last value asked for is the one shown |
| Bluetooth devices (`server/bluez`) | published devices, pending pairings, event queue | signals, pairing, notifier | two readers of BlueZ, a queue that drops | the devices are BlueZ's; a device is trusted only if its pairing was asked for |
| Outputs (`server/wlroutput`) | heads, command queue, configurations | the compositor's events, apply, timeout | a queue that drops, handlers racing a timeout | clients know the heads and the serial; whoever configures is answered |
| Connection attempts of iwd (`server/network/backend_iwd*.go`) | current attempt, its mutex and watchdog, the network shown as connecting | connect, station signals, abort | four goroutines race to end an attempt; three mutexes taken one after the other | an attempt ends, and so does what clients see of it |
| CUPS reference count (`server/server.go`) | subscriber count, the manager pointer | start with the first, stop with the last | starting races with stopping | the manager runs exactly while somebody is counted |
| Bluetooth pairing broker (`server/bluez`) | as the network's, without keys | Ask, Wait, Resolve | as the network's, simpler | as the network's |
| Screensaver inhibitors (`server/freedesktop`) | cookies, inhibitors by peer | Inhibit, UnInhibit, peer death, lock state | notifications sent from goroutines of their own, a dead peer's late call | no inhibitor outlives its peer; the last notification is the newest |
| Tray recovery (`server/trayrecovery`) | suspend seen, pending scan | loginctl states, delayed scans | follows a notifier that merges changes | every resume is followed by a scan |
| Theme mode scheduler (`server/thememode`) | schedule of the sun or the clock | tick, configuration | a location fetched while the configuration changes | the mode is that of the time of day |
| Wayland context (`server/wlcontext`) | queue of functions | Post, event loop | posting to a full or stopped queue | a posted function is run |
| Location, Tailscale, clipboard's data device, D-Bus bridge, evdev, application picker, browser, MIME | small states, subscribers | their requests | as the broadcast; one-line differences | as the broadcast |
| Network backends, update backends, matugen templates | translations of external state | parse, run a tool | external failure | the translation |
| Installer, command line, plugins, themes, keybinds, trash | files | sequential | external failure | sequential |

The hazards of each part, at their lines, are listed in `PROJECT.json` with the properties that would
catch them, including the main ones of parts that are not modelled yet.

## 2. Modules

| Module | Kind | Checked with | Proved in |
|---|---|---|---|
| `MatugenQueue` | theme queue, workers, lock file, waiting handlers | `MCMatugenQueue` | `MatugenQueueProofs` |
| `LatestWinsQueue` | abstract specification of the theme queue | through `LatestWins` | refinement in `MatugenQueueProofs` |
| `SleepInhibitor` | loginctl's inhibitor and sleep cycle | `MCManagers`; `MCSleepInhibitor` for its two violations | `ManagersProofs` |
| `SysUpdate` | update manager | `MCDaemon`; `MCSysUpdate` for its liveness | `SysUpdateProofs` |
| `StateBroadcast` | composition of a manager, its notifier and the subscription sessions | `MCNetwork`; `MCStateBroadcast` for the violation | `NetworkProofs` |
| `CupsSubscription` | CUPS subscription, stop and start | `MCManagers`; `MCCupsSubscription` for the panic | `ManagersProofs` |
| `PromptBroker` | asking the user for a secret | `MCDaemon`; `MCPromptBroker` for the keys of two backends | `PromptBrokerProofs` |
| `GammaControl` | night light | `MCDaemon`; `MCGammaControl` for the violation | `GammaProofs` |
| `ClipboardHistory` | clipboard history | `MCDaemon` | `DaemonProofs` |
| `WallpaperSchedule` | wallpaper scheduler | `MCDaemon` | `DaemonProofs` |
| `DdcBrightness` | brightness of monitors | `MCDaemon` | `DaemonProofs` |
| `BluetoothDevices` | Bluetooth devices and pairings | `MCDaemon` | `DaemonProofs` |
| `WlrOutputs` | outputs and their configuration | `MCDaemon` | `WlrOutputsProofs` |
| `IwdAttempts` | connection attempts of the iwd backend | `MCNetwork` | `NetworkProofs` |

`MCManagers`, `MCDaemon` and `MCNetwork` extend several components that share no state and check them in one run: a
variable `part`, chosen initially, says which of them takes steps in a behaviour, and the others stay as they
began. `MCManagers` has the two managers whose liveness is checked besides their safety, the sleep inhibitor and the printers;
`MCDaemon` has eight of which safety is checked; `MCNetwork` has the broadcast and the attempts of iwd.
A proof module follows the run: `ManagersProofs`, `DaemonProofs` and `NetworkProofs` extend `MCManagers`, `MCDaemon` and
`MCNetwork` and prove about the parts one by one (those with long proofs have modules of their own), then the types of the parts together for
the specification the run checks.
This is the behaviour of each manager on its own, with the state spaces added and not multiplied;
nothing is lost, because no action of one reads a variable of another. Where a manager's initial states are
many, the ones it has while it is not the behaviour's part are cut to one.

Conventions. An action is what one goroutine does between two points where another may interfere:
a critical section of a mutex, a channel operation, or a call to an external system. A check made
under one lock and an act made under another are two actions. A program counter per goroutine keeps
the control flow. Operators with a comment `Mutation` or `mutant` beside a definition are the
plausible bugs against which each property has been tried (`mutants` in `PROJECT.json`): each property
fails when its mutant replaces the definition. Every bound on a counter is a CONSTANT with `Max` in its
name, or a channel capacity, and is commented as such. No module uses a RECURSIVE operator.

## 3. What each module models

### MatugenQueue

| Variable | Code |
|---|---|
| `current`, `pending` | `q.current`, `q.pending` |
| `cancelled` | jobs whose `Ctx` is cancelled |
| `buffer`, `closed` | the one slot of a job's `Done` channel, and whether it is closed |
| `wpc`, `wjob`, `wres` | program counter, `job` and `result` of each `runWorker` goroutine |
| `fileLock` | the lock file around `matugen.Run` |
| `built` | history: jobs whose own Run succeeded |
| `reply` | what `handleMatugenQueue` answered to the job's submitter |

`Submit` is one critical section of `q.mu` with the spawn of a worker and the handler's choice to wait;
`Look`, `CheckCtx`, `TakeFileLock`/`FileLockTimeout`, `Build` and `Finish` are the worker's loop;
`Receive` and `GiveUp` are the two cases of the handler's select. The point that unit tests hardly
reach is between `Finish` and the next `Look`: that worker holds no lock and is alive, while the queue
looks idle and a new `Submit` spawns another. What a build computes is one outcome, ok or fail.
`jobDone`, which nothing reads, is left out. A job's context derives from the background context inside
`Submit`, so that nothing but displacement cancels it.

`LatestWinsQueue` says what submitters may rely on: a served job, at most one waiting, a newer
job displaces the waiting one, each job resolved once. `LatestWins` is its specification under the
mapping `cur <- current`, `pend <- pending` and `fate <- Fate`, where the fate of a job is read from its
Done channel and `cancelled`.

### SleepInhibitor

| Variable | Code |
|---|---|
| `suspending`, `signals` | logind's own idea of a suspend, and the D-Bus signals waiting for the pump |
| `enabled`, `lockFirst` | `sleepInhibitorEnabled`, `lockBeforeSuspend` |
| `inCycle`, `cycle` | `inSleepCycle`, `sleepCycleID` |
| `held` | `inhibitFile != nil` |
| `readyCh`, `closedCh`, `waiter` | `lockerReadyCh` and which channels are closed, named by their cycle; the goroutine that waits on each |
| `lockTimer`, `fired`, `dropping` | the fallback timer and its function's two steps |
| `locked`, `preparing` | `state.Locked`, `state.PreparingForSleep` |
| `pump`, `handling`, `client` | where the signal pump and each request handler are |

`HandleLock`, `HandleUnlock`, `HandleOwner`, `HandleSleep`/`StartCycle` and `HandleWake`/`EndCycle` are the
branches of `handleDBusSignal`, cut where the code releases a lock between two effects; `PumpTest` and
`PumpAcquire` are the two halves of `acquireSleepInhibitor` (the enabled flag is read before `inhibitMu` is
taken). `WaiterCheck`/`WaiterDrop`, `TimerCheck`/`TimerDrop` and `ReadyCheck`/`ReadyDrop` are
`releaseForCycle` as its three callers run it: the cycle is checked under one lock, the inhibitor dropped
under another. The locker's own call, `LockerReady`, takes the channel of the current cycle and ends in
`ReadyCheck`/`ReadyDrop` or, when a waiter is to release, in `ReadySignal` and `ReadyClose`: the channel is
closed in a step of its own, so that a late call may close the channel of the next cycle, whose inhibitor is
then released at once. Requests to lock or unlock go out to logind and come back as signals, like those of
any other program (`External`).

### SysUpdate

| Variable | Code |
|---|---|
| `backends` | `m.selection.All()`: which backends the daemon found at start, possibly none |
| `phase`, `error`, `packages` | `state.Phase`, `state.Error` (its code), backends with packages in `state.Packages` |
| `next`, `alarm`, `wake` | `NextCheckUnix` (unset, in the future, past), the scheduler's timer set from it, the `wakeSched` token |
| `clients`, `clamps` | `acquireCount`, and Release handlers between the decrement and the store of zero |
| `serial`, `refresh`, `results` | the holder of `refreshSerial`, where each refresher is, the backends' answers |
| `unserved` | history: who has asked since the last published refresh |
| `opCancel`, `op`, `ctx`, `todo` | the operation `m.opCancel` belongs to, where each upgrade goroutine is, its context, the backends it has still to upgrade |

`Refresh` decides by a phase it has read and then let go of; `Coalesce` joins the refresh in flight by
locking `refreshSerial`; `EnterRefresh`, `Check` and `Publish` are `runRefresh`, whose two early returns, without a backend and
while an upgrade is shown, publish nothing and set no next check. `Upgrade` takes the
token and is refused without a backend; `StartUpgrade`/`StartCustom`, `StartCommand`, `Install`/`RunCommand`, `Fail`, `Settle`/`SettleCustom`,
`Refreshed` and `Leave` are the two kinds of operation up to the deferred function; `Cancel` and `Expire`
end the context at any point in between. The scheduler is `SchedArm`, `SchedWoken` and `SchedFire`.
Backends are external and may answer, find nothing, or fail. Package contents, the log, and target
selection by name are left out: an upgrade takes an arbitrary subset of the backends shown.

### CupsSubscription

| Variable | Code |
|---|---|
| `subscribers`, `cupsClient` | `m.subscribers`; where each client is in Subscribe or Unsubscribe |
| `starts`, `start` | numbers the calls of `Start` that got past the `running` check |
| `running` | `sm.running` |
| `eventChan`, `closedEvents`, `queued` | `sm.eventChan` by the number of the Start that made it, which of them are closed, which hold an event |
| `stopChan`, `closedStops` | `sm.stopChan` and which have been closed |
| `loop`, `loopStop`, `eventHandler`, `handlerChan` | writer and event handler of each Start, with the channel they entered their select with |
| `panic` | a send or close on a closed channel: the daemon ends |
| `overlapped` | history: a newcomer has crossed the stop of those who left |

Both subscription managers (IPPGET polling and D-Bus) start and stop in the same steps, which is why one
model stands for both. Every step of a stop, `StopEnter` to `StopAwait`, is an action. The branch of
the writer for a full event buffer is folded into `queued`, a set: whether an event is dropped does not
matter to any property. No action is guarded by what other clients do. `overlapped` only records three things: a client that found others subscribed
is stored when they have all left; a Start passes the running check while a stop is on its way; a stop passes it while
somebody is subscribed. From then on the code promises nothing (finding 4 and section 7), and `SubscriberIsFed` and `UnsubscribeReturns`
except it by name.

### StateBroadcast

| Variable | Code |
|---|---|
| `net`, `callback`, `got` | the backend's state; goroutines in `onBackendStateChange`, and what they read |
| `state`, `dirty` | `m.state`, the one-slot `m.dirty` channel |
| `notifier`, `snapshot`, `todo`, `target`, `last` | the notifier: idle, timer running, in its Range; its `currentState`; whom it has still to visit; whom it has loaded; `lastNotifiedState` |
| `subs`, `queue`, `capSubs`, `capQueue` | the subscriber tables and channels of the network manager and of the capabilities |
| `handler`, `producer`, `held`, `wg`, `stop`, `events`, `closed` | `handleSubscribe`: the handler, its producers, what each is about to send, the wait group, `stopChan`, `eventChan` |
| `link`, `view`, `updates` | the client: still there, the last network state written to it, how many |
| `dropped`, `crashed` | history: clients that lost a state to a full channel; the daemon has panicked |

The module composes three parts that are each simple and that interact through channels: callbacks
that read the backend under its lock and store under the manager's (`ReadBackend`, `StoreState`,
`NotifySubscribers`), the notifier (`TakeMark` to `EndRange`), and a session with two producers,
capability and network, of the form all services share. `sync.Map.Range` may or may not visit a key that
is stored during it; both outcomes are allowed (`SubscribeNetwork`). Two branches of the code cannot be
reached while the daemon runs and are left out: a producer whose manager channel is closed by `Close`
(managers are closed at exit only), and an `eventChan` that closes before the handler has returned, which
the capability producer prevents, since its channel is closed by nobody but itself.

### PromptBroker

| Variable | Code |
|---|---|
| `net`, `at`, `token`, `result` | a request of the network daemon: for which network, where its goroutine is in Ask or Wait, its token, what Wait will return |
| `pending`, `requests`, `keyToken` | `b.pending`, `b.requests`, `b.pathSettingToToken` |
| `reply` | the one-slot channel of each token |
| `resolving` | where each session that answers, and each cancellation, is |
| `overlapped` | history: requests that shared a key |

The broker's maps are locked one access at a time, so each access is an action. `AskBegin`, `AskLook`,
`AskStore` and `AskShow` are Ask with its duplicate check; `WaitEnter`, `WaitTimeout`, `WaitReply` the select of
Wait, `CleanLook`, `CleanKey`, `CleanForget` the cleanup after it; `ResolveLoad` and `ResolveSend` are Resolve,
and `CancelFind` with `ResolveSend` what the agents do on CancelGetSecrets. The key of a prompt is made of a
path and a setting; what it tells apart is the constant `KeyOf`, one key per network for NetworkManager and one
key for all for iwd and wpa_supplicant, whose requests leave the path empty.

### GammaControl

| Variable | Code |
|---|---|
| `gammaEnabled`, `level` | the configuration; a level stands for a temperature and a gamma |
| `available`, `controlsInitialized`, `cmdq`, `updateTrigger` | `m.availableOutputs`, the flag of that name, the actor's queue, the scheduler's trigger |
| `dev` | per output: the tracked `outputState`, the objects still referred to by timers, their control objects, what the output shows |
| `scheduler`, `caller`, `watcher`, `resumeTimer` | goroutines between two steps: the scheduler about to post, SetEnabled between its unlock and its decision, the dispatcher about to post a new output, a resume's delay |
| `plugged`, `seen`, `events` | the monitors, those ever announced, how much the environment has done |
| `crossed` | history: the switch or a monitor was touched while an earlier change of that kind was on its way |

Every closure that is posted has its action (`RunStartup`, `RunSetup`, `RunTeardown`, `RunAdd`, `RunRemoved`, `RunSize`,
`RunFailed`, `RunRecreate`, `RunApply`, `RunResume`), and so has everything that posts. The compositor follows
wlr-gamma-control: one control holds an output, another fails. Monitors come and go and the switch is turned at any time, as in the
code; nothing waits for the actor. The code keeps up with that only partly: an output announced while a set-up is queued gets two
controls (finding 7), and a switch turned off and on before the tear-down has run leaves the light off. `crossed` records
that such changes overlapped: the switch turned, a monitor announced or removed while a decision, an announcement or a structural closure (start-up, set-up, tear-down, addition,
removal) is under way, or the light switched on while a backoff or a message of a control of before has still to be heard. `LightFollowsConfig`
and `NoControlLeaks` speak of behaviours up to the first crossing; `ReturnedOutputIsLit` has no such exception and is violated.
At start the light may be off, or on with the closure of the first output and the start-up's both posted, as `setupRegistry` and
`NewManager` do.

### ClipboardHistory

| Variable | Code |
|---|---|
| `entry`, `sequence`, `closed` | the bucket of the database, its last id, whether a compaction has closed it |
| `serving` | each goroutine's place in a request, and what it holds |
| `sweeps` | goroutines in `deleteStaleEntries`, each with the ids it was given |
| `published`, `overtaken`, `lagging` | `m.state.History`; history: who was overtaken by another publication, and whether such a one stored last |
| `autoClear`, `clearAtStartup` | configuration |

A transaction of the database is an action. A request is one (store, delete, unpin) or several of them (copy,
touch, the four of a pin, clear with its compaction), followed by `ReadHistory` and `PublishHistory`. Entries
age, a sweep deletes by id what was old when it was started, and `Restart` is a death of the daemon at
any point followed by its start.

### WallpaperSchedule

| Variable | Code |
|---|---|
| `wall`, `mono`, `asleep` | the wall clock, the monotonic one which stands still in a suspend, the suspend |
| `wanted`, `changed`, `toReset` | `m.config`, `m.updateTrigger`, `m.resetReq` |
| `wallLoop`, `left`, `resets`, `planned`, `due`, `decided` | the loop: its place, its timer, the resets taken, the schedules with their next fire, the rotations of this iteration |
| `lastFires`, `disk` | the last fires in memory and in the file |
| `rotated`, `restarted`, `changes` | history and bound |

`Iterate`, `Persist` and `PublishDue` are one round of the loop, cut where a death may fall; `TakeTrigger`, `TakeTimer`
and `TakeReset` its select. A next fire carries a monotonic reading if it was made by adding to now, and none if it
was made from a date, as in Go; `Before` and `Until` compare accordingly. `Sleep`, `Wake`, `Stop` and `Start`
are the machine and the daemon. A tick is a third of a day: enough to tell a daily time before now from one
after it.

The loop waits for the soonest of the planned fires, which it finds by going through a map. `Before` is no order where some moments
have a monotonic reading and others have none: three of them may go round in a circle, and then the order of the map, which Go leaves
open, decides. `Soonest` is therefore a set. For the same reason `NoTimeSleptThrough` speaks of moments at which the planned fires
follow the clocks as they are now (`AllInStep`): an interval that was planned before a suspend is compared by its wall reading and
awaited by its monotonic one, and the timer set for it may let a daily time of another schedule pass (section 7).

### DdcBrightness

| Variable | Code |
|---|---|
| `debouncePending`, `debounceTimers`, `timer`, `debounceWg` | the pending value and the timer of each device, the timers that are to run or running, the wait group |
| `scanned`, `lastBrightness` | `b.devices` and what each is believed to show |
| `onBus`, `shown` | the monitors that are there, what each shows |
| `deviceState`, `setter`, `seenDevices` | `m.state`, where each request is, what each goroutine that rebuilds the state has read |
| `lastSet`, `overlappedSet`, `failedSet`, `outrun`, `outdated` | history for the properties |

`AskBrightness`, `FindDevice`, `Debounce` and `RefusedRead`/`RefusedStore` are a request; `Fire`, `TakePending`,
`OpenBus`, `WriteBus`, `StoreDevice`, `CallbackRead` and `CallbackStore` a timer's function; `Rescan` and `Hotplug`
the rest. Two timers of one device may write at once, in which case either value may be the last.

### BluetoothDevices

| Variable | Code |
|---|---|
| `bluez`, `btSignals` | the devices as BlueZ has them, `m.signals` |
| `pendingPairings`, `pairer` | the map of that name, where each PairDevice is |
| `btPump`, `eventQueue`, `worker`, `workerDev`, `workerRead` | the signal pump, the queue, the event worker |
| `notifier`, `notifierRead`, `btDirty`, `told`, `known` | the notifier, the mark, what subscribers know |
| `devices` | `m.state.Devices` |
| `startup` | the call `NewManager` makes next: the first read, then one subscription after the other |
| `missed` | history: since the notifier's last read it has failed to read, or BlueZ has made a change no signal told of |

`BtRead` is `initialize`, `BtSubscribe` the three match rules of `startSignalPump`; in between BlueZ changes without being heard
(`BtChangeUnheard`), and a rule that is not there yet leaves its kind of change unheard.
`PumpTake` and `PumpQueue` are `handleSignal` with its dropping of events; `WorkerTrust`, `WorkerRead`, `WorkerStore`,
`WorkerMark` the events; `NotifierMarked` to `NotifierTell` the notifier, which reads BlueZ a second time. Either read may fail
(`WorkerReadFails`, `NotifierReadFails`), which nobody looks at: the list stays as it is. `PairStore`,
`PairCall`, `PairSucceeds`, `PairFails` and `PairForget` are PairDevice.

### WlrOutputs

| Variable | Code |
|---|---|
| `heads`, `incomplete`, `headSerial` | `m.heads`, events since the last done, `m.serial` |
| `wlrQueue`, `wlrActor`, `headsSeen` | the queue, the actor and what it has read |
| `outputs`, `outputsDirty`, `outputsTimer`, `lastOutputs` | `m.state`, the mark, the notifier's timer, `m.lastNotified` |
| `applier`, `wantedHead`, `resultChan` | each ApplyConfiguration, the head it names, its channel |
| `config`, `responded`, `destroyed`, `configTimer` | its configuration object, the variable its closures share, calls of Destroy, its timer of a second |
| `overflowed` | history: requests of which the full queue dropped a command |

The dispatcher writes heads and serial without a lock while the actor reads one and then the other
(`ReadHeads`, `StoreOutputs`). `HandlerLooks`/`HandlerAnswers` and `TimeoutLooks`/`TimeoutAnswers` are the test
and the rest of the handlers and of the timeout, which run on two goroutines. Of a head only
the fields `stateChanged` compares are kept, as one; events that change the others (descriptions, the details
of modes) post the same update. What the compositor does after a second Destroy is left open.

### IwdAttempts

| Variable | Code |
|---|---|
| `connecting` | `state.ConnectingSSID`, with `IsConnecting` |
| `attempts`, `curAttempt` | every `connectAttempt` made and where the goroutine that began it is; `b.curAttempt` |
| `finalizers` | calls of `finalizeAttempt`: who makes them, and where they are |
| `iwdPump`, `aborting` | the signal pump, and `abortInFlightConnection`, between their reads and their acts |
| `abortOvertaken`, `stranded` | history: attempts marked finalized that nobody clears after |

`ConnectWiFi` and `ShowConnecting` are the two critical sections of ConnectWiFi, `ConnectFails`, `ConnectSucceeds` and `WatchdogEnds`
its goroutine and the watchdog; `CheckFinalized` and `ClearState` the two of finalizeAttempt; `SignalArrives`,
`PumpConnected` and `PumpDisconnected` the pump's reading of the attempt and its acting on it after a D-Bus call; `Verify` the
goroutine that looks again after three seconds. A refused ConnectWiFi and a cancelled prompt call setConnectError,
which may happen at any time. Whether a signal is about the attempt's network is left open: the code asks
iwd for it when the signal is handled.

## 4. Runs

| Run | Specification, bounds | Result | What it shows |
|---|---|---|---|
| `matugen_queue` | `FairSpec`, 3 jobs; 577 thousand states | pass | `TypeOK`, `QueueIsSound`, `EveryJobResolved`, refinement `LatestWins` |
| `matugen_wait` | `Spec`, 3 jobs | violation | `CompletedMeansBuilt` fails: section 7 |
| `managers` | `MCSpec`, one of two managers per behaviour, bounds below; @MAN@ states | pass | `ManagersTypeOK`; sleep inhibitor: `ReadyChannelSound`, `CycleFollowsLogind`, `ArmedFallbackReleases`, `WaitersEnd`; CUPS: `SubscriberIsFed`, `UnsubscribeReturns` |
| `sleep_reacquire` | `Spec`, 1 client, 1 suspend | violation | `ReacquiredAtRest` fails |
| `sleep_resume` | `FairSpec`, 1 client, 1 suspend, session path may change | violation | `ResumeHandled` fails |
| `sysupdate_live` | `UpdateFairSpec`, 1 caller, 1 request, 1 upgrade, 1 backend or none; @SYS@ states | pass | `WorkEnds`, `DueCheckRuns`; no deadlock |
| `daemon` | `MCSpec`, one of eight managers per behaviour, bounds below; @DAE@ states | pass | `DaemonTypeOK`; prompts: `AnswerIsForItsNetwork`, `NothingLeftBehind`, `AloneIsReachable`; brightness: `LastSetIsShown`; Bluetooth: `DevicesAreCurrent`, `PendingIsAsked`; outputs: `OutputsAreCurrent`, `ApplierIsServed`; night light: `LightFollowsConfig`, `NoControlLeaks`; clipboard: `UnpinnedUnique`, `PublishedIsCurrent`, `ContentKept`, `SweepsAreStale`; wallpaper: `NoTimeSleptThrough`, `NoTimeServedTwice`; updates: `OneOperation`, `PhaseIsLive`, `CoalescedIsFresh`, `CustomUpgradeRechecked` |
| `gamma_crossing` | `GammaSpec`, 2 outputs, 2 events | violation | `ReturnedOutputIsLit` fails |
| `cups_panic` | `Spec`, 2 clients, 2 starts | violation | `NeverPanics` fails |
| `broadcast` | `MCSpec`, the broadcast (1 connection, 1 callback, 2 values, channel capacities 1, 3 changes, 1 capability change) or the attempts of iwd (2 networks, 2 attempts, 2 signals, 1 abort); 490 thousand states | pass | `NetworkTypeOK`; broadcast: `NoLostChange`, `ClosedAfterProducers`, `SessionEnds`, `ClientCatchesUp`; attempts: `ConnectingEnds` |
| `broadcast_stale` | `Spec`, as above, capacities 2, no capability change | violation | `UpdatesAreSent` fails |
| `prompts_wrong_network` | `PromptSpec`, one key for 2 networks | violation | `AnswerIsForItsNetwork` fails |

Why the bounds are enough.

- *Theme queue.* With three jobs the third can displace the second while the first runs, and three
  workers can be alive at once. The state of a job is forgotten once it is resolved, and the safety
  part is proved for any number.
- *Sleep.* Two clients, two suspends, three queued signals, two requests, logind may refuse. Two cycles let
  goroutines of the first, delayed, meet the second; two clients let one be
  between check and act while another acts; a queue of three signals holds a sleep, its lock and the
  wake-up. A waiter or timer of a cycle compares with the current one only, so a third cycle
  adds nothing but another stale goroutine. Each suspend is announced at most once before it is handled.
- *Night light.* Two outputs and two levels; four events of the environment cover switch, level, an output
  that comes and one that is lost; two retries make the limit reachable; a queue of eight never fills, as the
  code's of 128 does not in practice. At most two objects and three controls of an output exist at once. After a crossing the two properties
  say nothing, so `MCDaemon` lets the environment do nothing new then (what is under way goes on); the module itself has no such guard, and the
  proofs are about the module.
- *Clipboard.* Two contents, two goroutines, a history of two with one pin: the smallest in which trimming, twins
  and the limit of pins all happen, and a request can be overtaken in each of its transactions by a whole other one.
- *Wallpaper.* One schedule (they share only the timer), days of three ticks with two times, an interval of two
  and five ticks in all: a time is reached, slept over and reached again. Three changes allow a stop or a suspend
  after the configuration, and another change.
- *Prompts.* Two networks and two requests, one session and one canceller: one request may share the other's
  token, be overtaken in its cleanup, and be answered or cancelled at each point.
- *Brightness.* One monitor, two values, three changes by two requests, four events: two timers may be at work
  while a third is set, and the monitor may go and return meanwhile. Devices do not share a timer.
- *Bluetooth.* One device, two requests for it, one change BlueZ makes by itself, heard or not, reads that fail at any time, an event queue of three, one more than
  pairings: requests overlap, the queue fills, and it holds an update when it does. With a shorter queue the update that is dropped may be the last (section 7).
- *Outputs.* One output with two changes, one request, a queue of two: the queue is full of the request's command and an
  update when another is posted. The proofs hold for any number of each.
- *Updates.* In `daemon` one caller with two requests contends with the scheduler and with the final refresh of a custom upgrade, so that
  each joins refreshes of the others; two upgrades let one begin while the last steps of the
  other remain. The daemon has found one backend or none: one reaches every outcome of a check but "one backend failed, another did
  not", which only changes the list of packages. The proofs hold for any number of each. In `sysupdate_live` one request, one upgrade and the
  scheduler contend for `refreshSerial`.
- *CUPS.* Two clients and two starts: the second client may come at every step of the first one's stop, and a stop may be followed by a whole new start
  whose channels are new. A third start would make and close channels once more; the proofs hold for any number of starts and clients.
- *Broadcast.* Two values suffice for a change and a change back, three changes for one during the timer, one during
  the Range and one after. Capacity one makes both channels overflow or block. In `broadcast` one client
  is enough because clients share only the notifier, which treats them one after another.
- *Attempts of iwd.* Two attempts, at one or two networks, with two signals: any two of the goroutines that end an
  attempt may race, and a second attempt may begin at each step of the first one's end. One abort may overlap with either.

The passing runs reach the difficult states too: `broadcast` reaches the panic of a
notifier that sends to a channel `Unsubscribe` has closed (`crashed`) and the overflow of a subscriber's
channel (`dropped`); the liveness properties exclude them by name, and nothing else.

## 5. Fairness and rest

Fairness is only ever assumed of what the Go runtime or the code itself guarantees.

- *Goroutines run.* Weak fairness of each goroutine's next step. A backend's check and an
  upgrade run under a context with a deadline (5 and 30 minutes); the lock file is polled with a limit of
  45 s, so a worker that waits for it also has the step `FileLockTimeout`. A build runs the external
  program `matugen` without a deadline: that it ends is assumed of that program.
- *Timers expire.* Weak fairness of `TimerFires` and of the notifier's timer.
- *A mutex is granted.* Strong fairness of `RefreshStep` in SysUpdate: `refreshSerial` is a
  `sync.Mutex`, whose starvation mode hands it to a waiter that has waited too long.
- *A select chooses among ready cases at random*, so a case that is ready again and again is taken:
  strong fairness of `SchedFire` (SysUpdate) and `LoopStops` (in `CupsFairness`). In `StateBroadcast` weak fairness of
  the mark's case and of the timer's is enough, because `MaxChanges` bounds how often marks come.
- *A client that is there reads.* Weak fairness of the handler's write in StateBroadcast. A client
  that neither reads nor leaves would block the handler for good; the code sets no write deadline.
- *iwd answers.* Weak fairness of the goroutine that waits for Connect, a D-Bus call without a deadline; that the answer
  comes is assumed of iwd, which gives up by itself. The watchdog's ticker and the three seconds of the verifier pass. The
  pump and the abort need no fairness: no attempt depends on them.
- *One manager per behaviour*: in `MCManagers` and `MCNetwork` (`MCDaemon` assumes no fairness) fairness of a manager that is not the behaviour's part
  says nothing, since none of its fair actions is enabled in its initial state.
- *Nothing external is forced*: no request, suspend, resume, network change, CUPS event, connection or
  disconnection has fairness.

`CHECK_DEADLOCK FALSE` is set where the system comes to rest: when the bounded number of jobs, suspends,
starts or changes is used up and everything has been handled there is nothing left to do, which is the
normal state of a daemon. Properties that speak of rest (`OutputsAreCurrent`, `DevicesAreCurrent`, `LightFollowsConfig` and
others) are about the states in which nothing of the component is queued or under way. `sysupdate_live` checks for deadlock: the scheduler and `SetInterval` keep that
model moving, so the check there says only that no step blocks the whole model.

## 6. Proofs

TLAPS proves the following for every value of the constants that satisfies their assumptions. Every invariant and every
action property of the passing runs is among them, a few under hypotheses named below, and so is the refinement.

| Module | Theorem | Statement |
|---|---|---|
| `MatugenQueueProofs` | `TypeCorrect` | `Spec => []TypeOK` |
| | `NoStrandedJob` | `Spec => []CurrentHasWorker` |
| | `OpenChannelsQueued` | `Spec => []OpenIsQueued` |
| | `CancelledWereDisplaced` | `Spec => []OnlyDisplacedCancelled` |
| | `QueueStaysSound` | `Spec => []QueueIsSound`: the three above |
| | `RefinesLatestWins` | `Spec => LatestWins`: the queue implements the abstract one |
| `SysUpdateProofs` | `TypeCorrect` | `UpdateSpec => []UpdateTypeOK` |
| | `OperationsExclude` | `UpdateSpec => []OneOperation` |
| | `PhasesAreLive` | `UpdateSpec => []PhaseIsLive` |
| | `JoinersAreServed` | `UpdateSpec => []CoalescedIsFresh` |
| | `FinalRefreshIsMade` | `UpdateSpec => []CustomUpgradeRechecked` |
| `NetworkProofs`: broadcast | `TypeCorrect` | `Spec => []TypeOK` |
| | `ProducersEndFirst` | `Spec => []ClosedAfterProducers` |
| | `ChangesAreAnnounced` | `Spec => []NoLostChange` |
| attempts of iwd | `IwdInvariant` | the inductive invariant |
| | `ShownHasItsEnd` | `IwdSpec => []ShownIsAccounted` |
| | `IwdTypesHold` | `IwdSpec => []IwdTypeOK` |
| both | `NetworkTypesHold` | `MCSpec => []NetworkTypeOK` |
| `ManagersProofs`: sleep | `SleepInvariant` | the inductive invariant |
| | `TypeCorrect` | `Spec => []TypeOK` |
| | `ReadyChannelsAreSound` | `Spec => []ReadyChannelSound` |
| | `CyclesAgree` | `Spec => []CycleFollowsLogind` |
| CUPS | `CupsTypesHold` | `CupsSpec => []CupsTypeOK` |
| | `SubscribersAreFed` | `CupsSpec => []SubscriberIsFed`, for any clients and starts |
| | `OnlyCrossingsPanic` | `CupsSpec => [](overlapped \/ NeverPanics)` |
| both | `ManagersTypesHold` | `MCSpec => []ManagersTypeOK` |
| `GammaProofs` | `GammaInvariant` | `GammaSpec => [](crossed \/ GammaInv)`, inductive |
| | `ControlsAreKnown` | `GammaSpec => []NoControlLeaks` |
| | `GammaTypesHold` | `GammaSpec => []GammaTypeOK` |
| | `LightFollows` | `GammaSpec /\ []HasRoom => []LightFollowsConfig` |
| `PromptBrokerProofs` | `BrokerInvariant` | the inductive invariant |
| | `PromptTypes` | `PromptSpec => []PromptTypeOK` |
| | `NothingIsLeftBehind` | `PromptSpec => []NothingLeftBehind`, whatever the keys tell apart |
| | `AloneStaysReachable` | `PromptSpec => []AloneIsReachable`, whatever the keys tell apart |
| | `SecretsStayApart` | `PromptSpec => []AnswerIsForItsNetwork`, if different networks have different keys |
| `DaemonProofs`: clipboard | `HistoryInvariant` | the inductive invariant |
| | `ClipTypes` | `ClipSpec => []ClipTypeOK` |
| | `ContentsAreUnique` | `ClipSpec => []UnpinnedUnique` |
| | `SweepsStayStale` | `ClipSpec => []SweepsAreStale` |
| | `PublishedStaysCurrent` | `ClipSpec => []PublishedIsCurrent` |
| | `ContentsAreKept` | `ClipSpec => ContentKept` |
| wallpaper | `WallpaperInvariant` | the inductive invariant |
| | `TimesAreServedOnce` | `WallSpec => NoTimeServedTwice` |
| | `NothingSleptThrough` | `WallSpec => []NoTimeSleptThrough` |
| brightness | `DdcInvariant` | the inductive invariant |
| | `BrightnessSettles` | `DdcSpec => []LastSetIsShown` |
| | `DdcTypesHold` | `DdcSpec => []DdcTypeOK` |
| Bluetooth | `BluetoothInvariant` | the inductive invariant |
| | `BluetoothTypes` | `BtSpec => []BtTypeOK` |
| | `PendingsAreAsked` | `BtSpec => []PendingIsAsked` |
| | `DevicesCurrentUnlessCrowded` | `BtSpec /\ []FullQueueUpdates => []DevicesAreCurrent`, for any queue |
| | `DevicesStayCurrent` | `QueueCap > MaxPairs` gives `BtSpec => []DevicesAreCurrent` |
| all eight | `DaemonTypesHold` | `MCSpec => []DaemonTypeOK` |
| `WlrOutputsProofs` | `WlrInvariant` | the inductive invariant |
| | `OutputTypes` | `WlrSpec => []WlrTypeOK` |
| | `OutputsStayCurrent` | `WlrSpec => []OutputsAreCurrent` |
| | `AppliersAreServed` | `WlrSpec => []ApplierIsServed` |

Assumptions on the constants, all named in the modules and evaluated by TLC in every run: the bounds are natural
numbers, those that must be are positive; `NoClient`, `NoValue`, `NoContent`, `NoSsid`, `Plain` and `Unset` are none of the values beside which
they stand; the callers are none of the scheduler, the final refresh and "unheld"; the set of possible backends is finite (which of them are there, perhaps none, is a
variable); the heads and requests
of the outputs are finite sets and the queue is longer than the number of requests; there are devices, outputs, levels and values to speak of;
a day has two ticks at least and an interval one.

Some theorems assume more, and say so in their statements, because the code does not give their conclusions without it.

- `SecretsStayApart`: the keys tell the networks apart (`KeysTellApart`). NetworkManager's do; for the other backends see finding 6.
- `DevicesStayCurrent`: the event queue is longer than the number of pairings a behaviour asks for. The code's queue holds 32 events.
  However many pairings there are, `DevicesCurrentUnlessCrowded` says what is needed: that a full queue holds an update, not 32 events of trust.
- `LightFollows`: the actor's queue is never full (`HasRoom`). `post` drops the closure when it is, so that a failure or a
  removal may never be heard. The code's queue holds 128 closures.

No theorem restricts what the environment does. Where the code fails once certain steps have overlapped, a history variable records
that they have, the property says so, and the theorem's invariant is "the history says so, or ..."; the case of the overlap is closed by the
lemma that history is not forgotten (`CrossedStays` and the like). What happens then is shown by the violation runs.

*Theme queue.* `CurrentHasWorker` is inductive with the types alone. `OpenIsQueued` and `OnlyDisplacedCancelled` are not: `Finish`
resolves whatever is current, `Submit` relies on a fresh channel, and a displaced job must be in no
worker's hands. `QueueInv` adds that jobs not yet submitted are untouched (`Untouched`), that the job a
worker holds has been submitted and is never the pending one (`WorkerJobServed`), that the submitter of
an open job has had no result (`OpenUnanswered`) and that one who still waits for a displaced job will
find "canceled" (`CancelledAnswer`). The
refinement follows step by step: `Submit` is `Request`; `Finish` is `Serve` when there is a current job and
a stutter otherwise; everything else is a stutter.

*Updates.* `SysInv` adds to the four properties that `refreshSerial` is held exactly by the refresher that is
checking (`SerialHeld`), that whoever waits to join is waiting for a refresh in flight or has been served
meanwhile (`JoinedInFlight`), and that the final refresh belongs to the operation that holds the token
(`FinalRefreshOwned`). `CustomUpgradeRechecked` rests on `OneOperation`: `EnterRefresh` gives up only while
an upgrade is shown, and while a custom upgrade is in its last refresh no other can be.

*Broadcast.* `SessionInv(c)` says what the wait group of a connection counts, which producers have been
started at each place of the handler, who has unsubscribed, and that a closed `eventChan` means a count of
zero after both were started. `NoLostChange` needs only that each callback marks after it stores.

*Attempts of iwd.* `ShownIsAccounted`: what is shown as connecting belongs to an attempt that is not finalized, or to one of which a finalizer has
still to clear what is shown, or that is stranded by one of the two races of section 7: the theorem says that there are no others. `ConnectingEnds` is its liveness, which TLC checks.

*Sleep.* `CycleFollowsLogind` speaks of a moment without queued signals; the invariant has to say what the queue
will do. `QueueIsHonest` says that some sequence of states of logind leads through the queued signals from the manager's idea of the
suspend to logind's; `OneSuspendWaits` bounds them, `ChannelOfCycle` says which cycle's channel is published at each place of the pump, and
`PublishedFollows` relates the manager's flags to the front of the queue.

*Clipboard.* `SweepsNumbered` bounds the ids in sweeps by those the database has given out, so that a new entry is in no
sweep however late it runs (`SweepsAreStale`); entries do not grow young. A transaction
that stores a content removes its unpinned twins. For `PublishedIsCurrent`, `Reflected` says that the table is going to be read, or has been and what was
read shows it and waits to be published, or nobody is about to publish and what is published shows it; a goroutine that was overtaken when it publishes is in
the histories. `ContentKept` is proved step by step from the same invariants.

*Wallpaper.* Everything the loop carries lies on one side of the daily times: a planned fire is one of its schedule's times, later than
the last rotation (`WaitsForATime`); a rotation that is about to be published was decided after a time not yet served, and is the last fire already
(`DueAreNew`); a catch-up is for a time after the last rotation (`LateAreMissed`); no last fire, in memory or in the file, is older than
the last rotation (`FiresRemember`), whence a restart between fire, save and publication repeats nothing. The lemmas on the latest and the next instant of a
daily time hold for days of any length.

*Night light.* All of it is under `~crossed`. `GammaSound`: every control that exists belongs to the object its output is tracked by, each object counts the
backoffs in the queue, at most one structural closure (set-up, tear-down, addition, removal) is queued, and a set-up or an addition finds an output with
nothing left. `StartupNeedless` is about the first moments: the set-up that `NewManager` posts finds the control the first addition has made, or comes
after that addition, so that it attaches nothing twice. An action that would break one of these sets `crossed`. `RetriesBounded` needs more than the guard on the retry count, which is tested when the failure is heard:
an output has at most one backoff, one control that may still fail or one failure to hear, and all but the first mean a count below the limit.
`LightSound` says that whatever an output lacks is on its way: the set-up, the tear-down, the addition or the removal that the switch and the monitors call
for (`SwitchFollowed`); a size or a failure that its control has still to tell or that is queued, an apply or a trigger, or a resume (`LightDue`);
only a control that holds its output colours it (`LitByControl`). `SizesFirst`, that a queued failure comes after the queued sizes, is needed because a
size that came after it would declare a dead control ready. At rest nothing is on its way, which is `LightFollowsConfig`.

*Prompts.* Every entry of the broker's maps has an owner: a request that is under way and whose cleanup
will remove it. When no request is under way there is no entry. Two requests share a token only if they
share a key, which gives `SecretsStayApart`.

*CUPS.* As long as nothing has crossed (`Uncrossed`), a stop has the manager to itself from the moment it clears `running`, and so has a start: nobody starts or
stops what another is starting or stopping (`ClientsApart`), the channels in use are those of the last Start and the last Stop, and only its own steps have closed them
(`ChannelsInUse`), and a loop or a handler alive is that of the last Start and selects on its
channels (`LoopsAreOfLast`, `HandlersAreOfLast`): what the wait group of the code is there to guarantee. Subscribers without a
subscription are about to start it (`StartIsDue`). Each close and each send of `NeverPanics` is then on an open channel.

*Brightness.* The wait group counts the timers that are to run or running, so a number is free for each change that is still to be
debounced (`WaitGroupCounts`); a pending value is the last one set and a timer in the map will take it (`PendingIsLast`); once taken it is the only one on its way to the
monitor or is shown by it and known (`LastIsWritten`); and what is known is published or somebody has read it, or is to read it (`PublishedOrDue`). The histories
`overlappedSet`, `failedSet` and `outdated` except the races of section 7.

*Bluetooth.* `Accounted`: a pending device has a request on its way, or one that was granted and whose signal waits.
For `DevicesAreCurrent`, `CurrentOrDue` says that nothing has been read yet, or that something has been missed, or that the notifier is going to read BlueZ (a signal waits, an update is queued or in the worker's hands, the mark is
set) or holds, stores or has told what BlueZ has, whichever of the two readers stores last. A full queue drops updates:
`TrustsArePaid` counts for each trust event in the queue a pairing that was granted and not yet told, so that a queue longer than the pairings cannot consist of trust events
alone, and the update that it holds reads what the dropped one was to publish.

*Outputs.* What is not published yet has an update queued (`Fresh`) although updates are dropped: each request
has at most one command in the queue (`Once`), so by the pigeonhole principle a full queue longer than the number of requests
holds an update, which will read what the dropped one was to publish. `RequestInv` says where a request's commands
and timer can be at each of its places.

*Composed runs.* The specifications of `MCManagers`, `MCDaemon` and `MCNetwork` imply that of each part, since a part that is not the behaviour's stutters; the
types of the parts together follow.

Only model-checked: liveness (`EveryJobResolved`, `ArmedFallbackReleases`, `WaitersEnd`, `WorkEnds`,
`DueCheckRuns`, `UnsubscribeReturns`, `SessionEnds`, `ClientCatchesUp`, `ConnectingEnds`), since fairness and
ENABLED are out of this prover's reach. No recursive definition is used,
so nothing is lost to the limits on induction over data.

## 7. Findings

Each is a disagreement between the code and what a comment, a test or a document of the
repository says, shown by a run that TLC ends with a counterexample.

1. **A waiting caller may be told "completed" although its job never ran** (`matugen_wait`). `finishJob`
   resolves `q.current`, not the job of its worker. A worker past `finishJob` picks up the job of a new
   `Submit` together with the worker that `Submit` spawned; the second of the two to finish resolves the
   job after it.
2. **A resume may leave the daemon without its inhibitor** (`sleep_reacquire`). `releaseForCycle` finds the
   cycle current, the resume ends the cycle and re-acquires, then the release drops the new inhibitor. The
   next suspend is not delayed.
3. **The signal pump may wait for itself** (`sleep_resume`). On resume it rebinds the session; when the path
   has changed, that stops the pump and waits for its wait group from the pump's own goroutine.
4. **Subscribing while the last subscriber stops may panic the daemon** (`cups_panic`). `Stop` clears
   `running` first and works on the channels without the mutex; a `Start` in between makes a new event
   channel, which the stop then closes under its writer. The comment at `server/cups/subscription.go:237` takes the
   writer for joined.
5. **A client may be left with an outdated state** (`broadcast_stale`). The notifier compares with what it
   sent last, not with what each subscriber was given: a client whose initial state was read between a
   change and the change back is not told.

6. **A secret may be sent to the wrong network** (`prompts_wrong_network`). The prompts of iwd and wpa_supplicant
   leave `ConnectionPath` empty, so that two networks that ask at once share a key and a prompt. The
   second one is given what the user typed for the first.
7. **An output may stay dark with the night light on** (`gamma_crossing`). An output announced while a set-up is queued is attached
   twice: by the set-up, since it is available already, and by its own closure, which replaces the first object without destroying its control.
   The compositor has given the output to the first control; the second fails, is tried again and given up. A comment
   (`server/wayland/manager.go:207`) promises a returning output its light without a manual toggle.

Found while modelling, and checked with these models by hand, but outside the runs:

- *Outputs.* A configuration that is refused in `ApplyConfiguration` (head or mode not found, or a request that
  fails, `server/wlroutput/handlers.go:181` to `:255`) leaves `responded` false, so its timeout destroys the
  object a second time, a request on an object that is gone; the same can happen when a handler and the timeout
  look at `responded` at the same moment. A second request on a dead object is a protocol error that ends the
  Wayland connection. Fields that `stateChanged` does not compare reach clients only with the next change that it does,
  and a request whose command the full queue drops waits for ever.
- *Clipboard.* The count of pins and the pin are separate transactions: two requests may pass the limit (`PinnedWithinLimit`).
- *Wallpaper.* A schedule is also caught up with when it is switched off and on again, not only after a stop (`CatchUpAfterStop`).
  With two schedules a daily time may pass while the loop waits for an interval of the other that was planned before a suspend; it is served late. (Two
  schedules, `MaxTime` 8, `MaxChanges` 4, `Interval` 4, and `NoTimeSleptThrough` without `AllInStep`.)
- *Brightness.* Two timers that write at once may leave either value, and a failed write leaves the percentage as asked.
- *Night light.* A switch turned off and on (or on and off) before the actor has run what the first turn posted leaves the light off (or on), because
  SetEnabled decides from `controlsInitialized`, which only the actor sets (`server/wayland/manager.go:1234`).
- *CUPS.* A crossing may also end without a panic: an Unsubscribe waits for ever for the handler a newcomer has added to the wait group
  (`server/cups/manager.go:265`), or a newcomer that found others subscribed stays without events because they stopped the subscription after it looked.
- *Updates.* Without a backend no due check is ever made: `runRefresh` returns (`server/sysupdate/manager.go:250`) without moving the next check,
  and the scheduler, whose timer is then zero, turns for ever. `DueCheckRuns` excepts the case by name.
- *iwd.* A connection may be shown as being made for ever, until another one ends, in the two races `ConnectingEnds` names: an
  abort (`server/network/backend_iwd_wifi.go:747`) between whose halves a new attempt at the same network is shown marks that one
  finalized, and a "disconnected" signal handled between the store of `curAttempt` and the showing (`:649` to `:657`) clears too
  early. An older attempt that ends clears what a newer one shows. Not in the model: `OnUserCanceledPrompt` forgets the network shown as
  connecting, not the one whose prompt was cancelled (`server/network/backend_iwd.go:217`).
- *Sleep.* A locker-ready call that comes late may close the next cycle's channel, whose inhibitor is then released at once.
- *Bluetooth.* `stateChanged` ignores Trusted; a second PairDevice that fails, or an older signal that the device is no longer paired,
  removes the mark of the first; what BlueZ changes between the manager's first read and its subscription to signals
  (`server/bluez/manager.go:53` to `:63`) is not noticed, and after a read that fails (`:132`) the list is old, in both cases until the next signal (`missed`); a queue full of trust events drops the update. `Agent.Cancel` does nothing: the prompt stays open.

Reached by the models but claimed nowhere, therefore no finding: the notifier's send on a channel that
`Unsubscribe` has just closed, which panics; a full subscriber channel, which loses the newest state, not the
oldest; two callbacks of which the one that read first stores last, so that the manager keeps the older
state until the next signal; an enable that overtakes a disable and leaves the inhibitor held while disabled.

## 8. What is not modelled

- *External systems*: logind, CUPS, NetworkManager and the other network daemons, package managers and the
  matugen program appear as environments: their answers and events are choices.
- *Data*: templates and colours, package lists, printer and network contents, protocol objects.
- *Shutdown*: `Close` of the managers, which runs at daemon exit only.
- *The other network backends, the update backends, the D-Bus bridge, the clipboard's data device*: conversions, with little
  control that several actors share.
- *iwd beside the attempts*: the error codes, the replacement of a saved passphrase and the agent's calls, whose requests to
  the user are those of `PromptBroker`.
- *Bluetooth pairing prompts*: the same broker as the network's, without the duplicate check.
- *Parts of modelled components*: the schedule of the sun in the night light, the adapter's own properties in Bluetooth, modes of
  outputs, sysfs and logind brightness and the broadcasts of single devices, PropertiesChanged and the session's discovery in loginctl.
- *The installer, the command line, plugins, themes, keybinds and trash*: sequential programs around files and
  child processes.
- *IPC framing and dispatch*: in a package outside the repository.
- *The QML shell, dotfiles and packaging*: the shell is the clients of the models.

`PROJECT.json` lists each with the reason.

## 9. Plan

Done: the fourteen modules of section 2, and a theorem for every safety property that a passing run checks. Next, in this order:

1. The CUPS reference count of `handleSubscribe`, composed with `CupsSubscription`: whoever is counted is
   subscribed, the manager is closed only by the last. It is known that the count is never lowered when the manager
   cannot be started, and that a manager that is being closed may be handed to a new subscriber. Bounds: two or three connections.
2. `ScreensaverInhibit`: cookies, peers that die, notifications in goroutines of their own. Properties:
   no inhibitor of a dead peer at rest, the last state sent is the newest, a state sent is not changed by
   UnInhibit's append to the shared slice.
3. The Wayland event loop and the clipboard's data device: a posted function is run while the loop lives, a
   source that is replaced does not serve the newer selection.
4. Tray recovery as a consumer of `StateBroadcast`: every resume is followed by a scan.
5. The theme mode scheduler; the broadcasts of brightness, of which there is one pending device for all.

Proofs to come: `NoLostChange` carried on to the client (while its view is outdated a state is on its way to it, or was dropped);
`DevicesAreCurrent` for a queue longer than the pairings under way at once. The properties of section 7, and the histories `crossed`, `overlapped` and `missed`,
which properties except by name, need the code to change first.
