# Calaos server in TLA+

This directory holds a TLA+ verification project for `calaos_server`, the home
automation daemon of this repository: modules translated from its C++ source, the
configurations TLC checks them with, and theorems the TLAPS proof system checks.

## The system

`calaos_server` is one process with one thread, a libuv loop wrapped by uvw, and
sigc++ signals (only `HistLogger` adds a thread).  Everything it does is a callback of
that loop: a timer, a message of a driver process, a request of a client, the end of
a script.  A callback runs to its end before the next one starts, so the hard
behaviours are not data races but *orders*: which callback comes first, what a
callback finds changed since the one that armed it, what it calls synchronously
that calls back into it, and what is left armed when a command changes its mind.

### Components, their state, their operations, what makes them correct

| Component | State | Operations | Hard behaviours | Correct when |
|---|---|---|---|---|
| IO model (`IOBase`, `ListeRoom`, `Room`) | the IOs by id, their values, connection status | `set_value`, `EmitSignalIO`, `setStatusInfo`, `createIO`, `deleteIO` | an IO deleted while a rule, a callback or a script refers to it | nobody acts through an IO that is gone; deletion is refused under the lock |
| Rules engine (`ListeRule`, `Rule`, `Rules/*`, `IOChangeHub`) | rules in order, index of scenario rules, `execInProgress`, `pendingTriggers`, missing ids of each rule, flags of `ConditionStart` | `ExecuteRuleSignal`, `drainPendingTriggers`, `ExecuteStartRules`, `RemoveRule`, `notify`, end of a script | signals that come back while a march iterates the rules, rules destroyed under a running script, start rules before or after other events | every change is served once and in order, nothing runs on top of a march, no destroyed or partial rule acts |
| Shutter (`OutputShutter`) | direction, last direction, answered position, four kinds of timers, cached values | up, down, stop, toggle, impulse, set_state and their timers | commands during the pause of a reversal, timers that repeat, overwritten pointers, a restart with a stale cache | never both relays, a moving motor has its end timer, the answered position is true |
| Smart shutter | position by time, target, calibration | set percent, up, down, stop, impulses, calibrate | a reversal or a new target before the old one is reached, a state set under a running motor | a shutter that stands is where the server says |
| Lights, dimmers, RGB | value, impulse and blinking pattern, hold-to-dim timer | on, off, toggle, set, impulse, hold press and stop | a command in the middle of a pattern, a rule that answers a light from within its own write, a release that races the timer of the press | a pattern leaves the light as it says, a short press toggles and a long one dims |
| Push buttons (`InputSwitch*`) | value, count, timers | press, release, timeout | a release after the long press was reported, a contact reported again | each press is reported once and as what it was |
| Climate (`ClimateBase`, `InternalThermostat`, `ProxyClimate`) | demand, state of each output, lock-outs | evaluation, write, read-back, put back | writes confirmed late or lost, outputs switched by something else, rules run by a write | never heat and cool at once, minimum times kept, a demand is served |
| Scenarios (`AutoScenario*`, `IO/Scenario`, `InputTimer`) | generated rules and IOs, current step, timer | play, stop, schedule, modification, an IO deleted and created | the rules of a step trigger each other within one march; a modification under a running scenario | a run keeps its time, stops when asked, ends |
| Driver processes (`ExternProc`) | the process, its generation, delay before a respawn, frames | start, terminate, exit, error, data | an exit that belongs to an older process, several respawns armed at once, a stream cut anywhere | one process at a time, a relaunch is never lost, a stop of ours is not counted as a crash, messages come whole |
| Drivers (Wago, KNX, MQTT, OLA, OneWire, GPIO, Hue, Web, Reolink) | addresses, cached values, command queue (Wago) | read, write, heart beat | lost and late datagrams, a socket reopened | every read is answered once |
| Remote touch screens | provisioned devices, authenticated sessions, firmware transfer | provisioning, authentication, OTA | nonces that expire, interrupted transfers | only provisioned devices are served |
| Audio and cameras | command queue with timeout, connections, tokens | send, answer, timeout, reconnection | a timeout or a lost connection while commands wait | every command is called back, in order |
| HTTP and WebSocket servers | status, fragments, pings, timers, writes under way | request, upgrade, frame, ping, close | control frames between fragments, close frames from both sides, a peer that is gone | messages come whole, a connection that ends is closed |
| JSON API | sessions | requests, events | an answer for a session that is gone | |
| Events (`EventManager`, `PollListenner`) | queue, polling clients | create, poll, expire | a client that polls while it expires | each client gets each event once |
| Loggers (`HistLogger`, `DataLogger`, `ThreadedQueue`) | queue shared with a thread, table of push tokens | push, pop, stop, register, approve | stop while the queue is empty, a locked database, a table of an older version | every reader is answered, the thread ends, an approver stays as approved |
| Administration (`AdminState`, `AdminEvents`, `DaemonClient`, `ConsoleTunnel`) | mode, flag file, stream of events, stored alerts, series of retries, tunnel | poll, reconnect, observe, store, ack, push, relay | a daemon that dies, hangs or changes its token; replays; a tunnel whose ends and calls interleave | the mode is never opened by silence, an alert is kept once, a tunnel is refused or relayed |
| MCP server (`McpServerManager`) | process, token, timer | spawn, exit, new token, stop | a restart that crosses a stop | the process comes back, with the present token |
| Configuration and state cache | files, backups, what is loaded and frozen | load, save, backup, replace | a cut inside any write | a complete file is always there, an upload survives |
| Tools and vendored code | | | | not part of the daemon |

Interactions: drivers and clients call `set_value()` or report a value; the IO emits its
signal; `ExecuteRuleSignal()` marches the rules; their actions call `set_value()` of other
IOs; `IOChangeHub` calls the devices that are linked to the IO; `EventManager` queues
events for polling clients, WebSockets, loggers and scripts; `Config` saves cached values.

`Shutter`, `SmartShutter`, `Light`, `Dimmer`, `Thermostat` and `Scenario` are what an action
of a rule does to a device; `RuleEngine` is what every change of an IO goes through;
`ExternProc` and `Framing` are below the drivers that report those changes.  Where one part
is entered from within another the model has both: the march over the rules is in
`RuleEngine` and, for the rules a scenario generates, in `Scenario`; a light has one rule
that may answer it from within its write; the thermostat's writes may run rules.  Elsewhere
what the others do to a part is one of its inputs (a command, a value, the death of a
child), taken at any moment.

## The modules

| Module | Models | Lines up with |
|---|---|---|
| `Shutter` | one `OutputShutter` with its timers, the state cache and restarts | `IO/OutputShutter.cpp`, `lib/Timer.cpp`, `CalaosConfig.cpp` |
| `SmartShutter` | one `OutputShutterSmart` and the physical shutter | `IO/OutputShutterSmart.cpp` |
| `Blinking` | the argument of `impulse`, as both kinds of lights read it | `IO/OutputLight.cpp` |
| `Light`, `Dimmer` | one `OutputLight` with a rule, one `OutputLightDimmer` | `IO/OutputLight.cpp`, `IO/OutputLightDimmer.cpp` |
| `Thermostat` | one `InternalThermostat` with two outputs and their bus | `IO/InternalThermostat.cpp`, `IO/ClimateBase.cpp` |
| `Scenario` | one `AutoScenario`, its button, timer, schedule and rules | `Scenario/AutoScenario.cpp`, `IO/Scenario.cpp`, `IO/InputTimer.cpp`, `JsonApi.cpp` |
| `Buttons` | the three kinds of switches on one contact | `IO/InputSwitch*.cpp` |
| `TriggerQueue` | what the rules engine promises: a FIFO queue whose head is being served | |
| `RuleEngine` | `ListeRule`, `Rule`, `IOChangeHub`, what the API does to rules and IOs | `ListeRule.cpp`, `Rule.cpp`, `IOChangeHub.cpp`, `IOBase.cpp`, `ListeRoom.cpp` |
| `ExternProc` | one `ExternProcServer` and the controller that restarts its driver | `IO/ExternProc.cpp`, `IO/KNX/KNXCtrl.cpp` |
| `Framing` | the messages of a driver process on its stream | `IO/ExternProc.cpp` |
| `WagoUdp` | the UDP commands of one PLC | `IO/Wago/WagoMap.cpp` |
| `Squeezebox` | the command queue and the connections of a player | `Audio/Squeezebox.cpp` |
| `History`, `PushTokens` | the history thread and its queue, the table of push tokens | `HistLogger.cpp`, `lib/ThreadedQueue.h` |
| `Polling` | events and polling clients | `EventManager.cpp`, `PollListenner.cpp` |
| `ConfigFiles` | `io.xml`, `rules.xml` and their backups | `CalaosConfig.cpp`, `lib/ConfigStore.cpp`, `AdminConfig.cpp` |
| `ConsoleTunnel` | one console, from the browser to the daemon | `ConsoleTunnel.cpp` |
| `WebSocket` | one connection of the server | `WebSocket.cpp`, `HttpClient.cpp`, `HttpServer.cpp`, `lib/WebSocketFrame.cpp` |
| `DaemonLink` | the stream of events, the polls, the flag and the token | `AdminEvents.cpp`, `AdminState.cpp`, `DaemonClient.cpp` |
| `AdminAlerts` | the alerts of the daemon: stored, acknowledged, pushed | `AdminEvents.cpp`, `AdminState.cpp` |
| `McpSidecar` | the MCP process | `McpServerManager.cpp` |
| `MCShutter`, `MCRuleEngine` | the sets a .cfg cannot write; a house of three IOs and five rules | |
| `MCDevices`, `MCServices` | the devices, and the services, each followed alone | |
| `Inductions` | lemmas about folds and flattened sequences, for the proofs | |
| `DevicesProof` | theorems about `Shutter`, `SmartShutter`, `Light`, `Dimmer` and the house of `MCDevices` | |
| `ThermostatProof`, `ButtonsProof`, `ScenarioProof`, `RuleEngineProof` | theorems about the module of that name | |
| `ServicesProof` | theorems about `ExternProc`, `Framing`, `WagoUdp`, `Squeezebox`, `PushTokens`, `ConfigFiles`, `History`, `Polling` and the services of `MCServices` | |
| `ConnectionsProof` | theorems about `AdminAlerts`, `DaemonLink`, `ConsoleTunnel`, `McpSidecar` and `WebSocket` | |

`MCDevices` and `MCServices` put parts that share no state into one specification: the
variable `part` is chosen in `Init`, and the others stand still (`Alone`).  It is the
disjoint union of their behaviours, and a property of several parts is a conjunction
that each behaviour tests in its own part.

In all of them an action is one callback of the event loop, or the part of a callback
between two points at which code that belongs to somebody else runs.  Definitions that
bear the name of a fault (`ArmNoTravel`, `ReleaseEarly`, `KeepClient`...) belong to no
next-state relation: each is a plausible slip of the definition beside it, and
`PROJECT.json` names the property that notices it.

### Shutter

State: `sens`, `oldSens`, `stateVolet`, `isImpulse`, `nudge` are `sens`, `old_sens`,
`state_volet`, `is_impulse_action`, `impulse_action_time`; `timerEnd`, `timerImpulse` and
`timerPause` are the four `Timer *`; `relay` is the two outputs, which belong to the
hardware and survive a restart; `cache` and `disk` are the values `updateCache()` leaves
and those `saveStateCache()` has written.  `ran` (ticks run since the start), `asked` (the
last command) and `clash` (both relays were on, if only within a callback) are history
variables that only properties read.

Actions: `Move`, `StopCommand`, `Toggle`, `Impulse`, `SetState`, `Refused` are the branches
of `set_value()`; `EndOfTravel`, `EndOfImpulse`, `PauseOver` and `NudgeOver` the callbacks
of the timers.  A timer holds the ticks it has left and time does not pass over a timer
that is due, but several timers that are due together run in any order, and any command
may come before them.  What makes this component hard is written down as it is:

- `Timer` repeats until it is deleted.  `TimerEnd()` and `TimerImpulse()` delete theirs;
  the callbacks of `timer_up` and `timer_down` delete theirs only when the shutter really
  starts, so `PauseOver` on a moving shutter stops it and stays armed.
- `timer_down = new Timer` does not delete the timer the pointer named.  That one becomes
  an *orphan* (`OrphanOver`), which nothing can delete and which fires for ever.
- The one-shot of a nudge (`nudgeStops`) is never cancelled.
- `Restart` may come at any moment, with whatever had been saved, and the constructor
  restores `sens` without a timer.

`SetState` follows the code, where only `set_state up` and `set_state down` change the
answered position (`OutputShutter.cpp:159-168`), not the `true` and `false` its
documentation names (`OutputShutter.cpp:68`).  Left out: `cmd_state` (the last command as text), the
signals sent once the state has changed, and the branch for devices that report their own
state (`useExternalState()`).

### TriggerQueue and RuleEngine

State: `rules`, `index`, `missing`, `armed` are the list of `ListeRule`, `rules_scenarios`,
the `missingIoIds` of each rule and the flags of `ConditionStart`; `locked` and `pending`
are `execInProgress` and `pendingTriggers`; `scripts` counts the detached scripts of a
rule.  What is local to functions on the stack is state here: `current`, `syncTodo`,
`asyncTodo`, `hubTodo` are what `executeTrigger()` has left of a trigger, `lockedWrites`
what an action has left to write, `startTodo` and `freeWrites` the same for what runs
outside of the lock.

Actions: `ExecuteRuleSignal(id)` either defers `id` or starts a march, `Collect` evaluates
all conditions of the rules that `id` triggers (using up a `ConditionStart` on the way,
since the evaluation clears it), `ExecuteSyncRule`, `DispatchAsyncRule` and `Notify` are the
three loops of `executeTrigger()`, `LockedWrite` one `set_value()` of an action or of a
callback, `EndTrigger`, `DrainPending` and `Release` the end of a trigger and
`drainPendingTriggers()`.  `ExecuteStartRule` and `FreeWrite` run outside of the lock, as
`ExecuteStartRules()` and `setStatusInfo()` do (`ListeRule.h:94`).  `Event` is what comes from
the loop, when none of this is on the stack: values, connection status, first reads, ends
of scripts, IOs and rules created and removed.

Assumptions, each from the code:

- Rules are numbered in the order they are added, which is the order of the list; a
  rule that is created again is a new rule.  In a bounded run the number of a removed rule
  is used again only when no script of it is in flight: the token a script carries is
  of the old rule.
- Every `set_value()` of an IO that exists signals; whether an IO signals a value it already
  has is the business of the IO and signalling more is the harder case.
- Standard conditions compare an IO with a value; a condition on an IO that is gone
  is false; `ConditionScript::Evaluate()` is false, so a scripted rule never acts
  synchronously.  A rule is scripted or a start rule, not both: a script condition never
  passes at the start.
- Deletions come from the loop only: `deleteIO()` refuses while the lock is held.  The
  `modify` argument by which a rule could lose only one condition is never true.
- The subscribers of an IO in `IOChangeHub` are merged into `HubWrites`, what they write.
- `MaxScripts` bounds the scripts of one rule that are in flight; past it no further one is
  counted.

`TriggerQueue` is the abstract specification: signals are appended, the head is served,
nothing else.  The refinement maps its queue to the trigger being marched followed by
the deferred ones.  A nested march, a lost trigger, one served twice or out of turn is
not a step of it.

### ExternProc

State: `proc` is each child as the system sees it (alive, or how it ended until the loop
hears of it); `handle` is `process_exe`, `closing` the time between its ExitEvent and its
CloseEvent; `generation`, `failures` are `respawn_generation` and `respawn_failures`;
`mark` and `held` are the generations captured by the callbacks of a child and by the
launches that wait in a timer; `notices` the `processExited` emissions armed for 100 ms
later; `link` and `client` the connections and the one `sendMessage()` writes to.
`signalled` and `cancelled` are history.

Actions: `Start` is the constructor of a controller and `ProcessExited` its handler, which
launches again; `StartProcess` bumps the generation and spawns or holds; `HoldEnds(g)`
spawns if `g` is still the generation; `Die` is the world's; `ExitEvent`, `TurnEnds` the
loop's; `Terminate` is `terminate()`, which signals the child, or finds the handle closing
and reports the error; `Connect`, `SendMessage`, `LinkEnds`, `FramingError`, `LinkClosed` the
callbacks of the connection.

Assumptions:

- Generations are only compared, so a bump gives a value that nothing holds: a capture
  is never 2^32 bumps old.
- A child ends with a zero status, with a failure, or by SIGTERM, whoever sent it.  A launch
  may fail at once (an ErrorEvent).  A kill of a handle that is closing reports an
  ErrorEvent besides the exit ("both can be armed in the same run", `ExternProc.cpp`).
- A timer of 100 ms or more runs after the loop turn of the exit is over and after the end
  of file of the dead child has been read (`TimersDue`).  Notices and held launches are in no
  other order than that of their delays.
- The framing of messages, the relay of the child's output, the child's own loop
  (`ExternProcClient`) and the deletion of a server are not modelled.

### Devices

- **SmartShutter.** `smSens`, `smOldSens`, `smPosition`, `smStart`, `smEnd`, `smCalib`, `smPauses`,
  `smNudge`, `smStops`, `smPulse` are the members and timers of the object; `smRan` the time since
  `start_time`; `smRelay` and `smActual` the hardware, which the code does not see.  Actions are
  the branches of `set_value()` and the callbacks of the timers.  Opening and closing take any
  two positive times; a position is counted in steps in which both directions move by a whole
  number per tick.  A calibration reads `impulse_time` again (`zero`): when it is 0, rather
  than absent, `OutputShutterSmart.cpp:256` arms a pulse of no length (`smPulse`), which drops the
  relay although the calibration goes on (`smLost`).  A negative distance gives the timer a
  negative duration, which fires never or at once (`Delays`); a timer deleted by nobody fires
  again after its period (`smEvery`).  `smSpoilt` marks a state set or a calibration begun under
  a running motor: what the server then believes is wrong by construction, and `smart_stop`
  shows one consequence.
- **Light.** `light` holds the members (value, timers, the pattern and where it is);
  `reaction` one rule that answers a value with a value, from within `EmitSignalIO()`, after
  which the write that triggered it goes on with what it finds (`SetAndSignal`).  A timer
  replaced in the member `timer` can no longer be deleted.
- **Dimmer.** `dim` holds the members; `HoldPress`, `HoldStop` and `HoldFires` the button,
  `dmHold` and `dmOld` what properties compare with.  Every command goes through
  `StopImpulse`, as in `set_value()`.
- **Thermostat.** `thermo` is `Output::State` and the lock-out of each output, `reads` what an
  output reads, `bus` the writes on their way to an output of `Slow`, which is one that
  confirms later, each with its age; `pass` what is left of `regulate()` when a write has let
  rules run.  Nothing in the code bounds the time a write takes to be read back: `Lag` is that
  bound, a constant, and the properties and theorems that depend on it name it.  A
  member of `Climates` is the outcome of the comparisons of an evaluation, not a temperature.
  `Meddle` is whoever else switches an output; a write may be refused (`thFailures`).
- **Scenario.** `sc` holds the internal IOs, the timer and the deferred triggers; one action,
  `ExecuteTrigger`, is one march over the generated rules, which collects before it acts.
  `Handler` is a modification over the API, which deletes the rules, writes and rebuilds;
  `DeleteUserIO` and `CreateUserIO` what happens to an IO of the steps.  `scEdited` marks a run
  that was modified under way, until it ends.  A scenario may have no step, as the API allows:
  its run stays at step 0, which no rule answers (`Stepless`).  `ScenarioKeepsTime` and
  `ScenariosEnd` leave out these two kinds of runs and no other; the second kind never ends.
- **Buttons.** `bt` holds the value, timer and count of each of the three inputs on one
  contact; `ReportAgain` is a driver that reports a value it has already reported.  `btLog`
  keeps the presses with their times, from which `Longs` and `Clicks` compute what should
  have been told, as a reference.

### Services

- **Framing.** A byte stream read in pieces of any size; `frBuffer` and `frLength` are
  `recv_buffer` and the header of `currentFrame`, which outlive a child.  A byte is a small
  number, and the four bytes of a length are one.
- **WagoUdp.** `queue`, `inProgress`, the two timers, `version`, `deferred` are members of
  `WagoMap`; `net` the answers that may still arrive, which `Lose` drops and `Receive` may
  deliver twice; `Reopen` replaces the socket.
- **Squeezebox.** `player` holds the queue, whether its head is out, the timeout and the main
  connections with the state of each handle; a handle that is no more `conHandle` still has
  its listeners.
- **History, PushTokens.** `hsWorker` is where the worker thread is between two points at
  which the loop may run: locking and waiting of `waitPop()` are separate steps.  `PushTokens`
  follows one token through registrations, approvals, dismissals and purges on tables of
  every version.
- **Polling.** `plPhase` is what the loop runs: timers, idlers, requests, in that order
  (`Ready`, `LoopTurns`).
- **ConfigFiles.** A file is a version or `Bad`; `WriteIsCut` is the process that ends inside a
  write, `WriteReturns` its success or failure; `cfFrozen` is `config_frozen()`.
- **ConsoleTunnel.** `cn` holds the members, `cnQueue` what is written and not sent to either
  side, `cnAsked` the call to the daemon whose answer may come after the tunnel has gone.
  Queues count small messages; the water marks keep their order.
- **WebSocket.** `ws` holds the status, the handle, the timers, and in `once` the callbacks of
  the close frames under way: `uvw` runs a `once` listener at the next end of a write,
  whichever it is.  Frames are kinds; what a frame says is its number.  What follows, in the
  same read, a close frame that has closed the connection is still taken (`rest`).
- **DaemonLink.** `lkStream` is `AdminEvents`, `lkState` `AdminState` and the bearer token,
  `lkFlag` the flag file, `lkBox` the daemon: up, down, mute or too old, its token and the
  file it is in, its admin.  Generations of connections are not needed: an event of a former
  one is ignored, so the model has none.
- **AdminAlerts.** `al` holds the ids stored, the alerts whose event is being written, acks and
  pushes under way, series of retries and the last push of each window; `alHist` is the
  queue of the history thread, `alDisk` what survives, `alDaemon` what the daemon still
  keeps and what this stream has carried.
- **McpSidecar.** `mc` holds the token, the attempts and the timer, `mcExe` the process.

## The runs

| Run | Instance | Checks | Shows |
|---|---|---|---|
| `shutter_pulse` | pulsed relays, travel 2, pulse 1, pause 1, nudge 0, one orphan timer, one restart | `TypeOK`, `RelayIsPulsed`, `PositionIsEarned`, `MotorHalts` | No order of commands and timers leaves a relay on, the position is earned by a full travel, and the motor always halts again |
| `shutter_stop` | travel 4, pause 2 | `StopHolds` violated | A stop during the pause of a reversal is followed by a start |
| `shutter_nudge` | travel 4, pause 2, nudge 1 | `NudgeIsBrief` violated | A nudge that waits for a pause becomes a full move when another command clears the flag |
| `smart_stop` | up 3, down 2 | `StopStops` violated | A stop after a state was set under a running motor does nothing |
| `devices` | one of: a held shutter (travel 3, nudge 1, one restart), a smart shutter (up 2, down 3), a light, a dimmer, a thermostat, a scenario, a button | `DevicesTypeOK`, `RelaysAreTimed`, `PositionIsTrue`, `RelaysFollowSens`, `NeverBothLeftOn`, `LightsEndAsAsked`, `NeverBothOn`, `ScenarioKeepsTime`, `ButtonsTellPresses`, `TheyComeToRest`, `ShortPressToggles`, `LockOutsKept`, `DemandIsServed` | Whatever is commanded, answered by a rule, lost or written by others: timers end what they began, positions and lights are as asked, heating and cooling exclude each other and serve, scenarios keep their time and end, presses are told once |
| `rules_engine` | 3 IOs, 5 rules (one scripted, a start rule, one added later), a hub callback | `TypeOK`, `ActingRulesAreWhole`, `IndexMatches`, `LockDiscipline`, `ServesInOrder`, `ServesAll` | The engine is a FIFO queue of triggers that serves each; no destroyed or partial rule acts, whatever is deleted, created or still in flight |
| `rules_callback` | 3 IOs, 2 rules, a hub callback | `CallbacksNotRecursive` violated | A change of connection status calls subscribers outside of any march |
| `rules_started` | a start rule that another input also triggers | `StartRulesRun` violated | A change before the last first read uses up the start condition |
| `sidecar` | 3 children, 5 generations, failures up to 2, 2 terminations | `TypeOK`, `OneChild`, `StillPending`, `NoStaleClient`, `StopsAreAttributed`, `KeepsLaunching` | One child at a time, a launch is always under way, ends are attributed, messages reach the child that runs |
| `sidecar_dropped` | the same, 1 termination | `NeverDropped` violated | A `terminate()` during a held launch leaves the driver down |
| `services` | one of: the frames of a driver, a PLC, a player, the history, its tokens, polling, the files, a console, a WebSocket, the daemon's link, its alerts, the MCP process | `ServicesTypeOK`, `MessagesInOrder`, `ReadsSeeEarlierEvents`, `PollingIsSound`, `UploadSurvives`, `ConsoleIsSound`, `AlertsAreKeptOnce`, `StaysClosed`, `EveryCallIsAnswered`, `ConnectionsSettle`, `KeptDataStays` | Whatever is cut, lost, late, locked or restarted: messages come whole and once, who asked is answered, connections end or come back, what was promised to stay stays |
| `mcp_backoff` | 2 exits | `BackoffGrows` violated | Every restart of the MCP process waits one second |

The properties of `MCDevices` and `MCServices` that name several parts are:
`RelaysAreTimed` (`Shutter`, `SmartShutter`), `LightsEndAsAsked` (`Light`, `Dimmer`),
`TheyComeToRest` (`Light`, `Scenario`, `Buttons`), `MessagesInOrder` (`Framing`, `WebSocket`),
`PollingIsSound` (twice `Polling`), `EveryCallIsAnswered` (`WagoUdp`, `Squeezebox`, `History`,
`AdminAlerts`), `ConnectionsSettle` (`WebSocket`, `DaemonLink`, `McpSidecar`), `KeptDataStays`
(`PushTokens`, `ConfigFiles`).  Each conjunct is stated and explained in its own module.

### Bounds, and why they are enough

- *Shutter.* Only the order of the timers matters.  With travel 3 or 2 and pause 1 (travel 4
  and pause 2) a pause ends before, with and after the other timers that can be armed with it.  A
  nudge is shorter than the travel, in `shutter_pulse` shorter than a tick; its one-shot may
  outlive its move; a longer one makes none.  One orphan is enough for
  orphans to interact with each regular timer; a second behaves like the first.  One restart
  reaches every saved state; the proofs hold for any number.  The orphans
  and every type of timer are in `shutter_pulse`; the held shutter of `devices` has no orphan,
  which the proofs about held relays do cover.
- *RuleEngine.* Three IOs and rules that write each other's inputs give marches that defer
  two triggers while a third is served, from actions and from callbacks.  The rules of the
  runs write in no circle, so the queue is bounded without a constraint.  Two scripts of a
  rule differ from one only by being able to end in turn; `MaxScripts` is 1.
- *ExternProc.* Three children let a dead one's connection, a zombie and the running child
  exist together; five generations cover the current one, those of the children, and of the
  held launches; two failures reach the hold and its saturation; two terminations can meet
  a held launch, a running and a closing handle.  Where names run out, `Bump` and `SpawnProcess`
  are not enabled.
- *Devices.* Either direction of the smart shutter is the slower one (up 2 and down 3, in
  `smart_stop` 3 and 2); targets inside and before the travel, distances of either sign, also
  past its end, one nudge.  A single duration, a loop and a pattern that ends with "old"; a dimmer
  of three levels, so that a hold reaches the top and turns back; minimum times of 1 and 2
  ticks with a cooling output that reads back within a tick (`Lag` 1, which is less than the
  minimum time off), one foreign write and one refused write; scenarios of
  no, one and two steps, cycling or not, with steps of zero time; three presses around
  windows of two ticks, one repeated report.
- *Services.* Payloads that look like headers, three frames of two children; two reads and
  one order on a PLC; two commands on two connections; two events and two reads of the
  history; two values of each field an app may register; two polling clients and two events; two files,
  two versions, one backup; queues of the tunnel up to three with marks 3 and 1; three
  frames of a peer, with up to two close frames under way; two events in the life of the
  daemon and one restart of the server; two alerts in one window, one retry, one fault and
  one crash; three tokens and three exits.

`CHECK_DEADLOCK FALSE` stands where the system may really stop: a driver whose held launch
was withdrawn, devices at rest, connections that are closed, a server that has ended.

### Fairness

- *Shutter*, *devices*: `WF` of the callbacks that are due and of the tick.  The loop runs the
  timers that are due and time passes.  Nothing is assumed of clients: `MotorHalts` holds
  although they may send commands for ever between two ticks; `PatternsEnd` and `ScenariosEnd`
  are about devices that are left alone, and say so.
- *RuleEngine*: `WF(Step)`.  What is on the stack runs to its end; nothing in it waits.
  Nothing is assumed of inputs or of scripts.
- *ExternProc*: one `WF(Callback)` over what the loop owes: timers that are due, exits,
  the ends of connections.  Nothing is assumed of when a child dies or connects, of who
  writes to it or terminates it.
- *Services*: `WF` of the callbacks of the loop and of the history thread, of the other side
  of that thread and of the writes that reach the kernel, and of the tick.  Nothing is
  assumed of the network, of a PLC, of a media server or of a peer: what they owe is
  replaced by the timeout that guards it.  A call to the daemon or to the push service ends,
  if only by its timeout; a daemon that is well answers before the timers that watch it; a
  write to a peer that is there and does not read is not covered.  `LinkSettles` is about a
  daemon that is well at last.

## The proofs

Every safety property and every action property that a run checks is a theorem.  They hold
for every value of the constants that satisfies the named assumptions of the modules they
are about (`ShutterAssumption`, `SmartShutterAssumption`, `LightAssumption`,
`DimmerAssumption`, `ThermostatAssumption`, `ButtonAssumption`, `ScenarioAssumption`,
`RuleEngineAssumption`, `ConstantsAssumption`, `FramingAssumption`, ...), which TLC evaluates
on every run.  Some have a hypothesis of their own:

- `HeldRelaysSafe`, `NeverBothHeld` and `MotorsAreTimed` are about held relays
  (`ImpulseTime = 0`); with pulses the relays do not follow the direction.  `PulsesEnd` is about
  the others.
- `PositionIsKept` and `MotorsAreTimed` hold of smart shutters with any two positive travel times
  and any targets and distances.  They leave out, by name, a state set or a calibration begun
  under a running motor (`smSpoilt`) and, for the position, a calibration with an `impulse_time`
  of 0 (`smLost`), after which it is false.  That a timer is armed does not say that it fires:
  after a negative distance it may not.
- `NeverBothAtOnce` and `LockOutsAreKept` ask for `Lag < MinOff`: every write is read back in less
  than `min_off_time`.  The code has no such bound, and without it they are false: TLC finds both
  outputs on with `MinOff = 0`, the default (`IO/InternalThermostat.cpp:198`); the templates of
  devices give 300 s.
- `ImpulsesEnd`, `LightEnds` and `LightsEnd` ask that no rule answers the light with an impulse.
  Without it they are false, as TLC shows: a rule that answers the "off" of an impulse of
  zero leaves the light on, and `ImpulseIsOver` deletes the timer the rule has just made.
- `LightTypes` and `HouseTypes` only ask that no rule answers the light with a pattern that has
  no step, "loop" alone (`AnswersHaveSteps`).  After such an answer `impulse_extended()` reads
  the first step of an empty pattern (`IO/OutputLight.cpp:252`).

### Inductions over data

The library's induction theorems cannot be instantiated here, so what a fold or a recursive
function computes is proved by its least counterexample: a set of naturals that is not empty
has a least member (`Least`), from which there is a value for every length, or it would fail
at a least one (`Reaches`).  `Inductions` shows so that a fold is defined and that its value is
the last of the values along its sequence (`FoldPasses`), and that a flattened sequence joins its
parts (`FlattenJoins`).  `Decode`, which recurses on two arguments, is defined because each of its
steps leaves less (`Left`, `LeastLeft`, `DecodeIsDefined`).

| Module | Theorem | Property | Argument |
|---|---|---|---|
| `DevicesProof` | `TypeCorrect` | `TypeOK` | `IInv == TypeOK /\ Timed`: the history counter `ran` stays in its range only because an armed travel timer and the ticks run add up (`Timed`) |
| | `HeldRelaysSafe` | `RelaysFollowSens`, `RunIsTimed` | `HeldInv` adds that `timerImpulse` is never armed; one step per callback and command, each through a lemma on `Start`, `Wait` or `Halt` |
| | `NeverBothHeld` | `NeverBothLeftOn` | survives restarts because every start switches the other relay off, whatever the restored direction |
| | `PositionEarned` | `PositionIsEarned` | from `IInv`: at the end of the travel timer `ran = Travel` |
| | `PulsesEnd` | `RelayIsPulsed` | every write of a relay arms the pulse, and only its end or a restart takes the timer away |
| | `SmartTypes` | | positions are clipped, a time to go is a quotient rounded up |
| | `PositionIsKept` | `PositionIsTrue`, `SmartRelaysAreTimed` | `EstimateIsTrue` is the strengthening: while the motor runs, the estimate is where the shutter is, since clipping once or at every tick is the same (`BetweenMeetsTheEnd`) and no travel takes longer than `LongTravel`, the longer of the two times (`TravelIsLongest`); a calibration whose relay stays on has time enough to open what is left |
| | `LightTypes` | | a pattern that plays is at one of its steps (`AtStep`), which an answer of the rule moves to a step of its own pattern |
| | `ImpulsesEnd` | a part of `LightEndsAsAsked` | all timers are the one that is named (`NamedLight`), so a deletion leaves none, and after an impulse there is its timer or the light is off (`Impulsed`) |
| | `LightEnds`, `DimmerGivesBack` | `LightEndsAsAsked`, `DimIsRestored` | `Restoring`: a pattern that gives back a value plays at one of its steps, and the last of them has that value and no step after it (`GivesBack`); that the pattern read from "old" is such a one follows its tokens (`ParseReads`) |
| | `ShortPressesToggle` | `ShortPressToggles` | `PressIsKnown`: `detected` and `stopAfter` say how far the press is, and no command, impulse or pattern writes them (`WritesKeepHold`) |
| | `HouseImplementsDevices`, `HouseTypes`, `MotorsAreTimed`, `LightsEnd` | `DevicesTypeOK`, `RelaysAreTimed`, `LightsEndAsAsked` | every step of the house is a step or a stutter of each device |
| `ButtonsProof` | `ButtonTellsItsPresses` | `ButtonsTellPresses` | `ButtonInv` says what has been told of each press meanwhile: to the classic input all of it, to the long one what its timer will tell, to the triple one the groups before the one that is counted (`ChangesAreAll`, `ClicksAreAll`, `LongsAreAll`) |
| `ScenarioProof` | `ScenarioTellsTime` | `ScenarioKeepsTime` | `ScenarioInv` says what holds in the middle of a march: a button that is pressed waits to be served, a run has the rule of its step and its timer, or the end of the timer is served next, which is why one step answers it, unless it was modified or has no step; `MarchIs` follows a march through the list of rules |
| `ThermostatProof` | `ThermoTypes`, `NeverBothAtOnce` | `ThermoTypeOK`, `NeverBothOn` | `OneMayBeOn`: an output may be on when it reads "on", is held on, or has an "on" on the bus, and that is so of one at most; `WritesAreHeld`: an output with an "on" on the bus is held on, or was told to go off after that write and so at most `Lag` ticks ago (the ages of `Coming`), so that the other one, which waits `MinOff > Lag` ticks after it (`ChangeoverLasts`), is told only once no such write is left |
| | `LockOutsAreKept` | `LockOutsKept` | `SteadyInv`, while nothing else writes or fails: at most a flash of one output is on the bus (`BusIsShort`), each write for at most `Lag` ticks, the age an output knows is at most the time it has really been so (`AgeIsKnown`), and a pass has the forced stop of each output that must not run (`OrdersMatch`) |
| `RuleEngineProof` | `TypeCorrect` | `TypeOK` | through `MarchTypes` for the part that `Collect` moves |
| | `LockIsDisciplined` | `LockDiscipline` | `MarchOver` is the strengthening: between two triggers nothing of the last one is left, between two actions no rule acts |
| | `RulesAreWhole` | `ActingRulesAreWhole` (with `IndexMatches`) | `MissingIsKnown`: what a rule lacks is in its `missing`; `StartsAreWhole`: the rules the start has left lack nothing, as nothing is deleted while it runs |
| | `IndexIsExact` | `IndexMatches` | part of the same invariant as `RulesAreWhole`: each edit of the list marks, or unmarks, in the same step |
| | `ImplementsQueue` | `ServesInOrder` | initial states map to initial states, each action to `Signal`, `Finish` or a stutter, from the lock invariant |
| `ServicesProof` | `ChildTypes`, `AtMostOneChild`, `LaunchStaysPending`, `EndsAreAttributed` | `TypeOK`, `OneChild`, `StillPending`, `StopsAreAttributed` | one invariant `Inv`: `Quiet` (a launch in waiting means no child runs) is what makes a launch safe, `Ramp` (two notices only after a failure) is why the second of two doubled notices cannot spawn a second child: both launches are held and the first is obsolete; `Attributed` links the captured generation to `terminate()` |
| | `ClientIsCurrent` | `NoStaleClient` | `Connect` always takes the newest connection |
| | `FramesAreSound` | `FramesInOrder` | `FollowsStream`: the messages sent have a stream of bytes, in which the decoding stands after those received, or after the header of the next (`Stands`); the buffer is what was read since and the wire what is still to be read; from there `Decode` goes on with the messages that follow, and ends where one is not whole (`DecodeGoes`) |
| | `UdpTypes`, `SqTypes` | `UdpTypeOK`, `SqTypeOK` | a queue that is not empty has a head; a connection of a player hears of its error once and of its end once, so that two others succeed to it at most (`Heirs`) |
| | `TokenTypes` | `TokenTypeOK` | |
| | `ApproverStays`, `FilesStay`, `KeptDataIsKept` | `KeptDataStays` | step by step for the row of a phone and for the files, from the type of the first and the invariant of the second |
| | `UploadsSurvive` | `UploadSurvives` | `TodoIsSound`: what a replacement has still to write names each file once, and a copy was made of what each of them replaces |
| | `ReadsAreInOrder` | `ReadsSeeEarlierEvents` | the queue is first in, first out (`QueueInOrder`): every event that was pushed before a read is stored, has failed, or is ahead of the read, also of the one the worker holds (`ItemInOrder`) |
| | `PollersMissNothing` | `PollingIsSound` | the events got, those queued for the client and those on their way are consecutive numbers (`FollowsEvents`, `QueueIsNew`); a timer that is deleted leaves a client the idlers of the same turn delete (`TimersExpire`) |
| | `ServicesImplementParts`, `ServicesTypes`, `ServicesInOrder` | `ServicesTypeOK`, `MessagesInOrder` | every step of the services is a step or a stutter of each of the twelve |
| `ConnectionsProof` | `AlertsOnce`, `AlertTypes` | `AlertsAreKeptOnce` | `AcksFollowRecords`: an acknowledgement follows the answer of a read queued behind the event, which holds because the history serves in order; `QueuedOnce`: an alert is stored, waits in the queue, or is still to come, never two of them; `PushedOnce` and `WindowsAreStamped`: a push that went out, or is under way, is the stamp of its window |
| | `ClosedStays` | `StaysClosed` | `AnswerIsKept`: what the daemon has said is in the state, in the flag on disk, or its write has failed |
| | `TunnelIsSound` | `ConsoleIsSound` | `Inv` adds what the browser has heard in each state (`Heard`: nothing before the relay, "ready" and perhaps output in it), so that a refusal cannot follow "ready"; that both sides are read when the relay begins (`BothRead`), without which one could be held back by an empty queue; and that the call under way belongs to an opening or closed tunnel (`AskedBefore`), as its refusal must not end an open one |
| | `McpTypes` | `McpTypeOK` | |
| | `SocketIsSound` | `MessagesAreWhole` | the fragments that are kept are the data frames since a message ended (`IsKept`, `AreMessages`), as long as the frames of the peer come in turn; a control frame in between adds nothing |

Only model-checked, and why:

- the liveness properties (`MotorHalts`, `ServesAll`, `KeepsLaunching`, `TheyComeToRest`,
  `DemandIsServed`, `EveryCallIsAnswered`, `ConnectionsSettle`), which rest on fairness;
- the disagreements below, which are counterexamples and need no proof.

## What the code does otherwise than it says

1. `shutter_stop` -- `Stop()` returns at once when the shutter already stands
   (`OutputShutter.cpp:433`), also during the pause of a reversal, whose timer stays
   armed: the motor starts after the stop.
2. `shutter_nudge` -- `set_value()` clears `is_impulse_action` (`OutputShutter.cpp:106`) before
   it looks at the command, and the pause callback reads it: a nudge of some milliseconds
   becomes a full travel.
3. `rules_callback` -- `setStatusInfo()` (`IOBase.cpp:403`) notifies the hub outside of a
   march, so what a callback writes is marched while the callback runs, which
   `IOChangeHub.h:42` excludes.
4. `rules_started` -- any evaluation of a rule clears its `ConditionStart`
   (`Rules/ConditionStart.cpp:40`), so a rule may miss the start `ListeRule.h:209` promises.
5. `sidecar_dropped` -- `terminate()` withdraws a held launch (`ExternProc.cpp:149`) and
   nothing starts the driver again, which `KNXCtrl.cpp:349` relies on.
6. `smart_stop` -- `set_state` under a running motor sets `sens` to "stop" and leaves relay and
   timer as they are (`OutputShutterSmart.cpp:266`); "Stop the shutter"
   (`OutputShutterSmart.cpp:58`) then returns at once.
7. `mcp_backoff` -- `spawnSidecar()` resets the attempts whenever it has spawned, also after a
   spawn that failed (`McpServerManager.cpp:325`), so the "exponential backoff" of
   `McpServerManager.h:44` never gets past its first delay.

Four more, which no run shows, because what the properties promise leaves them out by name;
each property below is violated as soon as its exception is taken away:

- "calibrate" arms the pulse of the relays for `impulse_time >= 0` (`OutputShutterSmart.cpp:256`),
  where every other command does for `> 0`: with 0, documented as "impulse shutter is disabled"
  (`OutputShutterSmart.cpp:51`), the up relay drops at once and position 0 is written after the
  travel time, for a shutter that has not moved.  `PositionIsTrue` excepts it by `smLost`.
- "up -5" and "down -5" are not refused (`OutputShutterSmart.cpp:219-248`) and give the end timer
  a negative duration, which may never fire: the relay stays on with nothing to stop it,
  which `OutputShutterSmart.cpp:199-202` wants to exclude.  `SmartRelaysAreTimed` only says that a
  timer is armed; that it is not `Never` is false.
- With a `min_off_time` of 0, the default, nothing waits for a write that is on its way
  (`IO/InternalThermostat.cpp:942-966`): told to go on, then off, an output reads its "on" after the
  other one has gone on, so both are on.  `docs/01_core_data_model.md:602-606` promises "jamais les
  deux à la fois".  `NeverBothOn` is violated with `MinOff = 0` and `Lag = 0`, even when no write
  fails; the same holds whenever a write is read back later than `min_off_time`.
- The API accepts a scenario without steps, "a valid thing to ask for"
  (`tests/core/JsonApiScenarioWireBytes_test.cpp:1041`); its run waits at step 0, for which there is
  no rule (`Scenario/AutoScenario.cpp:619-667`), and stays active until the button is pressed
  again.  `ScenarioKeepsTime` and `ScenariosEnd` except it by `Stepless`.

## What no property covers yet

- Both relays of a shutter may be on together within the callback that reverses after
  a restart with a stale cache; no document promises a break before make.
- All conditions of a march are evaluated before its first action; the code means it so.
- Rules that write in a circle keep `drainPendingTriggers()` running for ever; true of any
  such rules, and the code has no bound.
- A driver that never reports the first read of one IO keeps the start rules from running;
  it waits for the drivers' modules.
- A late close of an older connection takes the client away from the child that runs: what
  the server sends is dropped until the next connection.  `NoStaleClient` allows it, no document
  excludes it.
- A child that dies in the middle of a frame leaves a part of it to the next child: the
  messages of that one are garbled (`FramesInOrder` excepts it).  A frame without payload
  waits for one more byte.
- A rule that answers a light with the pattern "loop", which has no step, from within the first
  write of another pattern makes `impulse_extended()` read past the end of a vector
  (`IO/OutputLight.cpp:252`); `devices` has no such rule, and `LightTypes` excludes it by name.
- A rule that answers the "off" of an impulse with an impulse keeps a light blinking, or
  leaves it on when the impulse was of zero; `devices` has no such rule.
- A running scenario modified to fewer steps may have its timer armed for a step that is
  gone (`JsonApi.cpp:3008`).  `Scenario::set_value("false")`, documented as "Stop the scenario",
  does nothing (`IO/Scenario.cpp:44`).
- A driver that reports a pressed contact again makes a click of it.
- An answer of a PLC that is late is served to the next command of its kind.
- An alert whose insertion in the history failed is acknowledged (`AdminState.cpp:293`).
- A flag whose write failed is not written again (`AdminState.cpp:57`): after a restart with a
  mute daemon the server does not know that an admin was set.
- A poll asked before an admin was set may answer after it, and an alert does not ask again
  while a poll is under way (`AdminState.cpp:134`): the mode is wrong until the next poll.
- A second close frame may be sent before the first is written (`WebSocket.cpp:616`), and what
  follows a refused frame is read out of step.
- A token of the MCP process replaced in the very turn of the loop in which it exited would
  schedule two restarts (`McpServerManager.cpp:159`); the model leaves that turn out.

## Plan

Done: the shutters, lights, dimmers, thermostat, scenarios and buttons; the rules engine;
driver processes and their frames; Wago, Squeezebox, history and push tokens, polling,
configuration files; console tunnel, WebSocket, the daemon's link and alerts, the MCP process.
Next, in this order:

1. **Theorems**: the order of the answers of a PLC and of a player, the states of a WebSocket and
   of the MCP process, of which runs check the liveness only.
2. **Remote touch screens**: sessions, nonces that expire, firmware transfers.
3. **CameraTokens**, **NotifManager**, the calls of `UrlDownloader` that are cancelled from
   their own callback.
4. **Compositions**: a scenario driven through `RuleEngine`, a driver's messages through
   `ExternProc` and `Framing`.

## Not modelled

Field buses that only translate values, encoding of requests and answers, calendars and the
sun (data rather than control), devices built from templates, pure conversions; the tools,
the MCP bridge and vendored libraries, which are no part of the daemon.  The vendored
libraries under `src/src/lib` (`exprtk.hpp`, `json.hpp`, `cpptui.hpp`, `pugixml`, `llhttp`) are most
of the lines of the repository.
