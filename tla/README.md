# A TLA+ model of the LiteArm maintenance driver

These modules model `litearm_driver`, the ROS 2 lifecycle node that owns a LiteArm arm's
USB link and offers the SDK's administrative commands as 55 services. Source locations below
are relative to `src/litearm_driver/`; `node.cpp` is `src/litearm_driver_node.cpp` and
`node.hpp` its header; a `README.md` quoted below is that of `litearm_driver`.

The SDK (`litearm-cpp`) and the firmware are not in the repository. What the modules say of
them is taken from how the driver calls them and from the driver's comments and documents,
and is marked external in `PROJECT.json`.

## The system

| Component | State it keeps | Operations | Correct when |
| --- | --- | --- | --- |
| Managed node (`node.cpp` 25-270) | node state, `arm_`, copies of the parameters | `on_configure`, `on_activate`, `on_deactivate`, `on_cleanup`, `on_shutdown`, `on_error` | one `Arm` exists and `arm_` owns it; outside the active state nothing is advertised, unless a timer could not be made, and the next teardown takes away what that left; active means ENABLE was acknowledged; every transition ends |
| Executor and callback groups (`litearm_driver_main.cpp`, `node.cpp` 45) | which group is busy, what each thread runs | take a service, a timer or a transition; Ctrl-C | services and timers never overlap; Ctrl-C ends with the port free |
| Service layer (`service_helpers.hpp`, `safety_gates.cpp`) | none | gate, then `run_command`, then the answer | a refusal puts nothing on the wire; "ok" only after the firmware's ACK |
| Flash writes (`node.cpp` 794-820, `litearm_driver_model.cpp`) | in the firmware: parameters and model, RAM and flash | `set_joint_params`, `save_params`, `reset_factory_params`, `set_model_body`, `commit_model`, `revert_model` | what was answered ok survives a power cycle; a commit is of what the client expects |
| Session record (`node.cpp` 85-160, 546-553, 894-910; `litearm_driver_diagnostics.cpp` 45-67) | `license_`, `license_valid_`, `speed_scaling_`, `joint_names_` | configure, reconnect, `set_speed_scaling` | what is reported is of the device in the session |
| Status reports (`node.cpp` 527-708) | `last_state_`, `have_state_`, the SDK's cached frame | `publish_status`, `publish_diagnostics`, `get_status` | reports are of this configuration, and become true when the arm stops changing |
| Gates of the motion, payload, feedforward, log and benchmark services (`safety_gates.cpp`, `litearm_driver_motion.cpp`, `_model.cpp`, `_diagnostics.cpp`) | none of their own: parameters read at call time, `joint_names_`, the session's axis count | one gate and one SDK call each | a switch turned off stops what comes; a number with a documented range is in it on the wire and arrays are finite; a frame fits the arm; no call but an endless `get_status` holds the group for ever |
| Launch file (`launch/litearm_driver.launch.py`) | what the launch process has heard of the node | configure at process start, activate at every entry of inactive | autostart reaches active; without it the operator alone decides |

**How they interact.** Services and the two wall timers are created with `sdk_group_`, one
mutually exclusive callback group. The lifecycle services and the parameter services are
rclcpp_lifecycle's and rclcpp's own, in the node's default group. `main` spins a
`MultiThreadedExecutor`, so one callback of each group runs at the same time. They share `arm_`,
the SDK object and the containers of servers, timers and publishers, without a lock. The SDK
has two threads of its own that matter: the reader that stores the last status frame, and the
zero-gravity keep-alive that writes to the port. The launch process and an operator reach the node
through its lifecycle services, and know its state only by the transition events it publishes.

**What is hard to test.** The overlap of a transition with a handler; error paths through
`on_error`, which keeps whatever was made; a lost ACK, which makes a refused call and an executed
one look the same; decisions from a cached frame; another device behind the same port; a
power cycle between two steps of a maintenance sequence. `hazards` in `PROJECT.json` lists each at
its line with the properties about it. The repository's tests call handlers from one thread.

## Modules

| Module | Models |
| --- | --- |
| `NodeStates` | the state graph of a managed node |
| `ManagedNode` | what a user of the driver may count on: the abstract specification |
| `DriverLifecycle` | the managed node on the executor; implements `ManagedNode` |
| `SerialStore` | what a maintenance client may count on: the second abstract specification |
| `LaunchAutostart` | the launch file and an operator beside a `ManagedNode` |
| `CommandGates` | a service call: gates, link, wire, answer, with all that changes beside it |
| `FlashStore` | a maintenance write: gate, wire, firmware, answer; implements `SerialStore` |
| `SessionRecord` | the licence record and the speed percentage across devices |
| `StatusReports` | from a status frame to `/status` and `/diagnostics` |
| `MCDriverLifecycle`, `MCCommandGates` | parameter sets, requests and symmetries for TLC |
| `ManagedNodeProofs`, `DriverLifecycleProofs`, `DriverRefinement`, `LaunchAutostartProofs`, `CommandGatesProofs`, `FlashStoreProofs`, `SessionRecordProofs`, `StatusReportsProofs` | theorems |

### ManagedNode

Four variables: the process is `alive`, the node's `state`, the `port` ("none" without an `Arm`, else
"closed" or "open") and whether the services are advertised (`serving`). Its actions are the
beginnings and ends of transitions and what may happen in between; there are no threads, no
handlers, no parameters. `DriverLifecycle` shows that it implements this with the refinement
mapping `alive <- proc # "exited"`, `port <- Port` (`Node`, `NodeRefined`), and `LaunchAutostart`
composes the launch file with it, so that what is shown there is shown of the driver.

### DriverLifecycle

`pc[t]` is where executor thread `t` is and `job[t]` the callback it runs. A transition callback
is split at the points where a handler can observe or disturb it:

| Callback | Steps |
| --- | --- |
| `on_configure` | `CreateArm`, `ConnectOk` or `ConfigureFails`, `ReadLicense`, `CreatePublishers` or `CreatePublishersThrows` |
| `on_activate` | `BeginActivate`, `EnableAcked` or `EnableRefused`, `CreateServices`, `ActivatePublishers`, `StartTimers` or `StartTimersThrows` |
| `on_deactivate` | `BeginDeactivate` (reads `zero_g_active()`), `LeaveZeroG`, `StopTimers`, `DestroyServices`, `DeactivatePublishers` |
| `on_cleanup`, `on_shutdown` | `StopTimers`, `DestroyServices`, `DeactivatePublishers`, `CloseArm`, `FinishCleanup` |
| `on_error` | `OnError` |
| handlers, timers | `TakeService`/`TakeTimer`, `BeginCall` or `RefuseCall`, `ReturnCall` |

`busy` is the set of callback groups with a callback in progress. `session[s]` is the life of
each `Arm` object (`unused`, `new`, `open`, `down`, `gone`); `held[t]` is the object a handler's
SDK call was given, which a transition may destroy under it. C++ promises nothing after that
(`Undefined`), and no behaviour is modelled past it: the property `NoCallOnDestroyedArm` shows that
it is reachable, every other property speaks of the behaviours up to there.

Of the 55 services the module keeps the kinds that differ for the lifecycle: `reset` (clears a
fault), `zero_g_on`, `zero_g_off` (start and stop the keep-alive), `reconnect` (tests `arm_` only, and
restarts the link), `get_status` and `enable` (stand for calls that leave no trace here). The
parameters are those that change a branch: `auto_enable`, positive rates, the timers whose
period fits (`fits`), publishers asked for, a legal topic name, names that match the axes. They may be set at any
time the default group is free, and take effect at the next configure. `start_timers` makes the status
timer first: when only the diagnostics period does not fit, `StartTimersThrows` leaves it running.

### CommandGates

One call at a time (`sdk_group_`): `Take` runs the handler up to `run_command` and refuses the
request or passes it (`Passes` has one conjunct per gated handler); `Send` or `NoLink` is the test in
`run_command` and the frame; `Answered`, `Rejected` or `TimeOut` ends it. Beside it, in the default
group or outside, `SetParam`, `Reconfigure`, `LinkLost`. `Reconfigure` drops a waiting `emergency_stop`, as
`services_.clear()` does. A `reconnect` has three outcomes (`Reconnected`): "ok"; the link down; and "failed" with
the link up and a new session, when the licence cannot be read after it. `get_status` hands its client's
timeout on: with one of 0 or less it asks for the cached frame (`FromCache`), with an infinite one it may never
return (`Endless`). The services with a gate (except those of
`FlashStore` and `set_speed_scaling`) and those that only call the SDK are requests here, each a
record of what the gates look at: the lengths of its arrays and whether they are finite, one
number, an index, the kind of a file name. `joints` is
`joint_count()`, `session` the device whose axes the SDK counts: the two part when a reconnect meets
another arm, and the three joint-table handlers ask the second. `late` (frames sent with
their switch off since the last parameter change), `stop` (a waiting `emergency_stop`) and `quiet` (the
other clients and the operator have stopped) are not in the program.

### LaunchAutostart

`OnProcessStart` and `OnStateTransition` are the two event handlers of the launch file, `Emit` its
condition. A request (`asked`, `op`) arrives some time later and is refused when the node has moved
on. `heard` are the events under way, `lost` one that came before the launch process had discovered the
topic, `mishap` a failed transition or an exit.

### SerialStore

Four variables: the firmware's memories (`ram`, `flash`), the `request` and its `phase`. A request takes
effect at most once and as a whole (`TakeEffect`), before its answer (`Give`): "ok" when it did, "refused"
when it did not, "failed" when it or its acknowledgement was lost (`Lose`) and nobody knows. Gates,
frames and the link do not occur. `FlashStore` implements it with the refinement mapping
`request <- [svc, arg]` of the call in progress and `phase <- Phase` (`Store`, `StoreRefined`); a
client that repeats a failed call issues a new request.

### FlashStore

One call at a time (`sdk_group_`): `Receive`, then `Refuse` or `Forward` by the gate, which reads the
SDK's cached frame (`frame`) and not the motors (`enabled`); `Execute` or `Reject` by the firmware;
`Return`. `LinkFails` and `PowerCycle` turn a call on the wire, and an executed one whose ACK is under
way, into an exception. A mask is the set of its bits: `Bodies` are the bits that mean something,
`Narrow` the 16 the SDK takes and `Wide` the 32 of the service. `durable` is not in the program: it
records what the last answer "ok" promised.

### SessionRecord

The device in the session (`peer`) and the one at the cable (`plugged`) may differ from one another
and from the one the record was read from. `sure` and `reply` are not in the program: they
say that nothing since the last acknowledged write could have moved the governor, and what the
last reconnect answered. Transitions are single steps here; their overlaps are
`DriverLifecycle`'s.

### StatusReports

`cache` is the SDK's frame, `last` is `last_state_`; `publish_status` is split at `cached_state()`, where
the reader thread and a deactivation can run; when `get_state()` throws there, what is remembered is published
(`PublishRemembered`). `Configure` and `Cleanup` wait for a status publication under way, which the code does not:
that overlap is `found_destroyed_arm`'s. A frame is its device and its fault bit, which
stands for its other fields. `named` is whose axes `joint_names_` lists: `on_configure` reads the
parameter, which empties it, and names the axes after the device it meets; a reconnect does
not. `seen` is not in the program: the devices of this configuration.

## Runs

| Run | Checks | Shows |
| --- | --- | --- |
| `lifecycle` | `TypeOK`, `CallbackExclusion`, `ArmOwned`, `PortReleased`, `ActiveWasEnabled`, `NodeRefined`, `TeardownSilences` | three threads, all service kinds, both timers, every transition, Ctrl-C, and a timer that cannot be created, whose remains the next teardown takes away; the whole implements `ManagedNode` |
| `lifecycle_live` | `NothingStarts`, `SilentUnlessActive`, `TransitionsEnd`, `DeactivationQuiesces`, `InterruptEnds` | what must end, ends, an inactive node is silent and starts nothing, with publishers that cannot be made and names that do not fit, but timer periods that do (`PeriodsFit`) |
| `flash` | `TypeOK`, `AckedIsDurable`, `StoreRefined` | an answered flash write is what flash holds; the whole implements `SerialStore` |
| `session` | `TypeOK`, `LicenseKnown`, `SpeedTracksGovernor` | the record against two devices that are swapped and power-cycled |
| `reports_live` | `TypeOK`, `OwnFrames`, `JointsNamed`, `ReportsSettle` | reports are of this configuration, name its axes, and settle on the truth |
| `gates` | `TypeOK`, `RevokedStops`, `SentInRange`, `FramesFit`, `StopIsServed` | requests at and beyond every boundary, while switches are turned, arms swapped and the node configured anew |
| `launch` | `TypeOK`, `Promise`, `StartPending`, `ByHand`, `Autostarts`, `NeverRests` | the launch file and an operator drive one node, which never waits for a request nobody will make |
| `found_destroyed_arm`, `found_zero_g_deactivate`, `found_refused_reset`, `found_commit_gate`, `found_mask_truncated` | one property each | the code does not do what a document or comment says (below) |

**Bounds.** `lifecycle`: three threads, because the two groups can both be busy while one thread is still
looking for work (a fourth could only look, too). Two `Arm` objects: a configure, a failure that
keeps the first, and a second configure over it; a third would repeat the second. Both timers, and
one request at each server: a second request of the same service waits without changing
anything the properties see. `lifecycle_live` uses two threads, which already overlap the two groups,
and two services. Parameters: `TinyRates` has the defaults and a diagnostics
rate too small for a timer, which leaves the status timer behind (`PortReleased` and the others must bear it);
`BadTopicOrNames` the defaults, a topic `create_publisher` throws on, and joint names that do not fit.
The symmetry of threads and `Arm` objects is used in the safety run only. `flash`: two contents, two
model parts, one meaningless low bit and one high bit tell every mask comparison apart. `session`
and `reports_live`: two devices, because what goes wrong is taking one for the other;
percentages 40 and 101 are inside and outside the gate. `gates`: an arm of two axes and one of one,
so that an index or a length can fit one and not the other; the numbers are the boundaries of each
gate, the values next to them, and a non-finite one; every service with a gate is asked, and of those
without one each kind that acts on the model. `late` is not bounded by the model: that it stays
below 2 is the property. `launch`: the operator asks three times (`MaxAsks`), enough to deactivate what
autostart activated, activate it again and clean it up; the counters of events and requests
follow from it. Nothing else is bounded. Deadlock is checked in every run; a process that exited,
and an undefined one, stutter (`Ended`, `Over`).

**Fairness.** `DriverLifecycle`: a thread that is inside a callback goes on, because SDK calls have
timeouts (1.2 s for a command, more for a bench) and no callback waits for another; a process
that is stopping and idle exits. A `get_status` whose client asked for an infinite timeout is outside this
assumption (node.cpp 881 does not check it): against a firmware that does not answer it would keep an inactive
node from falling quiet and a process from ending, and `DeactivationQuiesces` and `InterruptEnds` say nothing of it. Nothing obliges a client, an operator or the executor to begin
anything, and `services_.clear()` drops requests, so no property says that a request is answered.
`DeactivationQuiesces` says that a node left inactive falls quiet, `TransitionsEnd` that a transition
reaches a primary state. `StatusReports`: the status timer fires (weak), the firmware pushes
frames while the link is up (weak), and the diagnostics timer is not starved by the status timer
whose group it shares (strong: it is disabled while a status publication is under way). A
single-period starvation is not excluded by `rclcpp`, an endless one needs a status publication
that takes longer than its period. `ReportsSettle` is for `status_rate_hz > 0` (`StatusTimer`).
The status timer's fairness includes that `get_state()` does not throw for ever.
`CommandGates`: the executor takes *some* request when it can (`TakeStop \/ TakeOther`), a handler goes on
(`Send \/ NoLink`), and the SDK gives up waiting after the time it was given (`TimeOut`); nothing obliges the
firmware to answer or to reject, and a call without end need not end. Which of several ready services
it takes first is up to `rclcpp`, which goes through them in a fixed order: an `emergency_stop`
may be starved by clients that never pause, so `StopIsServed` speaks of a time when they, and the operator's
transitions, do; and it has one way out, an endless `get_status` that holds the group. A stop that a deactivation
dropped is not waiting any more.
`LaunchAutostart`: events and requests of the launch process are delivered and transitions end, which is
`TransitionsEnd` of `DriverLifecycle`; the operator need not do anything, and nothing says how a
transition ends.

Every property is also tried against a mutant of the model (`mutants`): a definition such as
`AnswerUnchecked` or `StopStatusTimer`, marked in its module, replaces the faithful one and must
violate the property.

## What is proved

The theorems hold for every value of the constants: any number of threads, `Arm` objects and
services, any parameters, contents, masks. They rest on the named assumptions of the modules
and on nothing else; where a theorem has a hypothesis, it is in its statement and in the table.

| Theorem | States | Argument |
| --- | --- | --- |
| `TypeCorrect` | `TypeOK` of `DriverLifecycle` | inductive as it stands: a handler inside the `Arm` tested `arm_` first |
| `Exclusion` | `CallbackExclusion` | `ExclusionInv` |
| `Ownership` | `ArmOwned` | `OwnershipInv` |
| `PortFreed` | `PortReleased` | `PhaseInv` |
| `ActivationEnables` | `ActiveWasEnabled` | `EnabledInv` |
| `Silence` | `SilentUnlessActive`, whose premise is that every timer period fits | `SilentInv` |
| `TeardownIsComplete` | `TeardownSilences`, whatever the periods | `TeardownInv`, with `StepsInv` and `ExclusionInv` |
| `NoStartAtRest` | `NothingStarts`, with the same premise as `Silence` | `QuietStep` from `SilentInv` and `PendingServed` |
| `DriverImplements` | `NodeRefined` | step simulation from `TypeOK`, `ExclusionInv`, `PhaseInv` and `StepsInv` |
| `PromiseKept` | `Promise` of `ManagedNode` | `PromiseInv` |
| `DriverKeepsPromise` | `Promise` of the driver process | `DriverImplements` and the lemmas of `PromiseKept` |
| `SerialisedCallsAreSafe` | `NoCallOnDestroyedArm`, were the callbacks `Serialised` | `InsideArm` |
| `SerialisedDeactivationEndsZeroG` | `ZeroGravityEndsAtDeactivate`, were the callbacks `Serialised` and every timer period fits | `ZeroGInv`, with `InsideArm`, `StepsInv` and `SilentInv` |
| `OneThreadSuffices` | both, for an executor with one thread and periods that fit | it is `Serialised` |
| `RefusalTakesServices` | after a refused ENABLE the node rests unconfigured without services, when every timer period fits | `RefusedInv` and `SilentInv` |
| `LaunchTypeCorrect` | `TypeOK` of `LaunchAutostart` | `CountInv` |
| `LaunchedNodeKeepsPromise` | `Promise` of `LaunchAutostart` | `NodeStep`: each step is one of `ManagedNode`, and the lemmas of `PromiseKept` |
| `LifecycleByHand` | `ByHand` | `NothingAsked` |
| `StartIsPending` | `StartPending` | `PendingInv` |
| `GatesTypeCorrect` | `TypeOK` of `CommandGates` | a passed timeout is finite, so the SDK's wait is; `get_status` is the exception |
| `SwitchesStop` | `RevokedStops` | `RevokedInv` |
| `RangesHold` | `SentInRange` | `TakenInv` |
| `FramesFitArm` | `FramesFit` | `FitInv` |
| `FlashTypeCorrect` | `TypeOK` of `FlashStore` | with `DurableInv`: a promise of a commit is the staged mask |
| `Durability` | `AckedIsDurable` | `DurableInv` |
| `StoreImplements` | `StoreRefined` | step simulation (`StoreStep`) from `TypeOK` |
| `CommitNeedsStaleFrame` | no commit takes effect while the cached frame is true (`FrameTrue`) | `CommitInv` |
| `NarrowMasksAreKept` | `CommitIsWhatWasExpected`, for masks that fit 16 bits | inductive with `TypeOK` |
| `SessionTypeCorrect`, `LicenceOfPeer`, `SpeedIsGovernors` | `TypeOK`, `LicenseKnown`, `SpeedTracksGovernor` of `SessionRecord` | inductive together |
| `ReportsTypeCorrect`, `FramesAreOwn`, `NamesAreOwn` | `TypeOK`, `OwnFrames`, `JointsNamed` of `StatusReports` | `MetInv` |

- `CallbackExclusion` alone is not inductive: it does not say why a second thread cannot take a
  callback. `ExclusionInv` adds that a thread in a service or timer step has "sdk" in `busy`, and one
  in a transition has "default", so that `Take` finds its group occupied. It needs that every service
  and timer is in `sdk_group_` and no transition is (lemma `Grouping`): this is the one fact about
  the code the theorem rests on.
- `OwnershipInv` adds to `ArmOwned` that a handler's `Arm` was constructed: without it a `reconnect` that
  returns could bring an unused object to life. That it was not destroyed in between is not proved
  but refuted, by `found_destroyed_arm`; the model ends there.
- `PhaseInv` ties threads to the node's state: a thread inside a transition callback means that the
  state is a passing one, hence none is when the node is finalized, and then `arm_` is null. It
  needs `ExclusionInv`: the callback that ends was the only one.
- `EnabledInv` carries the acknowledged ENABLE through the three steps between it and "active".
- `SilentInv` says at which steps of a transition servers, timers and publishers are already, or
  still, gone. The premise `PeriodsFit` is necessary: when `create_wall_timer` throws, the servers
  made before it stay (see below).
- `TeardownInv` needs no such premise: what each step of a teardown removed is still gone at the next, because
  the teardown's thread has the default group and only transitions make servers, timers or active publishers.
- `DurableInv` has three parts: while a flash write is on the wire the promise it replaces is void;
  an executed write that is not answered yet has its contents in flash; and `AckedIsDurable`.

- `StepsInv` says, for each step of a transition callback, which transition the node is in (`state`
  and `job`), whether `arm_` is set and whether the servers exist: what `ManagedNode` asks of the end of a
  transition was done steps earlier, and nothing in between undid it. It needs `ExclusionInv`
  (`StepsMoved`: there is no other callback to disturb). Its second half, that a passing state has its
  callback, is what lets `Exit` map to `ManagedNode`'s, which lets a transition end first.
- `PromiseInv` adds to `Promise` the states on the way: an `Arm` is held from inactive through
  activating and deactivating, and a process that exited is in a primary state, where no transition
  can change the port any more.
- `CountInv` counts with `Budget` the arrivals in inactive that are still to come or not yet answered: each is
  paid for by the process's start or by one request of the operator's. `NothingAsked`: without autostart no
  request of the launch process is ever under way.
- `RevokedStops` is not inductive: a call that passed its gate with the switch on might wait beside a
  count of 1. `RevokedInv` adds that after one late frame the call at the gate, if any, was taken under
  the parameters as they are now.
- `TakenInv` carries what the gates established (lemmas `PassesDomain`, `PassesFinite`) from `Take` to the
  wire and the answer; `FitInv` carries the lengths and the index, and needs `overtaken` because a configure may
  rename the axes between the two.
- `MetInv` ties the link, the remembered frame and the axis names to the devices met since the last
  configure: without "an open link's device was met" a new frame could be anybody's.
- `PendingServed` (a request waits only at a server that exists) is what `NothingStarts` needs beside
  `SilentInv`: with no timer and no pending request the executor finds only transitions to start.
- `PendingInv` adds to `StartPending` that before the operator's first request nothing of the operator's is
  under way and, without a mishap, the node is in no state that only the operator, or a failure, leads
  to: an activate that comes too early is refused and spent, so each arrival in inactive must bring its own.
- `InsideArm` (a call in progress is inside the `Arm` that `arm_` owns) is inductive only with `Serialised`,
  which no transition and handler overlap satisfies: this is what node.hpp 14-16 claims and the code
  does not do. `ZeroGInv` says that handlers run in the active state only and that the keep-alive
  belongs to it, or to the transition that leaves it. It needs the timer periods to fit: servers that survive
  a `create_wall_timer` that throws would let a `zero_g(true)` in while the node is inactive, with one thread
  as well.
- `CommitInv`: a commit on the wire has passed the inverted gate, on a frame that shows the motors on; with a
  true frame they are, and the firmware refuses.

Six theorems (`SerialisedCallsAreSafe`, `SerialisedDeactivationEndsZeroG`,
`OneThreadSuffices`, `RefusalTakesServices`, `CommitNeedsStaleFrame`, `NarrowMasksAreKept`) are about the five
disagreements below: the runs show that they exist, these show what each comes from, for all constants.

Only model-checked: the liveness properties (`TransitionsEnd`, `DeactivationQuiesces`, `InterruptEnds`,
`ReportsSettle`, `StopIsServed`, `Autostarts`, `NeverRests`), which are out of the proof system's reach.
Their safety halves are proved where they have one: `NothingStarts` for `DeactivationQuiesces`,
`StartPending` for `Autostarts` and `NeverRests`.

## Where code and documents disagree

Each of these five is a run that TLC finds violated, and an entry of `findings`.

| Run | The document or comment | The code |
| --- | --- | --- |
| `found_destroyed_arm` | node.hpp 14-16: every SDK call is serialised through one group | transitions are not in that group: cleanup, shutdown and configure destroy the `Arm` a handler is inside of |
| `found_zero_g_deactivate` | command-set.md 46-47: deactivating stops zero gravity | `zero_g_active()` is tested before the servers go; a `zero_g(true)` in flight starts the keep-alive afterwards |
| `found_refused_reset` | quickstart.md 107: after a refused ENABLE, clear the fault with `/litearm/reset` | the services were never created, and the node is unconfigured |
| `found_commit_gate` | README.md 650: `commit_model` requires the motors to be disabled | `!motors_enabled()` is passed where `motors_enabled()` is meant: refused when they are off |
| `found_mask_truncated` | CommitModel.srv 3-5: the mask must match what is staged | the 32-bit mask is cut to 16 bits first |

Met while modelling, and not kept as runs:

- `EnableRefused` returns ERROR, so the node ends in unconfigured; the message at node.cpp 179 says that
  it stays inactive.
- A timer period that does not fit (a tiny positive `status_rate_hz`) makes `create_wall_timer` throw
  after the servers were made: an unconfigured node advertises them, and so does the
  inactive one that the next configure makes of it (node.cpp 185-187, 483-491); when only the diagnostics
  period does not fit, the status timer stays as well. `SilentUnlessActive`, `NothingStarts` and
  `DeactivationQuiesces` therefore have `PeriodsFit` as a premise. What does hold then is `TeardownSilences`: the
  next deactivate, cleanup or shutdown takes it all away.
- A reconnect whose licence read fails answers "failed" with the link up, and the record is that
  of the device before (litearm_driver_diagnostics.cpp 58); README.md 586 says that reconnect re-reads
  the licence because another device could answer. `LicenseKnown` allows exactly this case.
- The joint-state publisher of an earlier configuration, kept by `on_error`, is activated again
  although `publish_joint_states` is false by then (node.cpp 147, 460).
- `on_activate` does not read the licence, as node.hpp 333-334 says.
- `on_configure` shows speed 100 without asking the governor, whose value persists (node.cpp 92).
- `joint_count()` keeps the axis count of the configure when a reconnect meets another device
  (node.hpp 339-340).
- With `status_rate_hz` 0 nothing refreshes `last_state_`, and `/diagnostics` repeats an old frame, or
  none, for ever (node.cpp 659-666).
- `enable`, `zero_g`, `park`, `set_motion_mode` and auto-enable are not behind `allow_motion`, although README.md 494
  and line 34 of the repository's README say that every service that can energise the motors is.
- `set_feedforward_scalar`, `set_joint_gains` and `set_joint_limits` have no finite check (README.md 42-43), and
  nothing checks the mask that `SetFeedforwardMask.srv` says the driver refuses; `SentInRange` names the
  three as its exceptions (`Unchecked`).
- "ok" does not mean as asked: the firmware clamps the entries of feedforward vectors, scales and gravity
  vectors in silence (command-set.md 143-144), and `set_payload` answers that it should be read back
  (node.cpp 944-947). `SentInRange` is about the documented ranges of single numbers and about finiteness only.
- `set_gravity_scale` and `set_inertia_scale` want seven values, where `SetGravityScale.srv` 3 says one per axis;
  a check that expects 0 values takes any length (safety_gates.cpp 135).
- `kin_bench` refuses a negative timeout, which `KinBench.srv` 8 offers for the default; `get_status` hands
  its timeout on unchecked (node.cpp 881).
- `move_l`, `move_c` and `move_path` report success without looking at `plan.ok`.
- After a reconnect with another arm, a refused length is explained by "the firmware reports N axes", with the
  N of the arm before.
- `enter_dfu` does not check that the motors are disabled.
- docs/quickstart.md 35 says that autostart `false` starts the node inactive: it stays unconfigured.

## What is not modelled

- The path a motion takes, the solver, the numbers a benchmark returns, log files, message texts, QoS:
  no state of the driver that a property here could be about.
- `get_feedforward_catalog`, `get_model_body`, `get_model_jm`, `get_model_status` and `probe_model` only read, and have no
  gate; `set_model_jm` is a second `set_model_body`.
- The SDK's retries, its frame format and its transport: outside the repository.
- What the SDK makes of an infinite timeout of `get_status` is not in the repository either; `CommandGates` lets such a
  call take for ever, or end when the firmware answers. A negative one is the cached frame's (GetStatus.srv 6), a NaN
  is treated like an infinity.
- Two handlers with a configure between the gate and the SDK's frame: `CommandGates` has the overlap and
  `FramesFit` excludes it, because the code does not prevent it; during the SDK call it is undefined.
- Messages, parameter file, tests, build and CI: data and configuration.

## Plan

1. *Done:* all modules above, `DriverLifecycle` shown and proved to implement `ManagedNode`, the
   launch file composed with it, and the safety properties of every component proved.
2. *Done:* `SerialStore`, and `FlashStore` shown and proved to implement it; for each disagreement between
   code and documents, a theorem that says under which condition it goes away.
3. An abstract specification of the reports (a topic shows frames in the order in which the arm sent
   them) that `StatusReports` implements.
